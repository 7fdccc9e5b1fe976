-------------------------- MODULE ReconcileProofs --------------------------
(***************************************************************************)
(* Safety of the findings table for any number of findings, overlapping    *)
(* scans, status requests, failed store calls and crashes; and, for the    *)
(* engine with one goroutine at a time, for any number of findings, scans, *)
(* status requests and changes of the reports, that what it tells is what  *)
(* it stores and that it implements FindingLedger.                         *)
(***************************************************************************)
EXTENDS ReconcileSerial, TLAPS

\* A copy of a row that a scan or a request holds is the copy of a row that is
\* still there: nothing deletes rows.
CopiesHaveRows ==
    /\ \A s \in Scans, f \in Fingerprints :
         scan[s].byFP[f].status # "none" => rows[f].status # "none"
    /\ \A u \in Users, f \in Fingerprints :
         edit[u][f] # NoRow =>
            edit[u][f].status \in UserStatuses /\ rows[f].status # "none"

\* What a scan has left to write was reported, or was resolvable in its snapshot.
TodoIsKnown ==
    \A s \in Scans :
        /\ scan[s].pc # "writing" => scan[s].todo = {}
        /\ \A f \in scan[s].todo :
             f \in scan[s].fresh \/ scan[s].byFP[f].status \in Resolvable

\* Ids are minted in order, so that the next one is new.
IdsAreOld == \A f \in Fingerprints : rows[f].status # "none" => rows[f].id < nextId

\* The inductive invariant.
IInv ==
    /\ TypeOK
    /\ CopiesHaveRows
    /\ TodoIsKnown
    /\ IdsAreOld
    /\ DistinctIds
    /\ ResolvedIsSettled

\* A step keeps every row, under its id.
TableKept ==
    \A f \in Fingerprints : rows[f].status # "none" =>
        rows'[f].status # "none" /\ rows'[f].id = rows[f].id

----------------------------------------------------------------------------
\* The rows and events that Reconcile computes have their types, and none of its
\* writes turns a row into the absence of one.
LEMMA RowsComputed ==
    ASSUME NEW prev \in Row, NEW id \in Nat
    PROVE  /\ NoRow \in Row
           /\ NewRow(id) \in Row
           /\ NewRow(id).status = "open"
           /\ NewRow(id).id = id
           /\ MergedRow(prev) \in Row
           /\ AbsentRow(prev) \in Row
           /\ MergedRow(prev).status # "resolved"
           /\ prev.status # "none" => MergedRow(prev).status # "none"
           /\ prev.status \in Resolvable => AbsentRow(prev).status # "none"
           /\ (prev.status \in Resolvable /\ AbsentRow(prev).status = "resolved") =>
                 AbsentRow(prev).resolvedAt = "set" /\ AbsentRow(prev).streak >= ResolveAfter
           /\ FreshEvent(prev, id) \in Event
           /\ AbsentEvent(prev) \in Event
  <1>1. NoRow \in Row /\ NewRow(id) \in Row /\ NewRow(id).status = "open" /\ NewRow(id).id = id
    BY DEF Row, NoRow, NewRow, Statuses
  <1>2. /\ MergedRow(prev) \in Row
        /\ MergedRow(prev).status # "resolved"
        /\ prev.status # "none" => MergedRow(prev).status # "none"
    BY DEF Row, MergedRow, Statuses
  <1>3. AbsentRow(prev) \in Row
    <2>1. CASE prev.streak + 1 >= ResolveAfter
      <3>1. AbsentRow(prev) =
              [prev EXCEPT !.status = "resolved", !.resolvedAt = "set", !.streak = @ + 1]
        BY <2>1 DEF AbsentRow
      <3>2. AbsentRow(prev) = [id |-> prev.id, status |-> "resolved", resolvedAt |-> "set",
                               streak |-> prev.streak + 1]
        BY <3>1 DEF Row
      <3>3. prev.id \in Nat /\ prev.streak + 1 \in Nat
        BY DEF Row
      <3>. QED
        BY <3>2, <3>3 DEF Row, Statuses
    <2>2. CASE ~(prev.streak + 1 >= ResolveAfter)
      <3>1. AbsentRow(prev) = [prev EXCEPT !.streak = @ + 1]
        BY <2>2 DEF AbsentRow
      <3>. QED
        BY <3>1 DEF Row
    <2>. QED
      BY <2>1, <2>2
  <1>4. prev.status \in Resolvable => AbsentRow(prev).status # "none"
    BY DEF Row, AbsentRow, Resolvable
  <1>5. ASSUME prev.status \in Resolvable, AbsentRow(prev).status = "resolved"
        PROVE  AbsentRow(prev).resolvedAt = "set" /\ AbsentRow(prev).streak >= ResolveAfter
    <2>1. prev.streak + 1 >= ResolveAfter
      BY <1>5 DEF AbsentRow, Row, Resolvable
    <2>2. AbsentRow(prev) =
            [prev EXCEPT !.status = "resolved", !.resolvedAt = "set", !.streak = @ + 1]
      BY <2>1 DEF AbsentRow
    <2>. QED
      BY <2>1, <2>2 DEF Row
  <1>6. FreshEvent(prev, id) \in Event
    BY DEF FreshEvent, Event, NoEvent, Row
  <1>7. AbsentEvent(prev) \in Event
    BY DEF AbsentEvent, Event, NoEvent, Row
  <1>. QED
    BY <1>1, <1>2, <1>3, <1>4, <1>5, <1>6, <1>7

\* An upsert keeps the id of a row that is there and takes all else from the
\* record written.
LEMMA UpsertComputed ==
    ASSUME NEW old \in Row, NEW new \in Row
    PROVE  /\ Upsert(old, new) \in Row
           /\ Upsert(old, new).status = new.status
           /\ Upsert(old, new).resolvedAt = new.resolvedAt
           /\ Upsert(old, new).streak = new.streak
           /\ Upsert(old, new).id = IF old.status = "none" THEN new.id ELSE old.id
BY DEF Upsert, Row

\* An idle scan has no copies and nothing to write.
LEMMA IdleComputed ==
    /\ IdleScan \in Scan
    /\ IdleEdit \in [Fingerprints -> Row]
    /\ IdleScan.todo = {}
    /\ \A f \in Fingerprints : IdleScan.byFP[f] = NoRow /\ IdleEdit[f] = NoRow
    /\ NoRow.status = "none"
BY DEF IdleScan, Scan, IdleEdit, NoRow, Row, NoEvent, Event, Statuses

----------------------------------------------------------------------------
\* A write of a record that keeps a row there: what it means for the table.
LEMMA WriteKeepsTable ==
    ASSUME IInv,
           NEW f \in Fingerprints,
           NEW row \in Row,
           Write(f, row),
           row.status # "none",
           row.status = "resolved" => row.resolvedAt = "set" /\ row.streak >= ResolveAfter,
           \/ rows[f].status # "none" /\ nextId' = nextId
           \/ row.id = nextId /\ nextId' = nextId + 1
    PROVE  /\ rows' \in [Fingerprints -> Row]
           /\ nextId' \in Nat \ {0}
           /\ IdsAreOld'
           /\ DistinctIds'
           /\ ResolvedIsSettled'
           /\ TableKept
  <1>. DEFINE new == Upsert(rows[f], row)
  <1>1. rows \in [Fingerprints -> Row] /\ nextId \in Nat \ {0}
    BY DEF IInv, TypeOK
  <1>2. /\ new \in Row
        /\ new.status = row.status
        /\ new.resolvedAt = row.resolvedAt
        /\ new.streak = row.streak
        /\ new.id = IF rows[f].status = "none" THEN row.id ELSE rows[f].id
    BY <1>1, UpsertComputed
  <1>. HIDE DEF new
  <1>3. rows' = [rows EXCEPT ![f] = new]
    BY DEF Write, new
  <1>4. rows' \in [Fingerprints -> Row]
    BY <1>1, <1>2, <1>3
  <1>5. nextId' \in Nat \ {0} /\ nextId' >= nextId
    BY <1>1
  <1>6. rows'[f] = new /\ \A g \in Fingerprints \ {f} : rows'[g] = rows[g]
    BY <1>1, <1>3
  <1>7. new.id < nextId' /\ (rows[f].status = "none" => new.id = nextId)
    BY <1>1, <1>2 DEF IInv, IdsAreOld, Row
  <1>8. IdsAreOld'
    BY <1>1, <1>5, <1>6, <1>7 DEF IInv, IdsAreOld, Row
  <1>9. DistinctIds'
    <2>. SUFFICES ASSUME NEW g \in Fingerprints, NEW h \in Fingerprints,
                         rows'[g].status # "none", rows'[h].status # "none",
                         rows'[g].id = rows'[h].id, g # h
                  PROVE  FALSE
      BY DEF DistinctIds
    <2>1. CASE g # f /\ h # f
      BY <2>1, <1>6 DEF IInv, DistinctIds
    <2>2. ASSUME NEW k \in Fingerprints \ {f}, rows[k].status # "none", rows[k].id = new.id
          PROVE FALSE
      BY <2>2, <1>1, <1>2, <1>7 DEF IInv, DistinctIds, IdsAreOld, Row
    <2>. QED
      BY <2>1, <2>2, <1>6
  <1>10. ResolvedIsSettled'
    BY <1>2, <1>6 DEF IInv, ResolvedIsSettled
  <1>11. TableKept
    BY <1>2, <1>6 DEF TableKept
  <1>. QED
    BY <1>4, <1>5, <1>8, <1>9, <1>10, <1>11

\* A step that leaves the table and the id counter alone.
LEMMA TableUntouched ==
    ASSUME IInv, UNCHANGED <<rows, nextId>>
    PROVE  IdsAreOld' /\ DistinctIds' /\ ResolvedIsSettled' /\ TableKept
BY DEF IInv, IdsAreOld, DistinctIds, ResolvedIsSettled, TableKept

----------------------------------------------------------------------------
\* One step per action: the inductive invariant and the rows are kept.
LEMMA ReportsChangeKeeps ==
    ASSUME IInv, ReportsChange
    PROVE  IInv' /\ TableKept
  <1>1. TypeOK'
    BY ConstantsAssumption DEF IInv, TypeOK, ReportsChange
  <1>2. CopiesHaveRows' /\ TodoIsKnown'
    BY DEF IInv, CopiesHaveRows, TodoIsKnown, ReportsChange
  <1>. QED
    BY <1>1, <1>2, TableUntouched DEF IInv, ReportsChange

\* Collect: the scan holds what the collector reported.
LEMMA CollectKeeps ==
    ASSUME IInv, NEW s \in Scans, Collect(s)
    PROVE  IInv' /\ TableKept
  <1>1. scan[s] \in Scan /\ world \in SUBSET Fingerprints
    BY DEF IInv, TypeOK
  <1>2. scan' = [scan EXCEPT ![s] = [scan[s] EXCEPT !.pc = "collected", !.fresh = world]]
    BY DEF Collect, IInv, TypeOK
  <1>3. [scan[s] EXCEPT !.pc = "collected", !.fresh = world] \in Scan
    BY <1>1 DEF Scan
  <1>4. misses' \in [Fingerprints -> 0 .. ResolveAfter]
    BY ConstantsAssumption DEF IInv, TypeOK, Collect
  <1>5. TypeOK'
    BY <1>2, <1>3, <1>4 DEF IInv, TypeOK, Collect
  <1>6. CopiesHaveRows' /\ TodoIsKnown'
    BY <1>1, <1>2 DEF IInv, TypeOK, CopiesHaveRows, TodoIsKnown, Collect, Scan
  <1>. QED
    BY <1>5, <1>6, TableUntouched DEF IInv, Collect

\* ListByTarget: the snapshot is a copy of the rows.
LEMMA ListByTargetKeeps ==
    ASSUME IInv, NEW s \in Scans, ListByTarget(s)
    PROVE  IInv' /\ TableKept
  <1>. DEFINE todo == scan[s].fresh \cup {f \in Fingerprints : rows[f].status \in Resolvable}
              new == [scan[s] EXCEPT !.pc = "writing", !.byFP = rows, !.todo = todo]
  <1>1. scan[s] \in Scan /\ rows \in [Fingerprints -> Row]
    BY DEF IInv, TypeOK
  <1>2. scan' = [scan EXCEPT ![s] = new]
    BY DEF ListByTarget, IInv, TypeOK
  <1>3. /\ new \in Scan
        /\ new.pc = "writing"
        /\ new.byFP = rows
        /\ new.fresh = scan[s].fresh
        /\ new.todo = todo
    BY <1>1 DEF Scan
  <1>. HIDE DEF new
  <1>4. TypeOK'
    <2>1. scan' \in [Scans -> Scan]
      BY <1>2, <1>3 DEF IInv, TypeOK
    <2>. QED
      BY <2>1 DEF IInv, TypeOK, ListByTarget
  <1>5. CopiesHaveRows' /\ TodoIsKnown'
    BY <1>2, <1>3 DEF IInv, TypeOK, CopiesHaveRows, TodoIsKnown, ListByTarget
  <1>. QED
    BY <1>4, <1>5, TableUntouched DEF IInv, ListByTarget

\* One more finding written: what it means for the scan's own state.
LEMMA WrittenKeepsScan ==
    ASSUME IInv, NEW s \in Scans, NEW f \in Fingerprints, NEW event \in Event,
           scan[s].pc = "writing",
           scan' = [scan EXCEPT ![s].todo = @ \ {f}, ![s].res[f] = event]
    PROVE  /\ scan' \in [Scans -> Scan]
           /\ \A r \in Scans : scan'[r].byFP = scan[r].byFP
           /\ TodoIsKnown'
  <1>. DEFINE new == [scan[s] EXCEPT !.todo = @ \ {f}, !.res = [@ EXCEPT ![f] = event]]
  <1>1. scan \in [Scans -> Scan] /\ scan[s] \in Scan
    BY DEF IInv, TypeOK
  <1>2. scan' = [scan EXCEPT ![s] = new]
    BY <1>1 DEF Scan
  <1>3. /\ new \in Scan
        /\ new.pc = "writing"
        /\ new.byFP = scan[s].byFP
        /\ new.fresh = scan[s].fresh
        /\ new.todo = scan[s].todo \ {f}
    BY <1>1 DEF Scan
  <1>. HIDE DEF new
  <1>4. TodoIsKnown'
    BY <1>1, <1>2, <1>3 DEF IInv, TodoIsKnown
  <1>. QED
    BY <1>1, <1>2, <1>3, <1>4

\* A reported finding is written over the row that the snapshot had.
LEMMA UpsertFreshKeeps ==
    ASSUME IInv, NEW s \in Scans, NEW f \in Fingerprints, UpsertFresh(s, f)
    PROVE  IInv' /\ TableKept
  <1>. DEFINE prev == scan[s].byFP[f]
  <1>1. prev \in Row /\ nextId \in Nat \ {0}
    BY DEF IInv, TypeOK, Scan
  <1>2. FreshEvent(prev, nextId) \in Event
    BY <1>1, RowsComputed
  <1>3. /\ scan' \in [Scans -> Scan]
        /\ \A r \in Scans : scan'[r].byFP = scan[r].byFP
        /\ TodoIsKnown'
    BY <1>2, WrittenKeepsScan DEF UpsertFresh
  <1>4. /\ rows' \in [Fingerprints -> Row]
        /\ nextId' \in Nat \ {0}
        /\ IdsAreOld' /\ DistinctIds' /\ ResolvedIsSettled' /\ TableKept
    <2>1. CASE prev.status = "none" /\ Write(f, NewRow(nextId)) /\ nextId' = nextId + 1
      <3>1. NewRow(nextId) \in Row /\ NewRow(nextId).status = "open" /\ NewRow(nextId).id = nextId
        BY <1>1, RowsComputed
      <3>. QED
        BY <2>1, <3>1, WriteKeepsTable
    <2>2. CASE prev.status # "none" /\ Write(f, MergedRow(prev)) /\ UNCHANGED nextId
      <3>1. /\ MergedRow(prev) \in Row
            /\ MergedRow(prev).status \notin {"none", "resolved"}
        BY <1>1, <2>2, RowsComputed
      <3>2. rows[f].status # "none"
        BY <2>2 DEF IInv, CopiesHaveRows
      <3>. QED
        BY <2>2, <3>1, <3>2, WriteKeepsTable
    <2>. QED
      BY <2>1, <2>2 DEF UpsertFresh
  <1>5. TypeOK'
    BY <1>3, <1>4 DEF IInv, TypeOK, UpsertFresh
  <1>6. CopiesHaveRows'
    BY <1>3, <1>4 DEF IInv, CopiesHaveRows, TableKept, UpsertFresh
  <1>. QED
    BY <1>3, <1>4, <1>5, <1>6 DEF IInv

\* An open finding that was not reported is written with a longer streak, or resolved.
LEMMA UpsertAbsentKeeps ==
    ASSUME IInv, NEW s \in Scans, NEW f \in Fingerprints, UpsertAbsent(s, f)
    PROVE  IInv' /\ TableKept
  <1>. DEFINE prev == scan[s].byFP[f]
  <1>1. prev \in Row
    BY DEF IInv, TypeOK, Scan
  <1>2. AbsentEvent(prev) \in Event
    BY <1>1, RowsComputed
  <1>3. /\ scan' \in [Scans -> Scan]
        /\ \A r \in Scans : scan'[r].byFP = scan[r].byFP
        /\ TodoIsKnown'
    BY <1>2, WrittenKeepsScan DEF UpsertAbsent
  <1>4. prev.status \in Resolvable
    BY DEF UpsertAbsent, IInv, TodoIsKnown
  <1>5. rows[f].status # "none"
    BY <1>4 DEF IInv, CopiesHaveRows, Resolvable
  <1>6. /\ AbsentRow(prev) \in Row
        /\ AbsentRow(prev).status # "none"
        /\ AbsentRow(prev).status = "resolved" =>
              AbsentRow(prev).resolvedAt = "set" /\ AbsentRow(prev).streak >= ResolveAfter
    BY <1>1, <1>4, RowsComputed
  <1>7. /\ rows' \in [Fingerprints -> Row]
        /\ nextId' \in Nat \ {0}
        /\ IdsAreOld' /\ DistinctIds' /\ ResolvedIsSettled' /\ TableKept
    BY <1>5, <1>6, WriteKeepsTable DEF UpsertAbsent
  <1>8. TypeOK'
    BY <1>3, <1>7 DEF IInv, TypeOK, UpsertAbsent
  <1>9. CopiesHaveRows'
    BY <1>3, <1>7 DEF IInv, CopiesHaveRows, TableKept, UpsertAbsent
  <1>. QED
    BY <1>3, <1>7, <1>8, <1>9 DEF IInv

\* OnResult: the events are handed over and the scan ends.
LEMMA OnResultKeeps ==
    ASSUME IInv, NEW s \in Scans, OnResult(s)
    PROVE  IInv' /\ TableKept
  <1>1. told' \in [Fingerprints -> Event]
    BY DEF IInv, TypeOK, Scan, OnResult
  <1>2. scan' \in [Scans -> Scan]
    BY IdleComputed DEF IInv, TypeOK, OnResult
  <1>3. TypeOK'
    BY <1>1, <1>2 DEF IInv, TypeOK, OnResult
  <1>4. CopiesHaveRows' /\ TodoIsKnown'
    BY IdleComputed DEF IInv, TypeOK, CopiesHaveRows, TodoIsKnown, OnResult
  <1>. QED
    BY <1>3, <1>4, TableUntouched DEF IInv, OnResult

\* A store call of a scan fails and ends it.
LEMMA StoreErrorKeeps ==
    ASSUME IInv, NEW s \in Scans, StoreError(s)
    PROVE  IInv' /\ TableKept
  <1>1. scan' \in [Scans -> Scan]
    BY IdleComputed DEF IInv, TypeOK, StoreError
  <1>2. TypeOK'
    BY <1>1, ConstantsAssumption DEF IInv, TypeOK, StoreError
  <1>3. CopiesHaveRows' /\ TodoIsKnown'
    BY IdleComputed DEF IInv, TypeOK, CopiesHaveRows, TodoIsKnown, StoreError
  <1>. QED
    BY <1>2, <1>3, TableUntouched DEF IInv, StoreError

\* The process dies: scans and requests are gone, the table stays.
LEMMA CrashKeeps ==
    ASSUME IInv, Crash
    PROVE  IInv' /\ TableKept
  <1>1. scan' \in [Scans -> Scan] /\ edit' \in [Users -> [Fingerprints -> Row]]
    BY IdleComputed DEF Crash
  <1>2. TypeOK'
    BY <1>1, ConstantsAssumption DEF IInv, TypeOK, Crash
  <1>3. CopiesHaveRows' /\ TodoIsKnown'
    BY IdleComputed DEF CopiesHaveRows, TodoIsKnown, Crash
  <1>. QED
    BY <1>2, <1>3, TableUntouched DEF IInv, Crash

\* A request reads its row.
LEMMA StatusGetKeeps ==
    ASSUME IInv, NEW u \in Users, NEW f \in Fingerprints, NEW next \in Statuses,
           StatusGet(u, f, next)
    PROVE  IInv' /\ TableKept
  <1>. DEFINE row == [rows[f] EXCEPT !.status = next]
  <1>1. edit \in [Users -> [Fingerprints -> Row]] /\ rows[f] \in Row
    BY DEF IInv, TypeOK
  <1>2. row \in Row /\ row.status = next /\ next \in UserStatuses
    BY <1>1 DEF Row, Statuses, StatusGet
  <1>. HIDE DEF row
  <1>3. edit' = [edit EXCEPT ![u] = [edit[u] EXCEPT ![f] = row]]
    BY <1>1 DEF StatusGet, row
  <1>4. TypeOK'
    <2>1. edit' \in [Users -> [Fingerprints -> Row]]
      BY <1>1, <1>2, <1>3
    <2>. QED
      BY <2>1, ConstantsAssumption DEF IInv, TypeOK, StatusGet
  <1>5. CopiesHaveRows'
    BY <1>1, <1>2, <1>3 DEF IInv, CopiesHaveRows, StatusGet
  <1>6. TodoIsKnown'
    BY DEF IInv, TodoIsKnown, StatusGet
  <1>. QED
    BY <1>4, <1>5, <1>6, TableUntouched DEF IInv, StatusGet

\* A request writes its row with the new status.
LEMMA StatusUpsertKeeps ==
    ASSUME IInv, NEW u \in Users, NEW f \in Fingerprints, StatusUpsert(u, f)
    PROVE  IInv' /\ TableKept
  <1>1. /\ edit \in [Users -> [Fingerprints -> Row]]
        /\ edit[u][f] \in Row
        /\ edit[u][f].status \in UserStatuses
        /\ rows[f].status # "none"
    BY DEF IInv, TypeOK, CopiesHaveRows, StatusUpsert
  <1>2. /\ rows' \in [Fingerprints -> Row]
        /\ nextId' \in Nat \ {0}
        /\ IdsAreOld' /\ DistinctIds' /\ ResolvedIsSettled' /\ TableKept
    BY <1>1, WriteKeepsTable DEF StatusUpsert, UserStatuses
  <1>3. edit' = [edit EXCEPT ![u] = [edit[u] EXCEPT ![f] = NoRow]] /\ NoRow \in Row
    BY <1>1 DEF StatusUpsert, NoRow, Row
  <1>4. TypeOK'
    <2>1. edit' \in [Users -> [Fingerprints -> Row]]
      BY <1>1, <1>3
    <2>. QED
      BY <1>2, <2>1 DEF IInv, TypeOK, StatusUpsert
  <1>5. CopiesHaveRows'
    BY <1>1, <1>2, <1>3 DEF IInv, CopiesHaveRows, TableKept, StatusUpsert
  <1>6. TodoIsKnown'
    BY DEF IInv, TodoIsKnown, StatusUpsert
  <1>. QED
    BY <1>2, <1>4, <1>5, <1>6 DEF IInv

\* A request whose store call fails writes nothing.
LEMMA StatusErrorKeeps ==
    ASSUME IInv, NEW u \in Users, NEW f \in Fingerprints, StatusError(u, f)
    PROVE  IInv' /\ TableKept
  <1>1. edit \in [Users -> [Fingerprints -> Row]] /\ NoRow \in Row
    BY DEF IInv, TypeOK, NoRow, Row
  <1>2. edit' = [edit EXCEPT ![u] = [edit[u] EXCEPT ![f] = NoRow]]
    BY <1>1 DEF StatusError
  <1>3. TypeOK'
    <2>1. edit' \in [Users -> [Fingerprints -> Row]]
      BY <1>1, <1>2
    <2>. QED
      BY <2>1, ConstantsAssumption DEF IInv, TypeOK, StatusError
  <1>4. CopiesHaveRows'
    BY <1>1, <1>2 DEF IInv, CopiesHaveRows, StatusError
  <1>5. TodoIsKnown'
    BY DEF IInv, TodoIsKnown, StatusError
  <1>. QED
    BY <1>3, <1>4, <1>5, TableUntouched DEF IInv, StatusError

----------------------------------------------------------------------------
\* The table starts empty and every goroutine idle.
LEMMA InitHolds == Init => IInv
  <1>. SUFFICES ASSUME Init PROVE IInv
    OBVIOUS
  <1>1. NoRow \in Row /\ NoEvent \in Event
    BY DEF NoRow, Row, NoEvent, Event
  <1>2. TypeOK
    BY <1>1, IdleComputed, ConstantsAssumption DEF Init, TypeOK
  <1>3. CopiesHaveRows /\ TodoIsKnown
    BY IdleComputed DEF Init, CopiesHaveRows, TodoIsKnown
  <1>4. IdsAreOld /\ DistinctIds /\ ResolvedIsSettled
    BY IdleComputed DEF Init, IdsAreOld, DistinctIds, ResolvedIsSettled
  <1>. QED
    BY <1>2, <1>3, <1>4 DEF IInv

\* Every step keeps the inductive invariant and the rows.
LEMMA StepKeeps == IInv /\ [Next]_vars => IInv' /\ TableKept
  <1>. SUFFICES ASSUME IInv, [Next]_vars PROVE IInv' /\ TableKept
    OBVIOUS
  <1>1. CASE ReportsChange
    BY <1>1, ReportsChangeKeeps
  <1>2. ASSUME NEW s \in Scans, ScanStep(s) PROVE IInv' /\ TableKept
    BY <1>2, CollectKeeps, ListByTargetKeeps, UpsertFreshKeeps, UpsertAbsentKeeps, OnResultKeeps
    DEF ScanStep
  <1>3. ASSUME NEW s \in Scans, StoreError(s) PROVE IInv' /\ TableKept
    BY <1>3, StoreErrorKeeps
  <1>4. CASE Crash
    BY <1>4, CrashKeeps
  <1>5. ASSUME NEW u \in Users, NEW f \in Fingerprints, NEW next \in Statuses, StatusGet(u, f, next)
        PROVE  IInv' /\ TableKept
    BY <1>5, StatusGetKeeps
  <1>6. ASSUME NEW u \in Users, NEW f \in Fingerprints, StatusUpsert(u, f) \/ StatusError(u, f)
        PROVE  IInv' /\ TableKept
    BY <1>6, StatusUpsertKeeps, StatusErrorKeeps
  <1>7. CASE UNCHANGED vars
    BY <1>7 DEF vars, IInv, TypeOK, CopiesHaveRows, TodoIsKnown, IdsAreOld, DistinctIds,
                ResolvedIsSettled, TableKept
  <1>. QED
    BY <1>1, <1>2, <1>3, <1>4, <1>5, <1>6, <1>7 DEF Next

\* The inductive invariant holds throughout.
THEOREM Invariance == Spec => []IInv
  <1>1. IInv /\ [Next]_vars => IInv'
    BY StepKeeps
  <1>. QED
    BY InitHolds, <1>1, PTL DEF Spec

\* The table and the locals of scans and requests keep their types
\* (Reconcile, handleFindingStatus).
THEOREM TypeCorrect == Spec => []TypeOK
  <1>1. IInv => TypeOK
    BY DEF IInv
  <1>. QED
    BY Invariance, <1>1, PTL

\* However many scans and requests overlap, fail or are cut off by a crash, a
\* resolved row has its stamp and the absences it rests on (Reconcile).
THEOREM ResolvedRowsAreSettled == Spec => []ResolvedIsSettled
  <1>1. IInv => ResolvedIsSettled
    BY DEF IInv
  <1>. QED
    BY Invariance, <1>1, PTL

\* No two findings ever share an id, although overlapping scans insert the same
\* finding with different ids (SQLiteStore.Upsert).
THEOREM IdsAreDistinct == Spec => []DistinctIds
  <1>1. IInv => DistinctIds
    BY DEF IInv
  <1>. QED
    BY Invariance, <1>1, PTL

\* A stored finding is never lost and never renamed (SQLiteStore.Upsert).
THEOREM IdentityIsKept == Spec => KeepsIdentity
  <1>1. IInv /\ [Next]_vars =>
          [\A f \in Fingerprints : rows[f].status # "none" =>
               rows'[f].status # "none" /\ rows'[f].id = rows[f].id]_vars
    BY StepKeeps DEF TableKept
  <1>. QED
    BY Invariance, <1>1, PTL DEF Spec, KeepsIdentity

----------------------------------------------------------------------------
\* The engine with one goroutine at a time.

\* A scan holds events only while it writes.
EventsWhileWriting ==
    \A s \in Scans, f \in Fingerprints :
        scan[s].pc # "writing" => scan[s].res[f].kind = "nothing"

\* What a scan has yet to write is in the table as it read it.
SnapshotIsCurrent ==
    \A s \in Scans : \A f \in scan[s].todo :
        scan[s].byFP[f] = rows[f] /\ scan[s].res[f].kind = "nothing"

\* An event that a scan holds is what the table says now.
EventsAreStored ==
    \A s \in Scans, f \in Fingerprints :
        /\ scan[s].res[f].kind = "opened" => rows[f].status = "open" /\ rows[f].resolvedAt = "nil"
        /\ scan[s].res[f].kind = "resolved" => rows[f].status = "resolved"
        /\ scan[s].res[f].kind # "nothing" => scan[s].res[f].id = rows[f].id

\* A status request holds the row as it is, but for the status.
EditIsCurrent ==
    \A u \in Users, f \in Fingerprints :
        edit[u][f] # NoRow => /\ edit[u][f].resolvedAt = rows[f].resolvedAt
                              /\ edit[u][f].streak = rows[f].streak

\* A finding that was told of has a row, under the id that was told.
ToldHasRow ==
    \A f \in Fingerprints :
        told[f].kind # "nothing" => rows[f].status # "none" /\ told[f].id = rows[f].id

\* The inductive invariant of the serial engine, faults or not.
SInv ==
    /\ IInv
    /\ OneAtATime
    /\ EventsWhileWriting
    /\ SnapshotIsCurrent
    /\ EventsAreStored
    /\ EditIsCurrent
    /\ ToldHasRow

\* The finding was opened or resolved, and that was told or a scan will tell it.
Known(f, kind) == told[f].kind = kind \/ \E s \in Scans : scan[s].res[f].kind = kind

ToldOrOwed ==
    \A f \in Fingerprints :
        /\ Live(f) /\ rows[f].resolvedAt = "nil" => Known(f, "opened")
        /\ rows[f].status = "resolved" => Known(f, "resolved")

\* A scan has collected, and not yet written what that says of f.
Pending(s, f) == scan[s].pc = "collected" \/ f \in scan[s].todo

\* m consecutive misses, counted up to ResolveAfter, account for a streak of n.
Covers(m, n) == m >= n \/ m = ResolveAfter

\* The streak of a row is no longer than its misses, and one shorter while a scan
\* has yet to count it; a finding that the scan has seen has no misses.
StreakIsCovered ==
    \A f \in Fingerprints :
        /\ \A s \in Scans : Pending(s, f) =>
             IF f \in scan[s].fresh THEN misses[f] = 0 ELSE Covers(misses[f], rows[f].streak + 1)
        /\ (\A s \in Scans : ~Pending(s, f)) => Covers(misses[f], rows[f].streak)

\* Without faults.
FInv == SInv /\ ToldOrOwed /\ StreakIsCovered

\* What one write of a scan does to its finding: it opens it, leaves it live, or
\* resolves it.
Outcome(s, f) ==
    \/ /\ rows[f].status \in {"none", "resolved"}
       /\ rows'[f].status = "open" /\ rows'[f].resolvedAt = "nil"
       /\ scan'[s].res[f].kind = "opened"
    \/ /\ Live(f)
       /\ rows'[f].status = rows[f].status /\ rows'[f].resolvedAt = rows[f].resolvedAt
       /\ scan'[s].res[f].kind = "nothing"
    \/ /\ rows[f].status \in Resolvable
       /\ rows'[f].status = "resolved"
       /\ scan'[s].res[f].kind = "resolved"

\* A scan has written f, and with that nothing else.
Wrote(s, f) ==
    /\ Outcome(s, f)
    /\ scan'[s].res[f].kind # "nothing" => scan'[s].res[f].id = rows'[f].id
    /\ rows'[f].streak = IF f \in scan[s].fresh THEN 0 ELSE rows[f].streak + 1
    /\ \A g \in Fingerprints \ {f} : rows'[g] = rows[g] /\ scan'[s].res[g] = scan[s].res[g]
    /\ scan[s].pc = "writing" /\ scan'[s].pc = "writing"
    /\ scan'[s].fresh = scan[s].fresh /\ scan'[s].byFP = scan[s].byFP
    /\ f \in scan[s].todo /\ scan'[s].todo = scan[s].todo \ {f}
    /\ \A t \in Scans \ {s} : scan'[t] = scan[t]
    /\ UNCHANGED <<edit, told, misses, faults>>

----------------------------------------------------------------------------
\* While a scan is at work, the others are idle and no request is in flight.
LEMMA Alone ==
    ASSUME SInv, NEW s \in Scans, scan[s].pc # "idle"
    PROVE  /\ \A t \in Scans \ {s} : /\ scan[t].pc = "idle"
                                     /\ scan[t].todo = {}
                                     /\ \A f \in Fingerprints : scan[t].res[f].kind = "nothing"
           /\ \A u \in Users, f \in Fingerprints : edit[u][f] = NoRow
BY DEF SInv, IInv, TodoIsKnown, OneAtATime, EventsWhileWriting

\* While a request is in flight, no scan is at work and there is no other request.
LEMMA AloneInEdit ==
    ASSUME SInv, NEW u \in Users, NEW f \in Fingerprints, edit[u][f] # NoRow
    PROVE  /\ \A s \in Scans : /\ scan[s].pc = "idle"
                               /\ scan[s].todo = {}
                               /\ \A g \in Fingerprints : scan[s].res[g].kind = "nothing"
           /\ \A v \in Users, g \in Fingerprints : edit[v][g] # NoRow => v = u /\ g = f
BY DEF SInv, IInv, TodoIsKnown, OneAtATime, EventsWhileWriting

\* The event of a finding and the row it gets are of one mind.
LEMMA FreshComputed ==
    ASSUME NEW prev \in Row, NEW id \in Nat
    PROVE  /\ prev.status = "none" => FreshEvent(prev, id) = [kind |-> "opened", id |-> id]
           /\ prev.status = "resolved" =>
                /\ FreshEvent(prev, id) = [kind |-> "opened", id |-> prev.id]
                /\ MergedRow(prev).status = "open" /\ MergedRow(prev).resolvedAt = "nil"
           /\ prev.status \notin {"none", "resolved"} =>
                /\ FreshEvent(prev, id).kind = "nothing"
                /\ MergedRow(prev).status = prev.status
                /\ MergedRow(prev).resolvedAt = prev.resolvedAt
           /\ MergedRow(prev).streak = 0
           /\ NewRow(id).streak = 0 /\ NewRow(id).resolvedAt = "nil"
BY DEF FreshEvent, MergedRow, NewRow, NoEvent, Row

\* What an upsert of an absent finding writes, and the events it leaves.
LEMMA AbsentComputed ==
    ASSUME NEW prev \in Row, prev.status \in Resolvable
    PROVE  /\ AbsentRow(prev).streak = prev.streak + 1
           /\ \/ /\ AbsentRow(prev).status = prev.status
                 /\ AbsentRow(prev).resolvedAt = prev.resolvedAt
                 /\ AbsentEvent(prev).kind = "nothing"
              \/ /\ AbsentRow(prev).status = "resolved"
                 /\ AbsentEvent(prev) = [kind |-> "resolved", id |-> prev.id]
  <1>1. CASE prev.streak + 1 >= ResolveAfter
    <2>1. AbsentRow(prev) = [prev EXCEPT !.status = "resolved", !.resolvedAt = "set", !.streak = @ + 1]
      BY <1>1 DEF AbsentRow
    <2>2. AbsentRow(prev).status = "resolved" /\ AbsentRow(prev).streak = prev.streak + 1
      BY <2>1 DEF Row
    <2>. QED
      BY <2>2 DEF AbsentEvent
  <1>2. CASE ~(prev.streak + 1 >= ResolveAfter)
    <2>1. AbsentRow(prev) = [prev EXCEPT !.streak = @ + 1]
      BY <1>2 DEF AbsentRow
    <2>2. /\ AbsentRow(prev).status = prev.status
          /\ AbsentRow(prev).resolvedAt = prev.resolvedAt
          /\ AbsentRow(prev).streak = prev.streak + 1
      BY <2>1 DEF Row
    <2>. QED
      BY <2>2 DEF AbsentEvent, Resolvable, NoEvent
  <1>. QED
    BY <1>1, <1>2

\* The locals of a scan after it has written f.
LEMMA WrittenScan ==
    ASSUME IInv, NEW s \in Scans, NEW f \in Fingerprints, NEW event \in Event,
           scan' = [scan EXCEPT ![s].todo = @ \ {f}, ![s].res[f] = event]
    PROVE  /\ \A t \in Scans \ {s} : scan'[t] = scan[t]
           /\ scan'[s].pc = scan[s].pc
           /\ scan'[s].fresh = scan[s].fresh
           /\ scan'[s].byFP = scan[s].byFP
           /\ scan'[s].todo = scan[s].todo \ {f}
           /\ scan'[s].res[f] = event
           /\ \A g \in Fingerprints \ {f} : scan'[s].res[g] = scan[s].res[g]
  <1>1. scan \in [Scans -> Scan] /\ scan[s] \in Scan /\ scan[s].res \in [Fingerprints -> Event]
    BY DEF IInv, TypeOK, Scan
  <1>2. scan' = [scan EXCEPT ![s] =
                   [scan[s] EXCEPT !.todo = @ \ {f}, !.res = [@ EXCEPT ![f] = event]]]
    BY <1>1
  <1>3. scan'[s] = [scan[s] EXCEPT !.todo = @ \ {f}, !.res = [@ EXCEPT ![f] = event]]
    BY <1>1, <1>2
  <1>. QED
    BY <1>1, <1>2, <1>3 DEF Scan

\* After an upsert of a reported finding: its row, its events and what is left to do.
LEMMA UpsertFreshWrote ==
    ASSUME SInv, NEW s \in Scans, NEW f \in Fingerprints, UpsertFresh(s, f)
    PROVE  Wrote(s, f)
  <1>. DEFINE prev == rows[f]
  <1>1. /\ scan[s].byFP[f] = prev /\ scan[s].pc = "writing"
        /\ f \in scan[s].todo /\ f \in scan[s].fresh
    BY DEF SInv, SnapshotIsCurrent, UpsertFresh
  <1>2. rows \in [Fingerprints -> Row] /\ prev \in Row /\ nextId \in Nat
    BY DEF SInv, IInv, TypeOK
  <1>. DEFINE event == FreshEvent(prev, nextId)
  <1>3. event \in Event
    BY <1>2, RowsComputed
  <1>4. scan' = [scan EXCEPT ![s].todo = @ \ {f}, ![s].res[f] = event]
    BY <1>1 DEF UpsertFresh
  <1>. HIDE DEF event
  <1>5. /\ \A t \in Scans \ {s} : scan'[t] = scan[t]
        /\ scan'[s].pc = "writing" /\ scan'[s].fresh = scan[s].fresh
        /\ scan'[s].byFP = scan[s].byFP /\ scan'[s].todo = scan[s].todo \ {f}
        /\ scan'[s].res[f] = event
        /\ \A g \in Fingerprints \ {f} : scan'[s].res[g] = scan[s].res[g]
    BY <1>1, <1>3, <1>4, WrittenScan DEF SInv
  <1>6. PICK row \in Row : /\ Write(f, row)
                           /\ row = IF prev.status = "none" THEN NewRow(nextId) ELSE MergedRow(prev)
    BY <1>1, <1>2, RowsComputed DEF UpsertFresh
  <1>7. /\ rows'[f] = Upsert(prev, row)
        /\ \A g \in Fingerprints \ {f} : rows'[g] = rows[g]
    BY <1>2, <1>6 DEF Write
  <1>8. /\ rows'[f].status = row.status /\ rows'[f].resolvedAt = row.resolvedAt
        /\ rows'[f].streak = row.streak
        /\ rows'[f].id = IF prev.status = "none" THEN row.id ELSE prev.id
    BY <1>2, <1>7, UpsertComputed
  <1>9. Outcome(s, f) /\ (event.kind # "nothing" => event.id = rows'[f].id) /\ row.streak = 0
    <2>1. CASE prev.status = "none"
      BY <1>2, <1>5, <1>6, <1>8, <2>1, FreshComputed, RowsComputed DEF Outcome, event
    <2>2. CASE prev.status = "resolved"
      BY <1>2, <1>5, <1>6, <1>8, <2>2, FreshComputed DEF Outcome, event
    <2>3. CASE prev.status \notin {"none", "resolved"}
      <3>1. Live(f)
        BY <1>2, <2>3 DEF Live, Row, Statuses
      <3>. QED
        BY <1>2, <1>5, <1>6, <1>8, <2>3, <3>1, FreshComputed DEF Outcome, event
    <2>. QED
      BY <2>1, <2>2, <2>3
  <1>. QED
    BY <1>1, <1>5, <1>7, <1>8, <1>9 DEF Wrote, UpsertFresh

\* After an upsert of an absent finding: its row, its events and what is left to do.
LEMMA UpsertAbsentWrote ==
    ASSUME SInv, NEW s \in Scans, NEW f \in Fingerprints, UpsertAbsent(s, f)
    PROVE  Wrote(s, f)
  <1>. DEFINE prev == rows[f]
  <1>1. /\ scan[s].byFP[f] = prev /\ scan[s].pc = "writing"
        /\ f \in scan[s].todo /\ f \notin scan[s].fresh
    BY DEF SInv, SnapshotIsCurrent, UpsertAbsent
  <1>2. rows \in [Fingerprints -> Row] /\ prev \in Row
    BY DEF SInv, IInv, TypeOK
  <1>3. prev.status \in Resolvable
    BY <1>1 DEF SInv, IInv, TodoIsKnown
  <1>. DEFINE event == AbsentEvent(prev)
              row == AbsentRow(prev)
  <1>4. event \in Event /\ row \in Row
    BY <1>2, RowsComputed
  <1>5. /\ scan' = [scan EXCEPT ![s].todo = @ \ {f}, ![s].res[f] = event]
        /\ rows' = [rows EXCEPT ![f] = Upsert(rows[f], row)]
    BY <1>1 DEF UpsertAbsent, Write
  <1>. HIDE DEF event, row
  <1>6. /\ \A t \in Scans \ {s} : scan'[t] = scan[t]
        /\ scan'[s].pc = "writing" /\ scan'[s].fresh = scan[s].fresh
        /\ scan'[s].byFP = scan[s].byFP /\ scan'[s].todo = scan[s].todo \ {f}
        /\ scan'[s].res[f] = event
        /\ \A g \in Fingerprints \ {f} : scan'[s].res[g] = scan[s].res[g]
    BY <1>1, <1>4, <1>5, WrittenScan DEF SInv
  <1>7. /\ rows'[f] = Upsert(prev, row)
        /\ \A g \in Fingerprints \ {f} : rows'[g] = rows[g]
    BY <1>2, <1>5
  <1>8. /\ rows'[f].status = row.status /\ rows'[f].resolvedAt = row.resolvedAt
        /\ rows'[f].streak = row.streak
        /\ rows'[f].id = prev.id
    BY <1>2, <1>3, <1>4, <1>7, UpsertComputed DEF Resolvable
  <1>9. /\ Outcome(s, f) /\ (event.kind # "nothing" => event.id = rows'[f].id)
        /\ row.streak = prev.streak + 1
    <2>1. Live(f)
      BY <1>3 DEF Live, Resolvable
    <2>. QED
      BY <1>2, <1>3, <1>6, <1>8, <2>1, AbsentComputed DEF Outcome, event, row
  <1>. QED
    BY <1>1, <1>6, <1>7, <1>8, <1>9 DEF Wrote, UpsertAbsent

----------------------------------------------------------------------------
\* The parts of SInv that a step must be shown to keep.
Current ==
    EventsWhileWriting /\ SnapshotIsCurrent /\ EventsAreStored /\ EditIsCurrent /\ ToldHasRow

\* A step of the engine as a listener sees it: one of the ledger, or none.
LedgerStep == Ledger!Next \/ UNCHANGED Ledger!vars

\* A step that leaves the table, the events of the scans and what was told alone.
LEMMA Unheard ==
    ASSUME \A f \in Fingerprints : StateOf(f)' = StateOf(f),
           \A f \in Fingerprints, s \in Scans : scan'[s].res[f].kind = scan[s].res[f].kind,
           told' = told
    PROVE  LedgerStep
  <1>1. \A f \in Fingerprints : Owed(f)' = Owed(f)
    BY DEF Owed
  <1>. QED
    BY <1>1 DEF LedgerStep, Ledger!vars

\* A write of a scan keeps what it and the others hold up to date.
LEMMA WroteKeepsCurrent ==
    ASSUME SInv, NEW s \in Scans, NEW f \in Fingerprints, Wrote(s, f), TableKept
    PROVE  Current'
  <1>1. /\ \A t \in Scans \ {s} : /\ scan[t].pc = "idle" /\ scan[t].todo = {}
                                  /\ \A g \in Fingerprints : scan[t].res[g].kind = "nothing"
        /\ \A u \in Users, g \in Fingerprints : edit[u][g] = NoRow
    BY Alone DEF Wrote
  <1>2. EventsWhileWriting' /\ EditIsCurrent'
    BY <1>1 DEF EventsWhileWriting, EditIsCurrent, Wrote
  <1>3. SnapshotIsCurrent'
    <2>. SUFFICES ASSUME NEW t \in Scans, NEW g \in scan'[t].todo
                  PROVE  scan'[t].byFP[g] = rows'[g] /\ scan'[t].res[g].kind = "nothing"
      BY DEF SnapshotIsCurrent
    <2>1. t = s /\ g \in scan[s].todo /\ g # f /\ g \in Fingerprints
      BY <1>1 DEF Wrote, SInv, IInv, TypeOK, Scan
    <2>. QED
      BY <2>1 DEF SInv, SnapshotIsCurrent, Wrote
  <1>4. EventsAreStored'
    <2>. SUFFICES ASSUME NEW t \in Scans, NEW g \in Fingerprints, scan'[t].res[g].kind # "nothing"
                  PROVE  /\ scan'[t].res[g].kind = "opened" =>
                              rows'[g].status = "open" /\ rows'[g].resolvedAt = "nil"
                         /\ scan'[t].res[g].kind = "resolved" => rows'[g].status = "resolved"
                         /\ scan'[t].res[g].id = rows'[g].id
      BY DEF EventsAreStored
    <2>1. t = s
      BY <1>1 DEF Wrote
    <2>2. CASE g = f
      BY <2>1, <2>2 DEF Wrote, Outcome
    <2>3. CASE g # f
      BY <2>1, <2>3 DEF Wrote, SInv, EventsAreStored
    <2>. QED
      BY <2>2, <2>3
  <1>5. ToldHasRow'
    BY DEF SInv, ToldHasRow, TableKept, Wrote
  <1>. QED
    BY <1>2, <1>3, <1>4, <1>5 DEF Current

\* A write of a scan opens, resolves or leaves its finding, for the listener too.
LEMMA WroteIsLedgerStep ==
    ASSUME SInv, NEW s \in Scans, NEW f \in Fingerprints, Wrote(s, f)
    PROVE  LedgerStep
  <1>1. \A t \in Scans \ {s}, g \in Fingerprints :
          scan[t].res[g].kind = "nothing" /\ scan'[t].res[g].kind = "nothing"
    BY Alone DEF Wrote
  <1>2. scan[s].res[f].kind = "nothing"
    BY DEF SInv, SnapshotIsCurrent, Wrote
  <1>3. /\ Owed(f) = "nothing" /\ Owed(f)' = scan'[s].res[f].kind
        /\ \A g \in Fingerprints \ {f} : Owed(g)' = Owed(g) /\ StateOf(g)' = StateOf(g)
    <2>1. Owed(f) = "nothing"
      BY <1>1, <1>2 DEF Owed
    <2>2. Owed(f)' = scan'[s].res[f].kind
      BY <1>1 DEF Owed, Wrote, Outcome
    <2>3. ASSUME NEW g \in Fingerprints \ {f} PROVE Owed(g)' = Owed(g) /\ StateOf(g)' = StateOf(g)
      <3>1. \A t \in Scans : scan'[t].res[g] = scan[t].res[g]
        BY DEF Wrote
      <3>2. rows'[g] = rows[g]
        BY DEF Wrote
      <3>. QED
        BY <3>1, <3>2 DEF Owed, StateOf
    <2>. QED
      BY <2>1, <2>2, <2>3
  <1>4. CASE /\ rows[f].status \in {"none", "resolved"}
             /\ rows'[f].status = "open" /\ scan'[s].res[f].kind = "opened"
    <2>1. StateOf(f) # "live" /\ StateOf(f)' = "live"
      BY <1>4 DEF StateOf
    <2>2. Ledger!Detect(f)
      BY <1>3, <1>4, <2>1 DEF Ledger!Detect, Wrote
    <2>. QED
      BY <2>2 DEF LedgerStep, Ledger!Next
  <1>5. CASE /\ Live(f) /\ rows'[f].status = rows[f].status
             /\ scan'[s].res[f].kind = "nothing"
    <2>1. StateOf(f)' = StateOf(f) /\ Owed(f)' = Owed(f)
      BY <1>3, <1>5 DEF StateOf
    <2>. QED
      BY <1>3, <2>1 DEF LedgerStep, Ledger!vars, Wrote
  <1>6. CASE /\ rows[f].status \in Resolvable /\ rows'[f].status = "resolved"
             /\ scan'[s].res[f].kind = "resolved"
    <2>1. StateOf(f) = "live" /\ StateOf(f)' = "resolved"
      BY <1>6 DEF StateOf, Resolvable
    <2>2. Ledger!Clear(f)
      BY <1>3, <1>6, <2>1 DEF Ledger!Clear, Wrote
    <2>. QED
      BY <2>2 DEF LedgerStep, Ledger!Next
  <1>. QED
    BY <1>4, <1>5, <1>6 DEF Wrote, Outcome

\* A write of a scan leaves its finding told of, or to be told of, as stored, and
\* its streak covered.
LEMMA WroteKeepsFacts ==
    ASSUME FInv, NEW s \in Scans, NEW f \in Fingerprints, Wrote(s, f)
    PROVE  ToldOrOwed' /\ StreakIsCovered'
  <1>1. \A t \in Scans \ {s} : /\ scan'[t] = scan[t]
                               /\ scan[t].pc = "idle" /\ scan[t].todo = {}
                               /\ \A g \in Fingerprints : scan[t].res[g].kind = "nothing"
    BY Alone DEF FInv, Wrote
  <1>2. ToldOrOwed'
    <2>. SUFFICES ASSUME NEW g \in Fingerprints
                  PROVE  /\ Live(g)' /\ rows'[g].resolvedAt = "nil" => Known(g, "opened")'
                         /\ rows'[g].status = "resolved" => Known(g, "resolved")'
      BY DEF ToldOrOwed
    <2>1. CASE g # f
      <3>1. rows'[g] = rows[g] /\ told' = told /\ \A t \in Scans : scan'[t].res[g] = scan[t].res[g]
        BY <2>1 DEF Wrote
      <3>. QED
        BY <3>1 DEF FInv, ToldOrOwed, Known, Live
    <2>2. CASE g = f
      <3>1. \A t \in Scans : scan[t].res[f].kind = "nothing"
        BY <1>1 DEF FInv, SInv, SnapshotIsCurrent, Wrote
      <3>2. Live(f) /\ rows[f].resolvedAt = "nil" => told[f].kind = "opened"
        BY <3>1 DEF FInv, ToldOrOwed, Known
      <3>3. told' = told
        BY DEF Wrote
      <3>. QED
        BY <2>2, <3>2, <3>3 DEF Wrote, Outcome, Known, Live
    <2>. QED
      BY <2>1, <2>2
  <1>3. StreakIsCovered'
    <2>. SUFFICES ASSUME NEW g \in Fingerprints
                  PROVE  /\ \A t \in Scans : Pending(t, g)' =>
                              IF g \in scan'[t].fresh THEN misses'[g] = 0
                              ELSE Covers(misses'[g], rows'[g].streak + 1)
                         /\ (\A t \in Scans : ~Pending(t, g)') => Covers(misses'[g], rows'[g].streak)
      BY DEF StreakIsCovered, Covers
    <2>1. CASE g # f
      <3>1. /\ rows'[g] = rows[g] /\ misses' = misses
            /\ \A t \in Scans : (Pending(t, g)' <=> Pending(t, g)) /\ scan'[t].fresh = scan[t].fresh
        BY <2>1 DEF Wrote, Pending
      <3>. QED
        BY <3>1 DEF FInv, StreakIsCovered
    <2>2. CASE g = f
      <3>1. \A t \in Scans : ~Pending(t, f)'
        BY <1>1 DEF Pending, Wrote
      <3>2. IF f \in scan[s].fresh THEN misses[f] = 0 ELSE Covers(misses[f], rows[f].streak + 1)
        BY DEF FInv, StreakIsCovered, Pending, Wrote
      <3>3. misses' = misses
        BY DEF Wrote
      <3>4. Covers(misses'[f], rows'[f].streak)
        BY <3>2, <3>3 DEF Wrote, Covers
      <3>. QED
        BY <2>2, <3>1, <3>4
    <2>. QED
      BY <2>1, <2>2
  <1>. QED
    BY <1>2, <1>3

----------------------------------------------------------------------------
\* The other steps, one lemma each.
LEMMA ReportsChangeSerial ==
    ASSUME SInv, ReportsChange
    PROVE  Current' /\ LedgerStep /\ (FInv => ToldOrOwed' /\ StreakIsCovered')
  <1>1. Current'
    BY DEF ReportsChange, SInv, Current, EventsWhileWriting, SnapshotIsCurrent, EventsAreStored,
           EditIsCurrent, ToldHasRow
  <1>2. LedgerStep
    BY Unheard DEF ReportsChange, StateOf
  <1>3. FInv => ToldOrOwed' /\ StreakIsCovered'
    BY DEF ReportsChange, FInv, ToldOrOwed, Known, Live, StreakIsCovered, Pending
  <1>. QED
    BY <1>1, <1>2, <1>3

\* Collect: no row and no announcement changes; the misses are counted.
LEMMA CollectSerial ==
    ASSUME SInv, NEW s \in Scans, Collect(s), OneAtATime'
    PROVE  Current' /\ LedgerStep /\ (FInv => ToldOrOwed' /\ StreakIsCovered')
  <1>1. scan \in [Scans -> Scan] /\ scan[s] \in Scan /\ scan[s].pc = "idle"
    BY DEF SInv, IInv, TypeOK, Collect
  <1>2. /\ \A t \in Scans \ {s} : scan'[t] = scan[t]
        /\ scan'[s].pc = "collected" /\ scan'[s].fresh = world
        /\ scan'[s].todo = scan[s].todo /\ scan'[s].res = scan[s].res
        /\ scan'[s].byFP = scan[s].byFP
    BY <1>1 DEF Collect, Scan
  <1>3. /\ \A t \in Scans : scan[t].pc = "idle"
        /\ \A t \in Scans : scan[t].todo = {} /\ scan'[t].todo = {}
    BY <1>1, <1>2 DEF OneAtATime, SInv, IInv, TodoIsKnown
  <1>0. rows' = rows /\ edit' = edit /\ told' = told
    BY DEF Collect
  <1>4. Current'
    <2>1. \A t \in Scans : scan'[t].res = scan[t].res
      BY <1>2
    <2>2. \A t \in Scans, f \in Fingerprints : scan'[t].res[f].kind = "nothing"
      BY <1>3, <2>1 DEF SInv, EventsWhileWriting
    <2>3. EventsWhileWriting' /\ SnapshotIsCurrent' /\ EventsAreStored'
      BY <1>3, <2>2 DEF EventsWhileWriting, SnapshotIsCurrent, EventsAreStored
    <2>4. EditIsCurrent' /\ ToldHasRow'
      BY <1>0 DEF SInv, EditIsCurrent, ToldHasRow
    <2>. QED
      BY <2>3, <2>4 DEF Current
  <1>5. LedgerStep
    BY <1>2, Unheard DEF Collect, StateOf
  <1>6. ASSUME FInv PROVE ToldOrOwed'
    <2>1. \A t \in Scans : scan'[t].res = scan[t].res
      BY <1>2
    <2>. QED
      BY <1>0, <1>6, <2>1 DEF FInv, ToldOrOwed, Known, Live
  <1>7. ASSUME FInv PROVE StreakIsCovered'
    <2>. SUFFICES ASSUME NEW f \in Fingerprints
                  PROVE  IF f \in world THEN misses'[f] = 0
                         ELSE Covers(misses'[f], rows[f].streak + 1)
      BY <1>2, <1>3 DEF StreakIsCovered, Pending, Collect
    <2>1. Covers(misses[f], rows[f].streak)
      BY <1>3, <1>7 DEF FInv, StreakIsCovered, Pending
    <2>2. misses[f] \in 0 .. ResolveAfter /\ rows[f].streak \in Nat
      BY DEF SInv, IInv, TypeOK, Row
    <2>. QED
      BY <2>1, <2>2, ConstantsAssumption DEF Collect, Covers
  <1>. QED
    BY <1>4, <1>5, <1>6, <1>7

\* ListByTarget: with nobody else running, the snapshot is the table.
LEMMA ListByTargetSerial ==
    ASSUME SInv, NEW s \in Scans, ListByTarget(s)
    PROVE  Current' /\ LedgerStep /\ (FInv => ToldOrOwed' /\ StreakIsCovered')
  <1>1. scan \in [Scans -> Scan] /\ scan[s] \in Scan /\ scan[s].pc = "collected"
    BY DEF SInv, IInv, TypeOK, ListByTarget
  <1>2. /\ \A t \in Scans \ {s} : scan'[t] = scan[t]
        /\ scan'[s].pc = "writing" /\ scan'[s].fresh = scan[s].fresh
        /\ scan'[s].res = scan[s].res /\ scan'[s].byFP = rows
        /\ scan'[s].todo = scan[s].fresh \cup {f \in Fingerprints : rows[f].status \in Resolvable}
    BY <1>1 DEF ListByTarget, Scan
  <1>3. \A t \in Scans \ {s} : scan[t].pc = "idle" /\ scan[t].todo = {}
    BY <1>1, Alone
  <1>4. \A t \in Scans, f \in Fingerprints : scan'[t].res[f].kind = "nothing"
    BY <1>1, <1>2, <1>3 DEF SInv, EventsWhileWriting
  <1>5. scan'[s].todo \subseteq Fingerprints
    BY <1>1, <1>2 DEF Scan
  <1>0. rows' = rows /\ edit' = edit /\ told' = told
    BY DEF ListByTarget
  <1>6. Current'
    <2>1. EventsWhileWriting' /\ EventsAreStored'
      BY <1>4 DEF EventsWhileWriting, EventsAreStored
    <2>2. SnapshotIsCurrent'
      BY <1>0, <1>2, <1>3, <1>4, <1>5 DEF SnapshotIsCurrent
    <2>3. EditIsCurrent' /\ ToldHasRow'
      BY <1>0 DEF SInv, EditIsCurrent, ToldHasRow
    <2>. QED
      BY <2>1, <2>2, <2>3 DEF Current
  <1>7. LedgerStep
    BY <1>2, Unheard DEF ListByTarget, StateOf
  <1>8. ASSUME FInv PROVE ToldOrOwed'
    <2>1. \A t \in Scans : scan'[t].res = scan[t].res
      BY <1>2
    <2>. QED
      BY <1>0, <1>8, <2>1 DEF FInv, ToldOrOwed, Known, Live
  <1>9. ASSUME FInv PROVE StreakIsCovered'
    <2>1. \A t \in Scans \ {s}, f \in Fingerprints : ~Pending(t, f) /\ ~Pending(t, f)'
      BY <1>2, <1>3 DEF Pending
    <2>2. ASSUME NEW f \in Fingerprints
          PROVE  /\ Pending(s, f)
                 /\ Pending(s, f)' <=> f \in scan'[s].todo
                 /\ misses[f] \in Nat /\ rows[f].streak \in Nat
      BY <1>1, <1>2, ConstantsAssumption DEF Pending, SInv, IInv, TypeOK, Row
    <2>3. \A f \in Fingerprints : IF f \in scan[s].fresh THEN misses[f] = 0
                                  ELSE Covers(misses[f], rows[f].streak + 1)
      BY <1>9, <2>2 DEF FInv, StreakIsCovered
    <2>. SUFFICES ASSUME NEW f \in Fingerprints
                  PROVE  /\ \A t \in Scans : Pending(t, f)' =>
                              IF f \in scan'[t].fresh THEN misses[f] = 0
                              ELSE Covers(misses[f], rows[f].streak + 1)
                         /\ (\A t \in Scans : ~Pending(t, f)') => Covers(misses[f], rows[f].streak)
      BY DEF StreakIsCovered, ListByTarget, Covers
    <2>4. ~Pending(s, f)' => f \notin scan[s].fresh
      BY <1>2, <2>2
    <2>. QED
      BY <1>2, <2>1, <2>2, <2>3, <2>4 DEF Covers
  <1>. QED
    BY <1>6, <1>7, <1>8, <1>9

\* OnResult: all that the scan has changed is announced, and told agrees with the table.
LEMMA OnResultSerial ==
    ASSUME SInv, NEW s \in Scans, OnResult(s)
    PROVE  Current' /\ LedgerStep /\ (FInv => ToldOrOwed' /\ StreakIsCovered')
  <1>1. scan \in [Scans -> Scan] /\ scan[s] \in Scan /\ scan[s].pc = "writing" /\ scan[s].todo = {}
    BY DEF SInv, IInv, TypeOK, OnResult
  <1>2. \A t \in Scans \ {s} : scan'[t] = scan[t] /\ scan[t].pc = "idle" /\ scan[t].todo = {}
    BY <1>1, Alone DEF OnResult
  <1>3. scan'[s] = IdleScan /\ IdleScan.todo = {} /\ IdleScan.pc = "idle"
    BY <1>1 DEF OnResult, IdleScan
  <1>4. \A f \in Fingerprints : IdleScan.res[f].kind = "nothing"
    BY DEF IdleScan, NoEvent
  <1>5. \A t \in Scans, f \in Fingerprints : scan'[t].res[f].kind = "nothing"
    BY <1>1, <1>2, <1>3, <1>4, Alone
  <1>6. /\ rows' = rows /\ edit' = edit /\ misses' = misses
        /\ told' = [f \in Fingerprints |->
                      IF scan[s].res[f].kind = "nothing" THEN told[f] ELSE scan[s].res[f]]
    BY DEF OnResult
  <1>7. Current'
    <2>1. EventsWhileWriting' /\ SnapshotIsCurrent' /\ EventsAreStored' /\ EditIsCurrent'
      BY <1>2, <1>3, <1>5, <1>6 DEF SInv, EventsWhileWriting, SnapshotIsCurrent, EventsAreStored,
             EditIsCurrent
    <2>2. ToldHasRow'
      <3>1. \A f \in Fingerprints : scan[s].res[f] \in Event
        BY <1>1 DEF Scan
      <3>2. \A f \in Fingerprints : scan[s].res[f].kind # "nothing" =>
              rows[f].status # "none" /\ scan[s].res[f].id = rows[f].id
        BY <3>1 DEF SInv, EventsAreStored, Event
      <3>. QED
        BY <1>6, <3>2 DEF SInv, ToldHasRow
    <2>. QED
      BY <2>1, <2>2 DEF Current
  <1>8. LedgerStep
    <2>1. ASSUME NEW f \in Fingerprints
          PROVE  Owed(f) = scan[s].res[f].kind /\ Owed(f)' = "nothing" /\ StateOf(f)' = StateOf(f)
      <3>1. scan[s].res[f].kind \in {"nothing", "opened", "resolved"}
        BY <1>1 DEF Scan, Event
      <3>2. \A t \in Scans \ {s} : scan[t].res[f].kind = "nothing"
        BY <1>1, Alone
      <3>3. Owed(f) = scan[s].res[f].kind
        BY <3>1, <3>2 DEF Owed
      <3>4. Owed(f)' = "nothing"
        BY <1>5 DEF Owed
      <3>. QED
        BY <1>6, <3>3, <3>4 DEF StateOf
    <2>2. CASE \E f \in Fingerprints : Owed(f) # "nothing"
      <3>1. Ledger!Announce
        BY <1>6, <2>1, <2>2 DEF Ledger!Announce
      <3>. QED
        BY <3>1 DEF LedgerStep, Ledger!Next
    <2>3. CASE \A f \in Fingerprints : Owed(f) = "nothing"
      <3>1. \A f \in Fingerprints : told'[f] = told[f]
        BY <1>6, <2>1, <2>3
      <3>. QED
        BY <2>1, <2>3, <3>1 DEF LedgerStep, Ledger!vars
    <2>. QED
      BY <2>2, <2>3
  <1>9. ASSUME FInv PROVE ToldOrOwed'
    <2>. SUFFICES ASSUME NEW f \in Fingerprints
                  PROVE  /\ Live(f) /\ rows[f].resolvedAt = "nil" => told'[f].kind = "opened"
                         /\ rows[f].status = "resolved" => told'[f].kind = "resolved"
      BY <1>6 DEF ToldOrOwed, Known, Live
    <2>1. \A t \in Scans \ {s} : scan[t].res[f].kind = "nothing"
      BY <1>1, Alone
    <2>2. scan[s].res[f].kind \in {"nothing", "opened", "resolved"}
      BY <1>1 DEF Scan, Event
    <2>. QED
      BY <1>6, <1>9, <2>1, <2>2 DEF FInv, ToldOrOwed, Known, Live, SInv, EventsAreStored
  <1>10. ASSUME FInv PROVE StreakIsCovered'
    <2>1. \A t \in Scans, f \in Fingerprints : ~Pending(t, f) /\ ~Pending(t, f)'
      BY <1>1, <1>2, <1>3 DEF Pending
    <2>. QED
      BY <1>6, <1>10, <2>1 DEF FInv, StreakIsCovered
  <1>. QED
    BY <1>7, <1>8, <1>9, <1>10

\* A request reads its row: with nobody else running, it stays the stored one.
LEMMA StatusGetSerial ==
    ASSUME SInv, NEW u \in Users, NEW f \in Fingerprints, NEW next \in Statuses,
           StatusGet(u, f, next)
    PROVE  Current' /\ LedgerStep /\ (FInv => ToldOrOwed' /\ StreakIsCovered')
  <1>1. rows' = rows /\ scan' = scan /\ told' = told /\ misses' = misses
    BY DEF StatusGet
  <1>2. EditIsCurrent'
    <2>. DEFINE row == [rows[f] EXCEPT !.status = next]
    <2>1. edit \in [Users -> [Fingerprints -> Row]] /\ rows[f] \in Row
      BY DEF SInv, IInv, TypeOK
    <2>2. row.resolvedAt = rows[f].resolvedAt /\ row.streak = rows[f].streak
      BY <2>1 DEF Row
    <2>. HIDE DEF row
    <2>3. edit' = [edit EXCEPT ![u] = [edit[u] EXCEPT ![f] = row]]
      BY <2>1 DEF StatusGet, row
    <2>4. ASSUME NEW v \in Users, NEW g \in Fingerprints
          PROVE  edit'[v][g] = IF v = u /\ g = f THEN row ELSE edit[v][g]
      BY <2>1, <2>3
    <2>. QED
      BY <1>1, <2>2, <2>4 DEF SInv, EditIsCurrent
  <1>3. Current'
    BY <1>1, <1>2 DEF SInv, Current, EventsWhileWriting, SnapshotIsCurrent, EventsAreStored, ToldHasRow
  <1>4. LedgerStep
    BY <1>1, Unheard DEF StateOf
  <1>5. FInv => ToldOrOwed' /\ StreakIsCovered'
    BY <1>1 DEF FInv, ToldOrOwed, Known, Live, StreakIsCovered, Pending
  <1>. QED
    BY <1>3, <1>4, <1>5

\* A request writes its row: the status is the user's, the rest as stored.
LEMMA StatusUpsertSerial ==
    ASSUME SInv, NEW u \in Users, NEW f \in Fingerprints, StatusUpsert(u, f), TableKept
    PROVE  Current' /\ LedgerStep /\ (FInv => ToldOrOwed' /\ StreakIsCovered')
  <1>. DEFINE row == edit[u][f]
  <1>1. /\ edit \in [Users -> [Fingerprints -> Row]] /\ rows \in [Fingerprints -> Row]
        /\ row # NoRow /\ row \in Row /\ rows[f] \in Row
        /\ row.status \in UserStatuses /\ rows[f].status # "none"
        /\ row.resolvedAt = rows[f].resolvedAt /\ row.streak = rows[f].streak
    BY DEF SInv, IInv, TypeOK, CopiesHaveRows, EditIsCurrent, StatusUpsert
  <1>2. /\ \A s \in Scans : /\ scan[s].pc = "idle" /\ scan[s].todo = {}
                            /\ \A g \in Fingerprints : scan[s].res[g].kind = "nothing"
        /\ \A v \in Users, g \in Fingerprints : edit[v][g] # NoRow => v = u /\ g = f
    BY <1>1, AloneInEdit
  <1>3. scan' = scan /\ told' = told /\ misses' = misses
    BY DEF StatusUpsert
  <1>. HIDE DEF row
  <1>4. /\ rows'[f] = Upsert(rows[f], row)
        /\ \A g \in Fingerprints \ {f} : rows'[g] = rows[g]
    BY <1>1 DEF StatusUpsert, Write, row
  <1>5. /\ rows'[f].status = row.status
        /\ rows'[f].resolvedAt = rows[f].resolvedAt /\ rows'[f].streak = rows[f].streak
    BY <1>1, <1>4, UpsertComputed
  <1>6. \A v \in Users, g \in Fingerprints : edit'[v][g] = NoRow
    <2>1. edit' = [edit EXCEPT ![u] = [edit[u] EXCEPT ![f] = NoRow]]
      BY <1>1 DEF StatusUpsert
    <2>. QED
      BY <1>1, <1>2, <2>1
  <1>7. Current'
    <2>1. EventsWhileWriting' /\ SnapshotIsCurrent' /\ EventsAreStored' /\ EditIsCurrent'
      BY <1>2, <1>3, <1>6 DEF EventsWhileWriting, SnapshotIsCurrent, EventsAreStored, EditIsCurrent
    <2>2. ToldHasRow'
      BY <1>3 DEF SInv, ToldHasRow, TableKept
    <2>. QED
      BY <2>1, <2>2 DEF Current
  <1>8. LedgerStep
    <2>1. /\ \A g \in Fingerprints : Owed(g) = "nothing" /\ Owed(g)' = "nothing"
          /\ \A g \in Fingerprints \ {f} : StateOf(g)' = StateOf(g)
      BY <1>2, <1>3, <1>4 DEF Owed, StateOf
    <2>2. StateOf(f)' = "live"
      BY <1>1, <1>5 DEF StateOf, UserStatuses
    <2>3. CASE StateOf(f) = "live"
      BY <1>3, <2>1, <2>2, <2>3 DEF LedgerStep, Ledger!vars
    <2>4. CASE StateOf(f) = "resolved"
      <3>1. Ledger!Revive(f)
        BY <1>3, <2>1, <2>2, <2>4 DEF Ledger!Revive
      <3>. QED
        BY <3>1 DEF LedgerStep, Ledger!Next
    <2>. QED
      BY <1>1, <2>3, <2>4 DEF StateOf
  <1>9. ASSUME FInv PROVE ToldOrOwed' /\ StreakIsCovered'
    <2>1. rows[f].resolvedAt = "nil" => Live(f)
      BY <1>1 DEF SInv, IInv, ResolvedIsSettled, Live, Row, Statuses
    <2>2. ToldOrOwed'
      BY <1>1, <1>3, <1>4, <1>5, <1>9, <2>1 DEF FInv, ToldOrOwed, Known, Live, UserStatuses
    <2>3. \A g \in Fingerprints : rows'[g].streak = rows[g].streak
      BY <1>4, <1>5
    <2>4. StreakIsCovered'
      BY <1>2, <1>3, <1>9, <2>3 DEF FInv, StreakIsCovered, Pending
    <2>. QED
      BY <2>2, <2>4
  <1>. QED
    BY <1>7, <1>8, <1>9

\* A fault drops what a goroutine holds and touches nothing else.
LEMMA FaultSerial ==
    ASSUME SInv,
           \/ \E s \in Scans : StoreError(s)
           \/ Crash
           \/ \E u \in Users, f \in Fingerprints : StatusError(u, f)
    PROVE  Current' /\ MaxFaults # 0
  <1>1. rows' = rows /\ told' = told
    BY DEF StoreError, Crash, StatusError
  <1>2. scan \in [Scans -> Scan] /\ edit \in [Users -> [Fingerprints -> Row]]
    BY DEF SInv, IInv, TypeOK
  <1>3. \A s \in Scans : scan'[s] = scan[s] \/ scan'[s] = IdleScan
    BY <1>2 DEF StoreError, Crash, StatusError
  <1>4. \A u \in Users, f \in Fingerprints : edit'[u][f] = edit[u][f] \/ edit'[u][f] = NoRow
    <2>1. ASSUME NEW u \in Users, NEW f \in Fingerprints, StatusError(u, f)
          PROVE  edit' = [edit EXCEPT ![u] = [edit[u] EXCEPT ![f] = NoRow]]
      BY <1>2, <2>1 DEF StatusError
    <2>. QED
      BY <1>2, <2>1, IdleComputed DEF StoreError, Crash
  <1>5. \A f \in Fingerprints : IdleScan.res[f].kind = "nothing"
    BY DEF IdleScan, NoEvent
  <1>6. IdleScan.todo = {}
    BY DEF IdleScan
  <1>7. EventsWhileWriting' /\ EventsAreStored'
    BY <1>1, <1>3, <1>5 DEF SInv, EventsWhileWriting, EventsAreStored
  <1>8. SnapshotIsCurrent'
    BY <1>1, <1>3, <1>6 DEF SInv, SnapshotIsCurrent
  <1>9. EditIsCurrent' /\ ToldHasRow'
    BY <1>1, <1>4 DEF SInv, EditIsCurrent, ToldHasRow
  <1>10. MaxFaults # 0
    BY ConstantsAssumption DEF StoreError, Crash, StatusError, SInv, IInv, TypeOK
  <1>. QED
    BY <1>7, <1>8, <1>9, <1>10 DEF Current

----------------------------------------------------------------------------
\* Nothing is held or told at the start.
LEMMA SerialInit == Init => FInv
  <1>. SUFFICES ASSUME Init PROVE FInv
    OBVIOUS
  <1>1. \A s \in Scans : /\ scan[s].pc = "idle" /\ scan[s].todo = {}
                         /\ \A f \in Fingerprints : scan[s].res[f].kind = "nothing"
    BY DEF Init, IdleScan, NoEvent
  <1>2. \A u \in Users, f \in Fingerprints : edit[u][f] = NoRow
    BY DEF Init, IdleEdit
  <1>3. \A f \in Fingerprints :
          rows[f].status = "none" /\ rows[f].streak = 0 /\ told[f].kind = "nothing" /\ misses[f] = 0
    BY DEF Init, NoRow, NoEvent
  <1>4. OneAtATime
    BY <1>1, <1>2 DEF OneAtATime
  <1>5. Current
    BY <1>1, <1>2, <1>3 DEF Current, EventsWhileWriting, SnapshotIsCurrent, EventsAreStored,
           EditIsCurrent, ToldHasRow
  <1>6. ToldOrOwed /\ StreakIsCovered
    BY <1>1, <1>3 DEF ToldOrOwed, Live, StreakIsCovered, Pending, Covers
  <1>. QED
    BY <1>4, <1>5, <1>6, InitHolds DEF FInv, SInv, Current

\* A step of the serial engine keeps the invariants and is a step of the ledger,
\* unless it is a fault.
LEMMA SerialStep ==
    ASSUME SInv, [SerialNext]_vars
    PROVE  /\ SInv'
           /\ MaxFaults = 0 => LedgerStep
           /\ MaxFaults = 0 /\ FInv => FInv'
  <1>. DEFINE Facts == FInv => ToldOrOwed' /\ StreakIsCovered'
              Goal == Current' /\ (MaxFaults = 0 => LedgerStep /\ Facts)
  <1>1. IInv' /\ TableKept
    BY StepKeeps DEF SInv, SerialNext
  <1>2. OneAtATime'
    BY DEF SerialNext, SInv, OneAtATime, vars
  <1>. SUFFICES Goal
    BY <1>1, <1>2 DEF SInv, FInv, Current
  <1>3. CASE ReportsChange
    BY <1>3, ReportsChangeSerial
  <1>4. ASSUME NEW s \in Scans, ScanStep(s) PROVE Goal
    <2>1. CASE Collect(s)
      BY <1>2, <2>1, CollectSerial
    <2>2. CASE ListByTarget(s)
      BY <2>2, ListByTargetSerial
    <2>3. ASSUME NEW f \in Fingerprints, UpsertFresh(s, f) \/ UpsertAbsent(s, f) PROVE Goal
      <3>1. Wrote(s, f)
        BY <2>3, UpsertFreshWrote, UpsertAbsentWrote
      <3>. QED
        BY <1>1, <3>1, WroteKeepsCurrent, WroteIsLedgerStep, WroteKeepsFacts
    <2>4. CASE OnResult(s)
      BY <2>4, OnResultSerial
    <2>. QED
      BY <1>4, <2>1, <2>2, <2>3, <2>4 DEF ScanStep
  <1>5. ASSUME NEW u \in Users, NEW f \in Fingerprints, NEW next \in Statuses, StatusGet(u, f, next)
        PROVE  Goal
    BY <1>5, StatusGetSerial
  <1>6. ASSUME NEW u \in Users, NEW f \in Fingerprints, StatusUpsert(u, f)
        PROVE  Goal
    BY <1>1, <1>6, StatusUpsertSerial
  <1>7. CASE \/ \E s \in Scans : StoreError(s)
             \/ Crash
             \/ \E u \in Users, f \in Fingerprints : StatusError(u, f)
    BY <1>7, FaultSerial
  <1>8. CASE UNCHANGED vars
    <2>1. Current'
      BY <1>8 DEF vars, SInv, Current, EventsWhileWriting, SnapshotIsCurrent, EventsAreStored,
             EditIsCurrent, ToldHasRow
    <2>2. LedgerStep
      BY <1>8, Unheard DEF vars, StateOf
    <2>3. Facts
      BY <1>8 DEF vars, FInv, ToldOrOwed, Known, Live, StreakIsCovered, Pending
    <2>. QED
      BY <2>1, <2>2, <2>3
  <1>. QED
    BY <1>3, <1>4, <1>5, <1>6, <1>7, <1>8 DEF SerialNext, Next

\* The invariant of the serial engine, with any number of faults.
LEMMA SerialInvariance == SerialSpec => []SInv
  <1>1. Init => SInv
    BY SerialInit DEF FInv
  <1>2. SInv /\ [SerialNext]_vars => SInv'
    BY SerialStep
  <1>. QED
    BY <1>1, <1>2, PTL DEF SerialSpec

\* Its invariant when no store call fails and the process does not die.
LEMMA FaultFreeInvariance == ASSUME MaxFaults = 0 PROVE SerialSpec => []FInv
  <1>1. FInv /\ [SerialNext]_vars => FInv'
    BY SerialStep DEF FInv
  <1>. QED
    BY SerialInit, <1>1, PTL DEF SerialSpec

----------------------------------------------------------------------------
\* One goroutine at a time, whatever fails: no scan holds an announcement about a
\* suppressed finding (Reconcile).
THEOREM SuppressedStaysSilent == SerialSpec => []SuppressedIsSilent
  <1>1. SInv => SuppressedIsSilent
    <2>. SUFFICES ASSUME SInv, NEW s \in Scans, NEW f \in Fingerprints, rows[f].status = "suppressed"
                  PROVE  scan[s].res[f].kind = "nothing"
      BY DEF SuppressedIsSilent
    <2>1. scan[s].res[f].kind \in {"nothing", "opened", "resolved"}
      BY DEF SInv, IInv, TypeOK, Scan, Event
    <2>. QED
      BY <2>1 DEF SInv, EventsAreStored
  <1>. QED
    BY SerialInvariance, <1>1, PTL

\* One goroutine at a time, whatever fails: the id that an event carried is the id
\* of the stored row and of no other (Reconcile, SQLiteStore.Upsert).
THEOREM ToldIdsAreStored == SerialSpec => []ToldIdIsStored
  <1>1. SInv => ToldIdIsStored
    BY DEF SInv, IInv, DistinctIds, ToldHasRow, ToldIdIsStored
  <1>. QED
    BY SerialInvariance, <1>1, PTL

\* One goroutine at a time, whatever fails: only a status request takes a finding
\* out of "suppressed" (Reconcile, handleFindingStatus).
THEOREM SuppressionIsKept == SerialSpec => SuppressionKept
  <1>. DEFINE Kept == \A f \in Fingerprints :
                rows[f].status = "suppressed" /\ rows'[f].status # "suppressed"
                   => \E u \in Users : edit[u][f] # NoRow /\ edit'[u][f] = NoRow
  <1>1. ASSUME SInv, [SerialNext]_vars PROVE [Kept]_vars
    <2>1. ASSUME NEW s \in Scans, NEW f \in Fingerprints, UpsertFresh(s, f) \/ UpsertAbsent(s, f)
          PROVE  Kept
      <3>1. Wrote(s, f)
        BY <1>1, <2>1, UpsertFreshWrote, UpsertAbsentWrote
      <3>. QED
        BY <3>1 DEF Wrote, Outcome, Resolvable
    <2>2. ASSUME NEW u \in Users, NEW f \in Fingerprints, StatusUpsert(u, f)
          PROVE  Kept
      <3>1. edit \in [Users -> [Fingerprints -> Row]] /\ rows \in [Fingerprints -> Row]
        BY <1>1 DEF SInv, IInv, TypeOK
      <3>2. edit[u][f] # NoRow /\ edit'[u][f] = NoRow
        BY <2>2, <3>1 DEF StatusUpsert
      <3>3. \A g \in Fingerprints \ {f} : rows'[g] = rows[g]
        BY <2>2, <3>1 DEF StatusUpsert, Write
      <3>. QED
        BY <3>2, <3>3
    <2>3. CASE rows' = rows
      BY <2>3
    <2>. QED
      BY <1>1, <2>1, <2>2, <2>3
      DEF SerialNext, Next, ScanStep, ReportsChange, Collect, ListByTarget, OnResult, StoreError,
          Crash, StatusGet, StatusError
  <1>2. SInv /\ [SerialNext]_vars => [Kept]_vars
    BY <1>1
  <1>. QED
    BY SerialInvariance, <1>2, PTL DEF SerialSpec, SuppressionKept

\* One goroutine at a time and no fault: when all is quiet, what OnResult was told
\* is what the table says (Reconcile, scanOne).
THEOREM ToldIsStored == ASSUME MaxFaults = 0 PROVE SerialSpec => []ToldWhatIsStored
  <1>1. FInv => ToldWhatIsStored
    BY DEF FInv, SInv, ToldOrOwed, Known, ToldWhatIsStored, Quiet, EventsWhileWriting
  <1>. QED
    BY FaultFreeInvariance, <1>1, PTL

\* One goroutine at a time and no fault: a resolved finding was missing from the
\* ResolveAfter latest scans, and no scan that saw it is forgotten (Reconcile).
THEOREM ResolvedWereMissing == ASSUME MaxFaults = 0 PROVE SerialSpec => []ResolvedWasMissing
  <1>1. FInv => ResolvedWasMissing
    <2>. SUFFICES ASSUME FInv, Quiet, NEW f \in Fingerprints, rows[f].status = "resolved"
                  PROVE  misses[f] = ResolveAfter
      BY DEF ResolvedWasMissing
    <2>1. \A s \in Scans : ~Pending(s, f)
      BY DEF Quiet, Pending, FInv, SInv, IInv, TodoIsKnown
    <2>2. Covers(misses[f], rows[f].streak)
      BY <2>1 DEF FInv, StreakIsCovered
    <2>3. /\ misses[f] \in 0 .. ResolveAfter /\ rows[f].streak \in Nat
          /\ rows[f].streak >= ResolveAfter
      BY DEF FInv, SInv, IInv, TypeOK, Row, ResolvedIsSettled
    <2>. QED
      BY <2>2, <2>3, ConstantsAssumption DEF Covers
  <1>. QED
    BY FaultFreeInvariance, <1>1, PTL

\* One goroutine at a time and no fault: the engine implements the ledger, so every
\* opening and every resolution is announced exactly once, before the next change
\* of that finding (Reconcile, scanOne).
THEOREM EngineImplementsLedger == ASSUME MaxFaults = 0 PROVE SerialSpec => ImplementsLedger
  <1>1. Init => Ledger!Init
    <2>. SUFFICES ASSUME Init PROVE Ledger!Init
      OBVIOUS
    <2>1. \A f \in Fingerprints :
            StateOf(f) = "unknown" /\ Owed(f) = "nothing" /\ told[f].kind = "nothing"
      BY DEF Init, StateOf, Owed, NoRow, NoEvent, IdleScan
    <2>. QED
      BY <2>1 DEF Ledger!Init
  <1>2. SInv /\ [SerialNext]_vars => [Ledger!Next]_(Ledger!vars)
    BY SerialStep DEF LedgerStep
  <1>. QED
    BY SerialInvariance, <1>1, <1>2, PTL DEF SerialSpec, ImplementsLedger, Ledger!Spec

=============================================================================
