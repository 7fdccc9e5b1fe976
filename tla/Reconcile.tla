----------------------------- MODULE Reconcile -----------------------------
(***************************************************************************)
(* The reconcile engine (store/reconcile.go) of one (module, target), the  *)
(* findings table it writes (store/sqlite.go), and the two kinds of        *)
(* goroutine that write that table: scans (sched/scheduler.go scanOne) and *)
(* the dashboard's status requests (web/server.go handleFindingStatus).    *)
(*                                                                         *)
(* Every store call is one SQL statement and one action.  Nothing orders   *)
(* the calls of two goroutines: the Engine has no lock, and the scheduler  *)
(* may run a sweep, an add-target scan and an after-upload scan of the     *)
(* same target at once.                                                    *)
(*                                                                         *)
(* A row keeps the fields on which the control depends.  Title, severity,  *)
(* evidence and last_seen are overwritten with the scan's on every upsert  *)
(* and are left out; first_seen is written exactly when id is.             *)
(***************************************************************************)
EXTENDS Naturals

CONSTANTS
    Fingerprints,   \* the problems a scan of the target can report
    Scans,          \* goroutines that may be scanning the target at once
    Users,          \* status requests that may be served at once
    ResolveAfter,   \* core.ModuleInfo.ResolveAfterOrDefault()
    MaxChanges,     \* bound: how often the collector's answer changes
    MaxEdits,       \* bound: status requests
    MaxFaults       \* bound: failed store calls and process crashes

ASSUME ConstantsAssumption ==
    /\ ResolveAfter \in Nat \ {0}
    /\ MaxChanges \in Nat
    /\ MaxEdits \in Nat
    /\ MaxFaults \in Nat

VARIABLES
    rows,       \* the findings table: row of each fingerprint
    nextId,     \* next id of NewULID
    world,      \* what a Collect started now would return
    scan,       \* local state of each scanning goroutine
    edit,       \* local state of each status request: the row it will write
    told,       \* observer: last event handed to OnResult, per fingerprint
    misses,     \* observer: latest consecutive Collects without the finding
    changes, edits, faults

vars == <<rows, nextId, world, scan, edit, told, misses, changes, edits, faults>>

----------------------------------------------------------------------------
Statuses == {"open", "acknowledged", "suppressed", "resolved"}

\* store.Record; status "none" stands for the absence of a row.
Row == [id : Nat, status : Statuses \cup {"none"}, resolvedAt : {"nil", "set"}, streak : Nat]

NoRow == [id |-> 0, status |-> "none", resolvedAt |-> "nil", streak |-> 0]

\* One entry of ReconcileResult.NewlyOpen or .Resolved, as OnResult hands it on.
Event == [kind : {"nothing", "opened", "resolved"}, id : Nat]

NoEvent == [kind |-> "nothing", id |-> 0]

\* Locals of scanOne and Reconcile: the collected findings, byFP, the
\* fingerprints still to be written, and the result so far.
Scan == [pc    : {"idle", "collected", "writing"},
         fresh : SUBSET Fingerprints,
         byFP  : [Fingerprints -> Row],
         todo  : SUBSET Fingerprints,
         res   : [Fingerprints -> Event]]

IdleScan == [pc    |-> "idle",
             fresh |-> {},
             byFP  |-> [f \in Fingerprints |-> NoRow],
             todo  |-> {},
             res   |-> [f \in Fingerprints |-> NoEvent]]

\* NoRow marks a request that is not in flight.
IdleEdit == [f \in Fingerprints |-> NoRow]

----------------------------------------------------------------------------
\* Faulty forms of the definitions below, each a slip the code could have made.
ResolvableAndSuppressed == {"open", "acknowledged", "suppressed"}
UserStatusesUnchecked == Statuses
UpsertReplacing(old, new) == new
MergedRowKeepsStreak(prev) ==
    IF prev.status = "resolved" THEN [prev EXCEPT !.status = "open", !.resolvedAt = "nil"] ELSE prev
MergedRowDecays(prev) == [prev EXCEPT !.status = "open", !.streak = @ - 1]
MergedRowNeverReopens(prev) == [prev EXCEPT !.streak = 0]
FreshEventForKnown(prev, id) ==
    [kind |-> "opened", id |-> IF prev.status = "none" THEN id ELSE prev.id]
FreshEventNewOnly(prev, id) ==
    IF prev.status = "none" THEN [kind |-> "opened", id |-> id] ELSE NoEvent
FreshEventNewId(prev, id) ==
    IF prev.status \in {"none", "resolved"} THEN [kind |-> "opened", id |-> id] ELSE NoEvent
AbsentEventAtOnce(prev) == [kind |-> "resolved", id |-> prev.id]

----------------------------------------------------------------------------
\* Statuses the auto-resolve loop does not skip.
Resolvable == {"open", "acknowledged"}

\* Statuses a request may ask for.
UserStatuses == {"open", "acknowledged", "suppressed"}

\* INSERT ... ON CONFLICT(module, fingerprint) DO UPDATE: a conflict replaces
\* everything but id and first_seen.
Upsert(old, new) == IF old.status = "none" THEN new ELSE [new EXCEPT !.id = old.id]

Write(f, row) == rows' = [rows EXCEPT ![f] = Upsert(rows[f], row)]

\* The brand-new record of a fingerprint that byFP does not hold.
NewRow(id) == [id |-> id, status |-> "open", resolvedAt |-> "nil", streak |-> 0]

\* The merge of a fingerprint that byFP holds.
MergedRow(prev) ==
    IF prev.status = "resolved"
    THEN [prev EXCEPT !.status = "open", !.resolvedAt = "nil", !.streak = 0]
    ELSE [prev EXCEPT !.streak = 0]

\* The auto-resolve step of a record that this scan did not see.
AbsentRow(prev) ==
    IF prev.streak + 1 >= ResolveAfter
    THEN [prev EXCEPT !.status = "resolved", !.resolvedAt = "set", !.streak = @ + 1]
    ELSE [prev EXCEPT !.streak = @ + 1]

\* What a reported finding adds to NewlyOpen, if anything.
FreshEvent(prev, id) ==
    CASE prev.status = "none" -> [kind |-> "opened", id |-> id]
      [] prev.status = "resolved" -> [kind |-> "opened", id |-> prev.id]
      [] OTHER -> NoEvent

\* What a missing finding adds to Resolved, if anything.
AbsentEvent(prev) ==
    IF AbsentRow(prev).status = "resolved" THEN [kind |-> "resolved", id |-> prev.id] ELSE NoEvent

----------------------------------------------------------------------------
Init ==
    /\ rows = [f \in Fingerprints |-> NoRow]
    /\ nextId = 1
    /\ world = {}
    /\ scan = [s \in Scans |-> IdleScan]
    /\ edit = [u \in Users |-> IdleEdit]
    /\ told = [f \in Fingerprints |-> NoEvent]
    /\ misses = [f \in Fingerprints |-> 0]
    /\ changes = 0
    /\ edits = 0
    /\ faults = 0

\* Uploaded reports, pruning or the passing of time change what Collect finds.
ReportsChange ==
    /\ changes < MaxChanges
    /\ world' \in SUBSET Fingerprints \ {world}
    /\ changes' = changes + 1
    /\ UNCHANGED <<rows, nextId, scan, edit, told, misses, edits, faults>>

\* scanOne: Collect returns; its answer is used only later.
Collect(s) ==
    /\ scan[s].pc = "idle"
    /\ scan' = [scan EXCEPT ![s].pc = "collected", ![s].fresh = world]
    /\ misses' = [f \in Fingerprints |->
                    IF f \in world THEN 0
                    ELSE IF misses[f] < ResolveAfter THEN misses[f] + 1 ELSE misses[f]]
    /\ UNCHANGED <<rows, nextId, world, edit, told, changes, edits, faults>>

\* Reconcile: the snapshot every later decision of this scan is based on.
ListByTarget(s) ==
    /\ scan[s].pc = "collected"
    /\ scan' = [scan EXCEPT ![s].pc = "writing",
                            ![s].byFP = rows,
                            ![s].todo = scan[s].fresh
                                \cup {f \in Fingerprints : rows[f].status \in Resolvable}]
    /\ UNCHANGED <<rows, nextId, world, edit, told, misses, changes, edits, faults>>

\* Reconcile, first loop: one finding the collector reported.
UpsertFresh(s, f) ==
    LET prev == scan[s].byFP[f] IN
    /\ scan[s].pc = "writing"
    /\ f \in scan[s].todo \cap scan[s].fresh
    /\ \/ /\ prev.status = "none"
          /\ Write(f, NewRow(nextId))
          /\ nextId' = nextId + 1
       \/ /\ prev.status # "none"
          /\ Write(f, MergedRow(prev))
          /\ UNCHANGED nextId
    /\ scan' = [scan EXCEPT ![s].todo = @ \ {f}, ![s].res[f] = FreshEvent(prev, nextId)]
    /\ UNCHANGED <<world, edit, told, misses, changes, edits, faults>>

\* Reconcile, second loop, once the first is done: one known finding the
\* collector did not report.
UpsertAbsent(s, f) ==
    LET prev == scan[s].byFP[f] IN
    /\ scan[s].pc = "writing"
    /\ scan[s].todo \cap scan[s].fresh = {}
    /\ f \in scan[s].todo
    /\ Write(f, AbsentRow(prev))
    /\ scan' = [scan EXCEPT ![s].todo = @ \ {f}, ![s].res[f] = AbsentEvent(prev)]
    /\ UNCHANGED <<nextId, world, edit, told, misses, changes, edits, faults>>

\* Reconcile returned without error: scanOne calls OnResult, which hands every
\* entry of the result to the dispatcher.
OnResult(s) ==
    /\ scan[s].pc = "writing"
    /\ scan[s].todo = {}
    /\ told' = [f \in Fingerprints |->
                  IF scan[s].res[f].kind = "nothing" THEN told[f] ELSE scan[s].res[f]]
    /\ scan' = [scan EXCEPT ![s] = IdleScan]
    /\ UNCHANGED <<rows, nextId, world, edit, misses, changes, edits, faults>>

\* A store call of the scan fails (ListByTarget, newID or Upsert): Reconcile
\* returns the error and scanOne returns before OnResult.
StoreError(s) ==
    /\ faults < MaxFaults
    /\ \/ scan[s].pc = "collected"
       \/ scan[s].pc = "writing" /\ scan[s].todo # {}
    /\ scan' = [scan EXCEPT ![s] = IdleScan]
    /\ faults' = faults + 1
    /\ UNCHANGED <<rows, nextId, world, edit, told, misses, changes, edits>>

\* The process dies and is restarted; only the table survives.
Crash ==
    /\ faults < MaxFaults
    /\ faults' = faults + 1
    /\ scan' = [s \in Scans |-> IdleScan]
    /\ edit' = [u \in Users |-> IdleEdit]
    /\ UNCHANGED <<rows, nextId, world, told, misses, changes, edits>>

----------------------------------------------------------------------------
\* handleFindingStatus up to Get; a fingerprint without a row is answered 404.
StatusGet(u, f, next) ==
    /\ edits < MaxEdits
    /\ edit[u][f] = NoRow
    /\ rows[f].status # "none"
    /\ next \in UserStatuses
    /\ edit' = [edit EXCEPT ![u][f] = [rows[f] EXCEPT !.status = next]]
    /\ edits' = edits + 1
    /\ UNCHANGED <<rows, nextId, world, scan, told, misses, changes, faults>>

\* handleFindingStatus from Upsert on: the whole row is written back.
StatusUpsert(u, f) ==
    /\ edit[u][f] # NoRow
    /\ Write(f, edit[u][f])
    /\ edit' = [edit EXCEPT ![u][f] = NoRow]
    /\ UNCHANGED <<nextId, world, scan, told, misses, changes, edits, faults>>

\* handleFindingStatus: Upsert fails and the request is answered 500.
StatusError(u, f) ==
    /\ faults < MaxFaults
    /\ edit[u][f] # NoRow
    /\ edit' = [edit EXCEPT ![u][f] = NoRow]
    /\ faults' = faults + 1
    /\ UNCHANGED <<rows, nextId, world, scan, told, misses, changes, edits>>

----------------------------------------------------------------------------
ScanStep(s) ==
    \/ Collect(s)
    \/ ListByTarget(s)
    \/ \E f \in Fingerprints : UpsertFresh(s, f) \/ UpsertAbsent(s, f)
    \/ OnResult(s)

Next ==
    \/ ReportsChange
    \/ \E s \in Scans : ScanStep(s) \/ StoreError(s)
    \/ Crash
    \/ \E u \in Users, f \in Fingerprints :
         \/ \E next \in Statuses : StatusGet(u, f, next)
         \/ StatusUpsert(u, f)
         \/ StatusError(u, f)

Spec == Init /\ [][Next]_vars

\* moduleLoop sweeps for ever and no step of a scan waits for another
\* goroutine; net/http runs a request it has started to its end.
Fairness ==
    /\ \A s \in Scans : WF_vars(ScanStep(s))
    /\ \A u \in Users, f \in Fingerprints : WF_vars(StatusUpsert(u, f))

FairSpec == Spec /\ Fairness

----------------------------------------------------------------------------
Quiet ==
    /\ \A s \in Scans : scan[s].pc = "idle"
    /\ \A u \in Users, f \in Fingerprints : edit[u][f] = NoRow

Live(f) == rows[f].status \in {"open", "acknowledged", "suppressed"}

\* The shape of the table and of every goroutine's locals.
TypeOK ==
    /\ rows \in [Fingerprints -> Row]
    /\ nextId \in Nat \ {0}
    /\ world \in SUBSET Fingerprints
    /\ scan \in [Scans -> Scan]
    /\ edit \in [Users -> [Fingerprints -> Row]]
    /\ told \in [Fingerprints -> Event]
    /\ misses \in [Fingerprints -> 0 .. ResolveAfter]
    /\ changes \in 0 .. MaxChanges
    /\ edits \in 0 .. MaxEdits
    /\ faults \in 0 .. MaxFaults

\* However scans and status requests overlap, a row that reads "resolved"
\* carries its resolution stamp and a streak at the threshold: no write back of
\* a stale copy can leave a resolution without the absences it rests on
\* (reconcile.go 98-104; handleFindings hides a resolved row without a stamp).
ResolvedIsSettled ==
    \A f \in Fingerprints :
        rows[f].status = "resolved" => rows[f].resolvedAt = "set" /\ rows[f].streak >= ResolveAfter

\* Two findings never share an id, although every scan mints its own and a
\* losing insert is turned into an update of the winner's row
\* (sqlite.go Upsert, ON CONFLICT leaves id alone).
DistinctIds ==
    \A f, g \in Fingerprints :
        rows[f].status # "none" /\ rows[g].status # "none" /\ rows[f].id = rows[g].id => f = g

\* A row, once inserted, is there for good under the same id, whichever of two
\* overlapping scans or a stale status request writes it next.
KeepsIdentity ==
    [][\A f \in Fingerprints : rows[f].status # "none" =>
           rows'[f].status # "none" /\ rows'[f].id = rows[f].id]_vars

\* Once the reports, the users and the faults have settled, every scan and every
\* overlap notwithstanding, the table comes to agree with what the collector
\* reports and stays so: what is reported is not resolved, what is not reported
\* is resolved unless it is suppressed.
Agrees ==
    \A f \in Fingerprints :
        IF f \in world THEN Live(f) ELSE rows[f].status \in {"none", "resolved", "suppressed"}

EventuallyAgrees == <>[]Agrees

----------------------------------------------------------------------------
\* What the events handed to OnResult say is what the table says: an open row
\* was announced as opened under its id, a resolved one as resolved.  Rows the
\* user took out of "resolved" keep their stamp and are the user's own news.
ToldWhatIsStored ==
    Quiet => \A f \in Fingerprints :
        /\ Live(f) /\ rows[f].resolvedAt = "nil" => told[f].kind = "opened"
        /\ rows[f].status = "resolved" => told[f].kind = "resolved"

\* A finding that is stored as open is announced at some time: at the latest
\* when it is resolved (README.md, "Every finding DmarcWatch opens or resolves").
EveryOpenIsTold ==
    \A f \in Fingerprints :
        Live(f) ~> (told[f].kind = "opened" \/ rows[f].status = "resolved")

\* The id an event carried is the id of the finding's stored row and of no other row,
\* so that a receiver can correlate the event with the finding (notify/hfs.go).
ToldIdIsStored ==
    \A f \in Fingerprints : told[f].kind # "nothing" =>
        {g \in Fingerprints : rows[g].status # "none" /\ rows[g].id = told[f].id} = {f}

\* A resolved row was missing from the ResolveAfter latest scans: the streak
\* counts consecutive scans and is reset when the finding reappears.
ResolvedWasMissing ==
    Quiet => \A f \in Fingerprints :
        rows[f].status = "resolved" => misses[f] = ResolveAfter

\* A suppressed row changes status only by a status request; no scan takes the
\* user's decision back.
SuppressionKept ==
    [][\A f \in Fingerprints :
         rows[f].status = "suppressed" /\ rows'[f].status # "suppressed"
            => \E u \in Users : edit[u][f] # NoRow /\ edit'[u][f] = NoRow]_vars

\* No scan holds an announcement about a finding that is suppressed
\* (USER-GUIDE.md, "Suppressed findings never notify").
SuppressedIsSilent ==
    \A s \in Scans, f \in Fingerprints :
        rows[f].status = "suppressed" => scan[s].res[f].kind = "nothing"

=============================================================================
