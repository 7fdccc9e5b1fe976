--------------------------- MODULE ReportsProofs ---------------------------
(***************************************************************************)
(* Stored reports are counted once and are read by a rescan, and what a    *)
(* collect reads beside uploads is what is stored, for any set of reports  *)
(* and any number of uploads, collects and faults.                         *)
(***************************************************************************)
EXTENDS Reports, Induction

\* A collect's now is not in the future, so it never prunes what is retained today.
Timely == \A s \in Scans : scan[s].now <= clock

\* Where a collect stands in its statements.
ScanShape ==
    \A s \in Scans :
        /\ scan[s].pc = "idle" => scan[s].known = {}
        /\ scan[s].pc \in {"pruneRows", "pruneReports"} => scan[s].n = 1
        /\ scan[s].pc = "overview" => scan[s].n \in 1 .. Statements

\* Uploads store reports of targets only, and between requests there are none.
UploadShape ==
    \A u \in Uploads :
        /\ upload[u].pc = "idle" => upload[u].stored = {}
        /\ \A r \in upload[u].stored : Content[r].domain \in Registered

OwedIsStored == owed \subseteq tables.reports

\* The inductive invariants: of the tables, and of the rescan.
TablesInv == TypeOK /\ Timely /\ ScanShape /\ CountedOnce
RescanInv == UploadShape /\ OwedIsStored /\ RescanFollows

----------------------------------------------------------------------------
\* The end of a report is a day.
LEMMA ContentEnds == \A r \in Reports : Content[r].end \in Nat
BY CollectorAssumption DEF IsContent

\* The statement count in numbers.
LEMMA SixStatements == Statements = 6
BY DEF Statements

\* The state of a collect that is not running.
LEMMA IdleScanType ==
    /\ IdleScan \in Scan
    /\ IdleScan.pc = "idle" /\ IdleScan.known = {} /\ IdleScan.n = 1 /\ IdleScan.now = 0
  <1>1. (CHOOSE d \in Registered : TRUE) \in Registered
    BY ReportsAssumption
  <1>. QED
    BY <1>1, SixStatements DEF IdleScan, Scan

\* What PutReport leaves in the tables.
LEMMA PutReportTables ==
    ASSUME TypeOK, NEW r \in Reports
    PROVE  /\ PutReport(r) \in Tables
           /\ Duplicate(r) => PutReport(r) = tables
           /\ ~Duplicate(r) =>
                /\ PutReport(r).reports = tables.reports \cup {r}
                /\ \A q \in Reports : PutReport(r).rows[q] = IF q = r THEN tables.rows[r] + 1 ELSE tables.rows[q]
  <1>1. tables = [reports |-> tables.reports, rows |-> tables.rows] /\ tables.reports \in SUBSET Reports
          /\ tables.rows \in [Reports -> Nat]
    BY DEF TypeOK, Tables
  <1>2. CASE Duplicate(r)
    BY <1>2 DEF PutReport, TypeOK
  <1>3. CASE ~Duplicate(r)
    <2>1. PutReport(r) = [reports |-> tables.reports \cup {r}, rows |-> [tables.rows EXCEPT ![r] = @ + 1]]
      BY <1>1, <1>3 DEF PutReport
    <2>. QED
      BY <1>1, <1>3, <2>1 DEF Tables
  <1>. QED
    BY <1>2, <1>3

\* What the statements of Prune leave in the tables.
LEMMA PruneTables ==
    ASSUME TypeOK, NEW cut \in Int
    PROVE  /\ PruneRows(cut) \in Tables
           /\ PruneRows(cut).reports = tables.reports
           /\ \A r \in Reports : Content[r].end >= cut => PruneRows(cut).rows[r] = tables.rows[r]
           /\ PruneReports(cut) \in Tables
           /\ PruneReports(cut).rows = tables.rows
           /\ PruneReports(cut).reports = {r \in tables.reports : Content[r].end >= cut}
  <1>1. tables = [reports |-> tables.reports, rows |-> tables.rows] /\ tables.reports \in SUBSET Reports
          /\ tables.rows \in [Reports -> Nat]
    BY DEF TypeOK, Tables
  <1>2. PruneRows(cut) =
          [reports |-> tables.reports,
           rows |-> [r \in Reports |-> IF Content[r].end < cut THEN 0 ELSE tables.rows[r]]]
    BY <1>1 DEF PruneRows
  <1>3. PruneReports(cut) =
          [reports |-> {r \in tables.reports : Content[r].end >= cut}, rows |-> tables.rows]
    <2>. DEFINE kept == {r \in tables.reports : Content[r].end >= cut}
    <2>1. ASSUME NEW S
          PROVE  [tables EXCEPT !.reports = S] = [reports |-> S, rows |-> tables.rows]
      BY <1>1
    <2>2. PruneReports(cut) = [tables EXCEPT !.reports = kept]
      BY Zenon DEF PruneReports
    <2>. HIDE DEF kept
    <2>3. PruneReports(cut) = [reports |-> kept, rows |-> tables.rows]
      BY <2>1, <2>2
    <2>. QED
      BY <2>3, Zenon DEF kept
  <1>4. PruneRows(cut) \in Tables /\ PruneRows(cut).reports = tables.reports
    BY <1>1, <1>2 DEF Tables
  <1>5. ASSUME NEW r \in Reports, Content[r].end >= cut
        PROVE  PruneRows(cut).rows[r] = tables.rows[r]
    <2>1. ~(Content[r].end < cut)
      BY <1>5, ContentEnds
    <2>. QED
      BY <1>2, <2>1
  <1>6. PruneReports(cut) \in Tables
    BY <1>1, <1>3 DEF Tables
  <1>7. /\ PruneReports(cut).rows = tables.rows
        /\ PruneReports(cut).reports = {r \in tables.reports : Content[r].end >= cut}
    BY <1>3
  <1>. QED
    BY <1>4, <1>5, <1>6, <1>7

----------------------------------------------------------------------------
\* Replacing the state of one collect.
LEMMA PutScanType ==
    ASSUME TypeOK, NEW s \in Scans, NEW rec \in Scan, NEW view, PutScan(s, rec, view)
    PROVE  /\ scan' \in [Scans -> Scan]
           /\ DOMAIN ov' = Scans
           /\ scan'[s] = rec
           /\ \A q \in Scans \ {s} : scan'[q] = scan[q]
BY DEF TypeOK, PutScan

\* Replacing the state of one upload.
LEMMA PutType ==
    ASSUME TypeOK, NEW u \in Uploads, NEW rec \in Upload, Put(u, rec)
    PROVE  /\ upload' \in [Uploads -> Upload]
           /\ upload'[u] = rec
           /\ \A q \in Uploads \ {u} : upload'[q] = upload[q]
BY DEF TypeOK, Put

\* The first member of an upload and the rest.
LEMMA HeadAndTail ==
    ASSUME TypeOK, NEW u \in Uploads, upload[u].todo # <<>>
    PROVE  /\ Head(upload[u].todo) \in Reports \cup {NotAReport}
           /\ Tail(upload[u].todo) \in Seq(Reports \cup {NotAReport})
BY DEF TypeOK, Upload

\* The tables keep their invariant when a collect changes only its own state.
LEMMA ScanOnly ==
    ASSUME TablesInv, NEW s \in Scans, NEW rec \in Scan, NEW view, PutScan(s, rec, view),
           rec.now <= clock,
           rec.pc = "idle" => rec.known = {},
           rec.pc \in {"pruneRows", "pruneReports"} => rec.n = 1,
           rec.pc = "overview" => rec.n \in 1 .. Statements,
           UNCHANGED <<clock, tables, upload>>,
           rescan' \in SUBSET Registered, owed' \in SUBSET Reports, faults' \in 0 .. MaxFaults
    PROVE  TablesInv'
  <1>1. /\ scan' \in [Scans -> Scan] /\ DOMAIN ov' = Scans /\ scan'[s] = rec
        /\ \A q \in Scans \ {s} : scan'[q] = scan[q]
    BY PutScanType DEF TablesInv
  <1>2. TypeOK'
    BY <1>1 DEF TablesInv, TypeOK
  <1>3. Timely' /\ ScanShape'
    BY <1>1 DEF TablesInv, Timely, ScanShape
  <1>4. CountedOnce'
    BY DEF TablesInv, CountedOnce
  <1>. QED
    BY <1>2, <1>3, <1>4 DEF TablesInv

\* The tables keep their invariant when an upload changes only its own state.
LEMMA UploadOnly ==
    ASSUME TablesInv, NEW u \in Uploads, NEW rec \in Upload, Put(u, rec),
           UNCHANGED <<clock, tables, scan, ov>>,
           rescan' \in SUBSET Registered, owed' \in SUBSET Reports, faults' \in 0 .. MaxFaults
    PROVE  TablesInv'
  <1>1. upload' \in [Uploads -> Upload]
    BY PutType DEF TablesInv
  <1>2. TypeOK'
    BY <1>1 DEF TablesInv, TypeOK
  <1>. QED
    BY <1>2 DEF TablesInv, Timely, ScanShape, CountedOnce

\* One more fault is still within the bound.
LEMMA OneMoreFault ==
    ASSUME TypeOK, faults < MaxFaults, faults' = faults + 1
    PROVE  faults' \in 0 .. MaxFaults
BY ReportsAssumption DEF TypeOK

----------------------------------------------------------------------------
\* Init establishes the invariant of the tables.
LEMMA TablesInit == Init => TablesInv
  <1>. SUFFICES ASSUME Init PROVE TablesInv
    OBVIOUS
  <1>1. IdleUpload \in Upload
    BY DEF IdleUpload, Upload
  <1>2. tables \in Tables
    BY DEF Init, Tables
  <1>3. TypeOK
    BY <1>1, <1>2, IdleScanType, ReportsAssumption DEF Init, TypeOK
  <1>4. Timely /\ ScanShape
    BY IdleScanType, ReportsAssumption DEF Init, Timely, ScanShape
  <1>5. CountedOnce
    BY DEF Init, CountedOnce
  <1>. QED
    BY <1>3, <1>4, <1>5 DEF TablesInv

\* Storing a report keeps the invariant of the tables.
LEMMA TablesUpload ==
    ASSUME TablesInv, NEW u \in Uploads, UploadReport(u)
    PROVE  TablesInv'
  <1>. DEFINE r == Head(upload[u].todo)
              stored == IF Duplicate(r) THEN {} ELSE {r}
  <1>1. TypeOK
    BY DEF TablesInv
  <1>2. r \in Reports
    BY <1>1, HeadAndTail DEF UploadReport, Storable, Parses
  <1>3. stored \in SUBSET Reports
    BY <1>2
  <1>4. /\ tables' = PutReport(r) /\ owed' = owed \cup stored
        /\ scan' = [s \in Scans |-> [scan[s] EXCEPT !.known = @ \ stored]]
        /\ Put(u, [upload[u] EXCEPT !.todo = Tail(@), !.stored = @ \cup stored])
        /\ UNCHANGED <<clock, ov, rescan, faults>>
        /\ upload[u].todo # <<>>
    BY DEF UploadReport
  <1>. HIDE DEF r, stored
  <1>5. [upload[u] EXCEPT !.todo = Tail(@), !.stored = @ \cup stored] \in Upload
    BY <1>1, <1>3, <1>4, HeadAndTail DEF TypeOK, Upload
  <1>6. upload' \in [Uploads -> Upload]
    BY <1>1, <1>4, <1>5, PutType
  <1>7. /\ scan' \in [Scans -> Scan]
        /\ \A s \in Scans : /\ scan'[s].pc = scan[s].pc /\ scan'[s].now = scan[s].now
                            /\ scan'[s].n = scan[s].n /\ scan'[s].known = scan[s].known \ stored
    BY <1>1, <1>4 DEF TypeOK, Scan
  <1>8. TypeOK'
    BY <1>1, <1>2, <1>3, <1>4, <1>6, <1>7, PutReportTables DEF TypeOK
  <1>9. Timely' /\ ScanShape'
    BY <1>4, <1>7 DEF TablesInv, Timely, ScanShape
  <1>10. CountedOnce'
    <2>1. CASE Duplicate(r)
      BY <1>1, <1>2, <1>4, <2>1, PutReportTables DEF TablesInv, CountedOnce
    <2>2. CASE ~Duplicate(r)
      <3>1. /\ tables'.reports = tables.reports \cup {r}
            /\ \A q \in Reports : tables'.rows[q] = IF q = r THEN tables.rows[r] + 1 ELSE tables.rows[q]
        BY <1>1, <1>2, <1>4, <2>2, PutReportTables
      <3>2. \A q \in tables.reports : Content[q].key # Content[r].key
        BY <2>2 DEF Duplicate
      <3>3. r \notin tables.reports
        BY <3>2
      <3>4. \A p, q \in tables'.reports : Content[p].key = Content[q].key => p = q
        BY <3>1, <3>2 DEF TablesInv, CountedOnce
      <3>5. ASSUME NEW q \in Reports, Content[q].end >= clock' - pruneAfter
            PROVE  tables'.rows[q] = IF q \in tables'.reports THEN 1 ELSE 0
        <4>1. tables.rows[q] = IF q \in tables.reports THEN 1 ELSE 0
          BY <1>4, <3>5 DEF TablesInv, CountedOnce
        <4>. QED
          BY <3>1, <3>3, <4>1
      <3>. QED
        BY <3>4, <3>5 DEF CountedOnce
    <2>. QED
      BY <2>1, <2>2
  <1>. QED
    BY <1>8, <1>9, <1>10 DEF TablesInv

\* Prune keeps the invariant of the tables: its horizon is not later than today's.
LEMMA TablesPrune ==
    ASSUME TablesInv, NEW s \in Scans, CollectPrunesRows(s) \/ CollectPrunesReports(s)
    PROVE  TablesInv'
  <1>1. TypeOK /\ scan[s] \in Scan
    BY DEF TablesInv, TypeOK
  <1>2. /\ Cut(s) \in Int
        /\ \A r \in Reports : Content[r].end >= clock - pruneAfter => Content[r].end >= Cut(s)
    <2>1. scan[s].now \in Nat /\ clock \in Nat /\ scan[s].now <= clock /\ pruneAfter \in Nat
      BY <1>1, ReportsAssumption DEF TablesInv, Timely, TypeOK, Scan, pruneAfter
    <2>. QED
      BY <2>1, ContentEnds DEF Cut
  <1>3. /\ tables' \in Tables
        /\ tables'.reports \subseteq tables.reports
        /\ \A r \in Reports : Content[r].end >= clock - pruneAfter =>
              tables'.rows[r] = tables.rows[r] /\ (r \in tables'.reports <=> r \in tables.reports)
    <2>1. CASE tables' = PruneRows(Cut(s))
      BY <1>1, <1>2, <2>1, PruneTables
    <2>2. CASE tables' = PruneReports(Cut(s))
      BY <1>1, <1>2, <2>2, PruneTables
    <2>3. CASE tables' = tables
      BY <1>1, <2>3 DEF TypeOK
    <2>. QED
      BY <2>1, <2>2, <2>3 DEF CollectPrunesRows, CollectPrunesReports
  <1>4. PICK pc \in {"pruneReports", "overview"} : PutScan(s, [scan[s] EXCEPT !.pc = pc], ov[s])
    BY DEF CollectPrunesRows, CollectPrunesReports
  <1>5. [scan[s] EXCEPT !.pc = pc] \in Scan
    BY <1>1 DEF Scan
  <1>6. /\ scan' \in [Scans -> Scan] /\ DOMAIN ov' = Scans
        /\ scan'[s] = [scan[s] EXCEPT !.pc = pc]
        /\ \A q \in Scans \ {s} : scan'[q] = scan[q]
    BY <1>1, <1>4, <1>5, PutScanType
  <1>7. scan[s].n = 1
    BY DEF TablesInv, ScanShape, CollectPrunesRows, CollectPrunesReports
  <1>8. /\ scan'[s].pc = pc /\ scan'[s].n = 1 /\ scan'[s].now = scan[s].now
        /\ scan'[s].known = scan[s].known
    BY <1>1, <1>6, <1>7 DEF Scan
  <1>9. faults' \in 0 .. MaxFaults /\ owed' \in SUBSET Reports /\ UNCHANGED <<clock, upload, rescan>>
    <2>1. faults' = faults \/ (faults < MaxFaults /\ faults' = faults + 1)
      BY DEF CollectPrunesRows, CollectPrunesReports
    <2>2. faults' \in 0 .. MaxFaults
      BY <1>1, <2>1, OneMoreFault DEF TypeOK
    <2>3. owed' \subseteq owed /\ UNCHANGED <<clock, upload, rescan>>
      BY DEF CollectPrunesRows, CollectPrunesReports
    <2>. QED
      BY <1>1, <2>2, <2>3 DEF TypeOK
  <1>10. TypeOK'
    BY <1>1, <1>3, <1>6, <1>9 DEF TypeOK
  <1>11. Timely'
    BY <1>6, <1>8, <1>9 DEF TablesInv, Timely
  <1>12. ScanShape'
    <2>1. /\ scan'[s].pc # "idle"
          /\ scan'[s].n = 1 /\ scan'[s].n \in 1 .. Statements
      BY <1>8, SixStatements
    <2>2. ASSUME NEW q \in Scans \ {s}
          PROVE  /\ scan'[q].pc = "idle" => scan'[q].known = {}
                 /\ scan'[q].pc \in {"pruneRows", "pruneReports"} => scan'[q].n = 1
                 /\ scan'[q].pc = "overview" => scan'[q].n \in 1 .. Statements
      BY <1>6 DEF TablesInv, ScanShape
    <2>. QED
      BY <2>1, <2>2 DEF ScanShape
  <1>13. CountedOnce'
    BY <1>3, <1>9 DEF TablesInv, CountedOnce
  <1>. QED
    BY <1>10, <1>11, <1>12, <1>13 DEF TablesInv

\* A day that passes keeps the invariant of the tables: fewer reports are retained.
LEMMA TablesDay ==
    ASSUME TablesInv, NextDay
    PROVE  TablesInv'
  <1>1. /\ clock \in Nat /\ clock' \in Nat /\ clock' \in Days /\ clock < clock'
        /\ pruneAfter \in Nat
        /\ UNCHANGED <<tables, upload, scan, ov, rescan, owed, faults>>
    BY ReportsAssumption DEF TablesInv, TypeOK, NextDay, pruneAfter
  <1>2. TypeOK'
    BY <1>1 DEF TablesInv, TypeOK
  <1>3. Timely'
    <2>1. \A s \in Scans : scan[s].now \in Nat /\ scan[s].now <= clock
      BY DEF TablesInv, TypeOK, Timely, Scan
    <2>. QED
      BY <1>1, <2>1 DEF Timely
  <1>4. ScanShape'
    BY <1>1 DEF TablesInv, ScanShape
  <1>5. \A r \in Reports : Content[r].end >= clock' - pruneAfter => Content[r].end >= clock - pruneAfter
    BY <1>1, ContentEnds
  <1>6. CountedOnce'
    BY <1>1, <1>5 DEF TablesInv, CountedOnce
  <1>. QED
    BY <1>2, <1>3, <1>4, <1>6 DEF TablesInv

\* The steps of an upload that leave the tables alone.
LEMMA TablesRequest ==
    ASSUME TablesInv, NEW u \in Uploads,
           \/ \E batch \in Batches : UploadBegins(u, batch)
           \/ UploadSkips(u) \/ UploadFails(u) \/ UploadEnds(u)
    PROVE  TablesInv'
  <1>1. TypeOK /\ upload[u] \in Upload /\ owed \in SUBSET Reports /\ rescan \in SUBSET Registered
          /\ faults \in 0 .. MaxFaults
    BY DEF TablesInv, TypeOK
  <1>2. IdleUpload \in Upload
    BY DEF IdleUpload, Upload
  <1>3. ASSUME NEW batch \in Batches, UploadBegins(u, batch)
        PROVE  TablesInv'
    <2>1. [pc |-> "storing", stored |-> {}, todo |-> batch] \in Upload
      BY ReportsAssumption DEF Upload
    <2>. QED
      BY <1>1, <1>3, <2>1, UploadOnly DEF UploadBegins
  <1>4. CASE UploadSkips(u)
    <2>1. [upload[u] EXCEPT !.todo = Tail(@)] \in Upload
      BY <1>1, <1>4, HeadAndTail DEF UploadSkips, Upload
    <2>. QED
      BY <1>1, <1>4, <2>1, UploadOnly DEF UploadSkips
  <1>5. CASE UploadFails(u)
    <2>1. faults' \in 0 .. MaxFaults
      BY <1>1, <1>5, OneMoreFault DEF UploadFails
    <2>. QED
      BY <1>1, <1>2, <1>5, <2>1, UploadOnly DEF UploadFails
  <1>6. CASE UploadEnds(u)
    BY <1>1, <1>2, <1>6, UploadOnly DEF UploadEnds
  <1>. QED
    BY <1>3, <1>4, <1>5, <1>6

\* What a collect is after it began.
LEMMA BegunScan ==
    ASSUME TablesInv, NEW d \in Registered,
           NEW rec, rec = [IdleScan EXCEPT !.pc = "pruneRows", !.domain = d, !.now = clock]
    PROVE  /\ rec \in Scan /\ rec.pc = "pruneRows" /\ rec.domain = d
           /\ rec.now = clock /\ rec.n = 1
  <1>1. clock \in Nat
    BY ReportsAssumption DEF TablesInv, TypeOK
  <1>. QED
    BY <1>1, IdleScanType DEF Scan

\* The record that a statement of the overview leaves.
LEMMA CollectReadsRecord ==
    ASSUME TablesInv, NEW s \in Scans, CollectReads(s)
    PROVE  \E rec, read :
             /\ rec \in Scan
             /\ PutScan(s, rec, read)
             /\ scan[s].pc = "overview" /\ scan[s].n \in 1 .. Statements
             /\ rec.n = scan[s].n + 1 /\ rec.now = scan[s].now /\ rec.domain = scan[s].domain
             /\ rec.pc = IF scan[s].n = Statements \/ (scan[s].n = 1 /\ ~HasData(tables, scan[s].domain))
                         THEN "done" ELSE "overview"
             /\ rec.known = IF scan[s].n = 1 THEN owed \cap ReportsOf(tables, scan[s].domain)
                            ELSE scan[s].known
  <1>. DEFINE n == scan[s].n
              d == scan[s].domain
              last == n = Statements \/ (n = 1 /\ ~HasData(tables, d))
              pc == IF last THEN "done" ELSE "overview"
              known == IF n = 1 THEN owed \cap ReportsOf(tables, d) ELSE scan[s].known
              rec == [scan[s] EXCEPT !.n = n + 1, !.pc = pc, !.known = known]
  <1>1. TypeOK /\ scan[s].known \in SUBSET Reports /\ owed \in SUBSET Reports
    BY DEF TablesInv, TypeOK, Scan
  <1>2. scan[s].pc = "overview" /\ n \in 1 .. Statements
    BY DEF CollectReads, TablesInv, ScanShape
  <1>3. pc \in {"done", "overview"} /\ known \in SUBSET Reports
    BY <1>1
  <1>4. \E read : PutScan(s, rec, read)
    BY Zenon DEF CollectReads
  <1>5. /\ rec \in Scan /\ rec.pc = pc /\ rec.n = n + 1 /\ rec.known = known
        /\ rec.now = scan[s].now /\ rec.domain = d
    <2>1. scan[s] \in Scan
      BY <1>1 DEF TypeOK
    <2>2. n + 1 \in 1 .. Statements + 1
      BY <1>2, SixStatements
    <2>. HIDE DEF pc, known
    <2>. QED
      BY <1>3, <2>1, <2>2 DEF Scan
  <1>. HIDE DEF rec
  <1>. QED
    BY <1>2, <1>4, <1>5, Zenon

\* The steps of a collect that leave the tables alone.
LEMMA TablesCollect ==
    ASSUME TablesInv, NEW s \in Scans,
           \/ \E d \in Registered : CollectBegins(s, d)
           \/ CollectReads(s) \/ CollectFindsNothing(s) \/ CollectFails(s) \/ CollectReturns(s)
    PROVE  TablesInv'
  <1>1. TypeOK /\ scan[s] \in Scan /\ owed \in SUBSET Reports /\ rescan \in SUBSET Registered
          /\ faults \in 0 .. MaxFaults /\ clock \in Nat
    BY ReportsAssumption DEF TablesInv, TypeOK
  <1>2. /\ IdleScan \in Scan /\ IdleScan.now <= clock
        /\ IdleScan.pc = "idle" /\ IdleScan.known = {}
    BY <1>1, IdleScanType
  <1>3. ASSUME NEW d \in Registered, CollectBegins(s, d)
        PROVE  TablesInv'
    <2>. DEFINE rec == [IdleScan EXCEPT !.pc = "pruneRows", !.domain = d, !.now = clock]
    <2>1. rec \in Scan /\ rec.now = clock /\ rec.pc = "pruneRows" /\ rec.n = 1
      BY BegunScan, Zenon
    <2>2. /\ PutScan(s, rec, NoOverview)
          /\ UNCHANGED <<clock, tables, upload, owed, faults>> /\ rescan' \in SUBSET Registered
      BY <1>1, <1>3 DEF CollectBegins
    <2>. HIDE DEF rec
    <2>3. rec.now <= clock
      BY <1>1, <2>1
    <2>. QED
      BY <1>1, <2>1, <2>2, <2>3, ScanOnly
  <1>4. CASE CollectReads(s)
    <2>1. PICK rec, read :
             /\ rec \in Scan
             /\ PutScan(s, rec, read)
             /\ scan[s].pc = "overview" /\ scan[s].n \in 1 .. Statements
             /\ rec.n = scan[s].n + 1 /\ rec.now = scan[s].now /\ rec.domain = scan[s].domain
             /\ rec.pc = IF scan[s].n = Statements \/ (scan[s].n = 1 /\ ~HasData(tables, scan[s].domain))
                         THEN "done" ELSE "overview"
             /\ rec.known = IF scan[s].n = 1 THEN owed \cap ReportsOf(tables, scan[s].domain)
                            ELSE scan[s].known
      BY <1>4, CollectReadsRecord
    <2>2. rec.now <= clock /\ rec.pc \in {"done", "overview"}
      BY <2>1 DEF TablesInv, Timely
    <2>3. rec.pc = "overview" => rec.n \in 1 .. Statements
      BY <2>1, SixStatements
    <2>4. UNCHANGED <<clock, tables, upload, rescan, owed, faults>>
      BY <1>4 DEF CollectReads
    <2>. QED
      BY <1>1, <2>1, <2>2, <2>3, <2>4, ScanOnly
  <1>5. CASE CollectFindsNothing(s)
    BY <1>1, <1>2, <1>5, ScanOnly DEF CollectFindsNothing
  <1>6. CASE CollectFails(s)
    <2>1. faults' \in 0 .. MaxFaults
      BY <1>1, <1>6, OneMoreFault DEF CollectFails
    <2>2. owed' \in SUBSET Reports
      BY <1>1, <1>6 DEF CollectFails
    <2>. QED
      BY <1>1, <1>2, <1>6, <2>1, <2>2, ScanOnly DEF CollectFails
  <1>7. CASE CollectReturns(s)
    BY <1>1, <1>2, <1>7, ScanOnly DEF CollectReturns
  <1>. QED
    BY <1>3, <1>4, <1>5, <1>6, <1>7

\* A rescan that times out leaves tables, uploads and collects alone.
LEMMA TablesTimeout ==
    ASSUME TablesInv, NEW d \in Registered, RescanTimesOut(d)
    PROVE  TablesInv'
  <1>1. faults' \in 0 .. MaxFaults
    BY OneMoreFault DEF TablesInv, RescanTimesOut
  <1>2. owed' \in SUBSET Reports /\ rescan' \in SUBSET Registered
    BY DEF TablesInv, TypeOK, RescanTimesOut
  <1>3. TypeOK'
    BY <1>1, <1>2 DEF TablesInv, TypeOK, RescanTimesOut
  <1>. QED
    BY <1>3 DEF TablesInv, Timely, ScanShape, CountedOnce, RescanTimesOut

\* Every step keeps the invariant of the tables.
LEMMA TablesStep == TablesInv /\ [Next]_vars => TablesInv'
  <1>. SUFFICES ASSUME TablesInv, [Next]_vars PROVE TablesInv'
    OBVIOUS
  <1>1. CASE NextDay
    BY <1>1, TablesDay
  <1>2. ASSUME NEW d \in Registered, RescanTimesOut(d)
        PROVE  TablesInv'
    BY <1>2, TablesTimeout
  <1>3. ASSUME NEW u \in Uploads,
               \/ \E batch \in Batches : UploadBegins(u, batch)
               \/ UploadStep(u) \/ UploadFails(u)
        PROVE  TablesInv'
    BY <1>3, TablesUpload, TablesRequest, Zenon DEF UploadStep
  <1>4. ASSUME NEW s \in Scans,
               \/ \E d \in Registered : CollectBegins(s, d)
               \/ ScanStep(s) \/ CollectFails(s)
        PROVE  TablesInv'
    BY <1>4, TablesPrune, TablesCollect, Zenon DEF ScanStep
  <1>5. CASE UNCHANGED vars
    BY <1>5 DEF vars, TablesInv, TypeOK, Timely, ScanShape, CountedOnce
  <1>. QED
    BY <1>1, <1>2, <1>3, <1>4, <1>5, Zenon DEF Next

\* The invariant of the tables holds in every state.
THEOREM TablesInvariance == Spec => []TablesInv
  <1>. QED
    BY TablesInit, TablesStep, PTL DEF Spec

\* The types of uploads, tables and collects, however they interleave.
THEOREM TypeCorrect == Spec => []TypeOK
  <1>1. TablesInv => TypeOK
    BY DEF TablesInv
  <1>. QED
    BY <1>1, TablesInvariance, PTL

\* PutReport and Prune, racing, count every retained report exactly once
\* (dmarcwatch/sqlite.go).
THEOREM ReportsCountedOnce == Spec => []CountedOnce
  <1>1. TablesInv => CountedOnce
    BY DEF TablesInv
  <1>. QED
    BY <1>1, TablesInvariance, PTL

----------------------------------------------------------------------------
\* Collect s has read report r or is about to read it.
Reads(s, r) ==
    /\ scan[s].domain = Content[r].domain
    /\ \/ scan[s].pc \in {"pruneRows", "pruneReports"}
       \/ scan[s].pc = "overview" /\ scan[s].n = 1
       \/ r \in scan[s].known

\* RescanFollows for one report.
Served(r) ==
    \/ \E u \in Uploads : r \in upload[u].stored
    \/ Content[r].domain \in rescan
    \/ \E s \in Scans : Reads(s, r)

\* RescanFollows, said report by report.
LEMMA FollowsIsServed == RescanFollows <=> \A r \in owed : Served(r)
BY Zenon DEF RescanFollows, Served, Reads

\* Init owes nothing.
LEMMA RescanInit == Init => RescanInv
BY DEF Init, RescanInv, UploadShape, OwedIsStored, RescanFollows, IdleUpload

\* A step that leaves uploads alone serves every report that it still owes.
LEMMA CollectServes ==
    ASSUME RescanInv, UNCHANGED upload,
           owed' \subseteq owed, owed' \subseteq tables'.reports,
           \A r \in owed' : Content[r].domain \in rescan => Served(r)',
           \A r \in owed' : \A s \in Scans : Reads(s, r) => Served(r)'
    PROVE  RescanInv'
  <1>1. UploadShape' /\ OwedIsStored'
    BY DEF RescanInv, UploadShape, OwedIsStored
  <1>2. ASSUME NEW r \in owed'
        PROVE  Served(r)'
    <2>1. Served(r)
      BY FollowsIsServed DEF RescanInv
    <2>2. (\E u \in Uploads : r \in upload[u].stored) => Served(r)'
      BY DEF Served
    <2>. QED
      BY <2>1, <2>2, Zenon DEF Served
  <1>3. RescanFollows'
    BY <1>2, Zenon DEF RescanFollows, Served, Reads
  <1>. QED
    BY <1>1, <1>3 DEF RescanInv

\* A step that leaves collects alone and owes no report anew.
LEMMA UploadServes ==
    ASSUME RescanInv, UNCHANGED scan,
           rescan \subseteq rescan',
           owed' \subseteq owed, owed' \subseteq tables'.reports,
           \A u \in Uploads : /\ upload'[u].stored \subseteq upload[u].stored
                              /\ upload'[u].pc = "idle" => upload'[u].stored = {},
           \A r \in owed' : \A u \in Uploads : r \in upload[u].stored => Served(r)'
    PROVE  RescanInv'
  <1>1. UploadShape' /\ OwedIsStored'
    <2>1. ASSUME NEW u \in Uploads, NEW r \in upload'[u].stored
          PROVE  Content[r].domain \in Registered
      BY <2>1 DEF RescanInv, UploadShape
    <2>2. OwedIsStored'
      BY DEF OwedIsStored
    <2>. QED
      BY <2>1, <2>2 DEF UploadShape
  <1>2. ASSUME NEW r \in owed'
        PROVE  Served(r)'
    <2>1. Served(r)
      BY FollowsIsServed DEF RescanInv
    <2>2. Content[r].domain \in rescan => Served(r)'
      BY DEF Served
    <2>3. (\E s \in Scans : Reads(s, r)) => Served(r)'
      BY DEF Served, Reads
    <2>. QED
      BY <2>1, <2>2, <2>3, Zenon DEF Served
  <1>3. RescanFollows'
    BY <1>2, Zenon DEF RescanFollows, Served, Reads
  <1>. QED
    BY <1>1, <1>3 DEF RescanInv

\* Uploads keep the invariant of the rescan.
LEMMA RescanUpload ==
    ASSUME TablesInv, RescanInv, NEW u \in Uploads,
           \/ \E batch \in Batches : UploadBegins(u, batch)
           \/ UploadStep(u) \/ UploadFails(u)
    PROVE  RescanInv'
  <1>1. TypeOK /\ upload[u] \in Upload /\ rescan \in SUBSET Registered /\ owed \subseteq tables.reports
    BY DEF TablesInv, TypeOK, RescanInv, OwedIsStored
  <1>2. \A q \in Uploads : upload[q].pc = "idle" => upload[q].stored = {}
    BY DEF RescanInv, UploadShape
  <1>3. IdleUpload \in Upload /\ IdleUpload.stored = {} /\ IdleUpload.pc = "idle"
    BY DEF IdleUpload, Upload
  <1>4. ASSUME NEW batch \in Batches, UploadBegins(u, batch)
        PROVE  RescanInv'
    <2>. DEFINE rec == [pc |-> "storing", stored |-> {}, todo |-> batch]
    <2>1. rec \in Upload /\ rec.stored = {} /\ rec.pc = "storing"
      BY ReportsAssumption DEF Upload
    <2>2. Put(u, rec) /\ upload[u].pc = "idle" /\ UNCHANGED <<tables, scan, rescan, owed>>
      BY <1>4 DEF UploadBegins
    <2>. HIDE DEF rec
    <2>3. upload'[u].stored = {} /\ upload'[u].pc = "storing" /\ \A q \in Uploads \ {u} : upload'[q] = upload[q]
      BY <1>1, <2>1, <2>2, PutType
    <2>4. \A q \in Uploads : upload'[q].stored = upload[q].stored
      BY <1>2, <2>2, <2>3
    <2>5. \A r \in owed' : \A q \in Uploads : r \in upload[q].stored => Served(r)'
      BY <2>4 DEF Served
    <2>. QED
      BY <1>1, <1>2, <2>2, <2>3, <2>4, <2>5, UploadServes
  <1>5. CASE UploadSkips(u)
    <2>. DEFINE rec == [upload[u] EXCEPT !.todo = Tail(@)]
    <2>1. rec \in Upload /\ rec.stored = upload[u].stored /\ rec.pc = "storing"
      BY <1>1, <1>5, HeadAndTail DEF Upload, UploadSkips
    <2>2. Put(u, rec) /\ UNCHANGED <<tables, scan, rescan, owed>>
      BY <1>5 DEF UploadSkips
    <2>. HIDE DEF rec
    <2>3. /\ upload'[u].stored = upload[u].stored /\ upload'[u].pc = "storing"
          /\ \A q \in Uploads \ {u} : upload'[q] = upload[q]
      BY <1>1, <2>1, <2>2, PutType
    <2>4. \A r \in owed' : \A q \in Uploads : r \in upload[q].stored => Served(r)'
      BY <2>3 DEF Served
    <2>. QED
      BY <1>1, <1>2, <2>2, <2>3, <2>4, UploadServes
  <1>6. CASE UploadReport(u)
    <2>. DEFINE r == Head(upload[u].todo)
                stored == IF Duplicate(r) THEN {} ELSE {r}
                rec == [upload[u] EXCEPT !.todo = Tail(@), !.stored = @ \cup stored]
    <2>1. /\ tables' = PutReport(r) /\ owed' = owed \cup stored
          /\ scan' = [s \in Scans |-> [scan[s] EXCEPT !.known = @ \ stored]]
          /\ Put(u, rec)
          /\ UNCHANGED rescan /\ upload[u].todo # <<>> /\ upload[u].pc = "storing"
      BY <1>6 DEF UploadReport
    <2>2. r \in Reports /\ Content[r].domain \in Registered
      BY <1>1, <1>6, HeadAndTail DEF UploadReport, Storable, Parses
    <2>3. stored \subseteq {r} /\ (Duplicate(r) => stored = {})
      OBVIOUS
    <2>. HIDE DEF r, stored
    <2>4. rec \in Upload /\ rec.stored = upload[u].stored \cup stored /\ rec.pc = "storing"
      BY <1>1, <2>1, <2>2, <2>3, HeadAndTail DEF Upload
    <2>. HIDE DEF rec
    <2>5. /\ upload'[u].stored = upload[u].stored \cup stored /\ upload'[u].pc = "storing"
          /\ \A q \in Uploads \ {u} : upload'[q] = upload[q]
      BY <1>1, <2>1, <2>4, PutType
    <2>6. UploadShape'
      BY <2>2, <2>3, <2>5 DEF RescanInv, UploadShape
    <2>7. tables.reports \cup stored \subseteq tables'.reports
      <3>1. CASE Duplicate(r)
        BY <1>1, <2>1, <2>2, <2>3, <3>1, PutReportTables
      <3>2. CASE ~Duplicate(r)
        BY <1>1, <2>1, <2>2, <2>3, <3>2, PutReportTables
      <3>. QED
        BY <3>1, <3>2
    <2>8. OwedIsStored'
      BY <1>1, <2>1, <2>7 DEF OwedIsStored
    <2>9. \A s \in Scans : /\ scan'[s].pc = scan[s].pc /\ scan'[s].domain = scan[s].domain
                           /\ scan'[s].n = scan[s].n /\ scan'[s].known = scan[s].known \ stored
      BY <1>1, <2>1 DEF TypeOK, Scan
    <2>10. ASSUME NEW q \in owed'
           PROVE  Served(q)'
      <3>1. CASE q \in stored
        BY <2>5, <3>1 DEF Served
      <3>2. CASE q \notin stored
        <4>1. Served(q)
          BY <2>1, <3>2, FollowsIsServed DEF RescanInv
        <4>2. ASSUME NEW v \in Uploads, q \in upload[v].stored
              PROVE  q \in upload'[v].stored
          BY <2>5, <4>2
        <4>3. ASSUME NEW s \in Scans, Reads(s, q)
              PROVE  Reads(s, q)'
          BY <2>9, <3>2, <4>3 DEF Reads
        <4>. QED
          BY <2>1, <4>1, <4>2, <4>3 DEF Served
      <3>. QED
        BY <3>1, <3>2
    <2>11. RescanFollows'
      BY <2>10, Zenon DEF RescanFollows, Served, Reads
    <2>. QED
      BY <2>6, <2>8, <2>11 DEF RescanInv
  <1>7. CASE UploadFails(u)
    <2>1. /\ Put(u, IdleUpload) /\ UNCHANGED <<tables, scan, rescan>>
          /\ owed' = owed \ upload[u].stored
      BY <1>7 DEF UploadFails
    <2>2. upload'[u] = IdleUpload /\ \A q \in Uploads \ {u} : upload'[q] = upload[q]
      BY <1>1, <1>3, <2>1, PutType
    <2>3. ASSUME NEW r \in owed', NEW q \in Uploads, r \in upload[q].stored
          PROVE  Served(r)'
      BY <2>1, <2>2, <2>3 DEF Served
    <2>. QED
      BY <1>1, <1>2, <1>3, <2>1, <2>2, <2>3, UploadServes
  <1>8. CASE UploadEnds(u)
    <2>1. /\ Put(u, IdleUpload) /\ UNCHANGED <<tables, scan, owed>>
          /\ rescan' = IF upload[u].stored = {} THEN rescan ELSE Registered
      BY <1>8 DEF UploadEnds
    <2>2. upload'[u] = IdleUpload /\ \A q \in Uploads \ {u} : upload'[q] = upload[q]
      BY <1>1, <1>3, <2>1, PutType
    <2>3. ASSUME NEW r \in owed', NEW q \in Uploads, r \in upload[q].stored
          PROVE  Served(r)'
      <3>1. Content[r].domain \in Registered
        BY <2>3 DEF RescanInv, UploadShape
      <3>2. CASE q = u
        BY <2>1, <2>3, <3>1, <3>2 DEF Served
      <3>3. CASE q # u
        BY <2>2, <2>3, <3>3 DEF Served
      <3>. QED
        BY <3>2, <3>3
    <2>. QED
      BY <1>1, <1>2, <1>3, <2>1, <2>2, <2>3, UploadServes
  <1>. QED
    BY <1>4, <1>5, <1>6, <1>7, <1>8 DEF UploadStep

\* Collects keep the invariant of the rescan.
LEMMA RescanCollect ==
    ASSUME TablesInv, RescanInv, NEW s \in Scans,
           \/ \E d \in Registered : CollectBegins(s, d)
           \/ ScanStep(s) \/ CollectFails(s)
    PROVE  RescanInv'
  <1>1. TypeOK /\ scan[s] \in Scan /\ owed \subseteq tables.reports /\ tables.reports \subseteq Reports
    BY DEF TablesInv, TypeOK, Tables, RescanInv, OwedIsStored
  <1>2. IdleScan \in Scan
    BY IdleScanType
  \* Collects other than s serve what they served.
  <1>3. ASSUME \A q \in Scans \ {s} : scan'[q] = scan[q],
               NEW r, NEW q \in Scans \ {s}, Reads(q, r)
        PROVE  Served(r)'
    BY <1>3 DEF Served, Reads
  \* It is enough to look at what s has read and at the rescans.
  <1>4. ASSUME UNCHANGED upload, owed' \subseteq owed, owed' \subseteq tables'.reports,
               \A q \in Scans \ {s} : scan'[q] = scan[q],
               \A r \in owed' : Content[r].domain \in rescan => Served(r)',
               \A r \in owed' : Reads(s, r) => Served(r)'
        PROVE  RescanInv'
    <2>1. ASSUME NEW r \in owed', NEW q \in Scans, Reads(q, r)
          PROVE  Served(r)'
      BY <1>3, <1>4, <2>1
    <2>. QED
      BY <1>4, <2>1, CollectServes
  <1>5. ASSUME NEW d \in Registered, CollectBegins(s, d)
        PROVE  RescanInv'
    <2>. DEFINE rec == [IdleScan EXCEPT !.pc = "pruneRows", !.domain = d, !.now = clock]
    <2>1. rec \in Scan /\ rec.pc = "pruneRows" /\ rec.domain = d
      BY BegunScan, Zenon
    <2>2. PutScan(s, rec, NoOverview) /\ rescan' = rescan \ {d} /\ UNCHANGED <<tables, upload, owed>>
            /\ scan[s].pc = "idle"
      BY <1>5 DEF CollectBegins
    <2>. HIDE DEF rec
    <2>3. scan'[s] = rec /\ \A q \in Scans \ {s} : scan'[q] = scan[q]
      BY <1>1, <2>1, <2>2, PutScanType
    <2>4. ASSUME NEW r \in owed', Content[r].domain \in rescan
          PROVE  Served(r)'
      BY <2>1, <2>2, <2>3, <2>4 DEF Served, Reads
    <2>5. ASSUME NEW r \in owed', Reads(s, r)
          PROVE  Served(r)'
      BY <2>2, <2>5 DEF Reads, TablesInv, ScanShape
    <2>. QED
      BY <1>1, <1>4, <2>2, <2>3, <2>4, <2>5
  <1>6. CASE CollectPrunesRows(s) \/ CollectPrunesReports(s)
    <2>1. PICK pc \in {"pruneReports", "overview"} : PutScan(s, [scan[s] EXCEPT !.pc = pc], ov[s])
      BY <1>6 DEF CollectPrunesRows, CollectPrunesReports
    <2>2. [scan[s] EXCEPT !.pc = pc] \in Scan
      BY <1>1 DEF Scan
    <2>3. scan'[s] = [scan[s] EXCEPT !.pc = pc] /\ \A q \in Scans \ {s} : scan'[q] = scan[q]
      BY <1>1, <2>1, <2>2, PutScanType
    <2>4. scan'[s].pc = pc /\ scan'[s].domain = scan[s].domain /\ scan'[s].n = scan[s].n
      BY <1>1, <2>3 DEF Scan
    <2>5. scan[s].n = 1
      BY <1>6 DEF TablesInv, ScanShape, CollectPrunesRows, CollectPrunesReports
    <2>6. UNCHANGED <<upload, rescan>> /\ owed' \subseteq owed
      BY <1>6 DEF CollectPrunesRows, CollectPrunesReports
    <2>7. owed' \subseteq tables'.reports
      <3>1. CASE CollectPrunesReports(s)
        BY <3>1 DEF CollectPrunesReports
      <3>2. CASE CollectPrunesRows(s)
        <4>1. Cut(s) \in Int
          BY <1>1 DEF Cut, Scan, pruneAfter
        <4>2. tables'.reports = tables.reports
          BY <1>1, <3>2, <4>1, PruneTables DEF CollectPrunesRows
        <4>. QED
          BY <1>1, <3>2, <4>2 DEF CollectPrunesRows
      <3>. QED
        BY <1>6, <3>1, <3>2
    <2>8. ASSUME NEW r \in owed', Content[r].domain \in rescan
          PROVE  Served(r)'
      BY <2>6, <2>8 DEF Served
    <2>9. ASSUME NEW r \in owed', Reads(s, r)
          PROVE  Served(r)'
      BY <2>4, <2>5, <2>9 DEF Served, Reads
    <2>. QED
      BY <1>4, <2>3, <2>6, <2>7, <2>8, <2>9
  <1>7. CASE CollectReads(s)
    <2>1. PICK rec, read :
             /\ rec \in Scan
             /\ PutScan(s, rec, read)
             /\ scan[s].pc = "overview" /\ scan[s].n \in 1 .. Statements
             /\ rec.n = scan[s].n + 1 /\ rec.now = scan[s].now /\ rec.domain = scan[s].domain
             /\ rec.pc = IF scan[s].n = Statements \/ (scan[s].n = 1 /\ ~HasData(tables, scan[s].domain))
                         THEN "done" ELSE "overview"
             /\ rec.known = IF scan[s].n = 1 THEN owed \cap ReportsOf(tables, scan[s].domain)
                            ELSE scan[s].known
      BY <1>7, CollectReadsRecord
    <2>2. scan'[s] = rec /\ \A q \in Scans \ {s} : scan'[q] = scan[q]
      BY <1>1, <2>1, PutScanType
    <2>3. UNCHANGED <<tables, upload, rescan, owed>>
      BY <1>7 DEF CollectReads
    <2>4. ASSUME NEW r \in owed', Content[r].domain \in rescan
          PROVE  Served(r)'
      BY <2>3, <2>4 DEF Served
    <2>5. ASSUME NEW r \in owed', Reads(s, r)
          PROVE  Served(r)'
      <3>1. r \in rec.known
        BY <1>1, <2>1, <2>3, <2>5 DEF Reads, ReportsOf
      <3>. QED
        BY <2>1, <2>2, <2>5, <3>1 DEF Served, Reads
    <2>. QED
      BY <1>1, <1>4, <2>2, <2>3, <2>4, <2>5
  <1>8. CASE CollectFindsNothing(s) \/ CollectFails(s) \/ CollectReturns(s)
    <2>1. PutScan(s, IdleScan, NoOverview) /\ UNCHANGED <<tables, upload, rescan>>
            /\ owed' \subseteq owed /\ scan[s].pc \in {"overview", "done"}
      BY <1>8 DEF CollectFindsNothing, CollectFails, CollectReturns
    <2>2. \A q \in Scans \ {s} : scan'[q] = scan[q]
      BY <1>1, <1>2, <2>1, PutScanType
    <2>3. ASSUME NEW r \in owed', Content[r].domain \in rescan
          PROVE  Served(r)'
      BY <2>1, <2>3 DEF Served
    \* What s served is no longer owed.
    <2>4. ASSUME NEW r \in owed', Reads(s, r)
          PROVE  FALSE
      <3>1. CASE CollectFindsNothing(s)
        BY <1>1, <2>4, <3>1 DEF CollectFindsNothing, HasData, ReportsOf, Reads
      <3>2. CASE CollectFails(s)
        BY <2>4, <3>2 DEF CollectFails, Reads
      <3>3. CASE CollectReturns(s)
        BY <2>4, <3>3 DEF CollectReturns, Reads
      <3>. QED
        BY <1>8, <3>1, <3>2, <3>3
    <2>. QED
      BY <1>1, <1>4, <2>1, <2>2, <2>3, <2>4
  <1>. QED
    BY <1>5, <1>6, <1>7, <1>8 DEF ScanStep

\* Every step keeps the invariant of the rescan.
LEMMA RescanStep == TablesInv /\ RescanInv /\ [Next]_vars => RescanInv'
  <1>. SUFFICES ASSUME TablesInv, RescanInv, [Next]_vars PROVE RescanInv'
    OBVIOUS
  <1>1. CASE NextDay
    BY <1>1 DEF NextDay, RescanInv, UploadShape, OwedIsStored, RescanFollows
  <1>2. ASSUME NEW d \in Registered, RescanTimesOut(d)
        PROVE  RescanInv'
    <2>1. /\ UNCHANGED <<tables, upload, scan>> /\ rescan' = rescan \ {d}
          /\ owed' \subseteq owed /\ \A r \in owed' : Content[r].domain # d
      BY <1>2 DEF RescanTimesOut
    <2>2. \A r \in owed' : Content[r].domain \in rescan => Served(r)'
      BY <2>1 DEF Served
    <2>3. \A r \in owed' : \A s \in Scans : Reads(s, r) => Served(r)'
      BY <2>1 DEF Served, Reads
    <2>. QED
      BY <2>1, <2>2, <2>3, CollectServes DEF RescanInv, OwedIsStored
  <1>3. ASSUME NEW u \in Uploads,
               \/ \E batch \in Batches : UploadBegins(u, batch)
               \/ UploadStep(u) \/ UploadFails(u)
        PROVE  RescanInv'
    BY <1>3, RescanUpload
  <1>4. ASSUME NEW s \in Scans,
               \/ \E d \in Registered : CollectBegins(s, d)
               \/ ScanStep(s) \/ CollectFails(s)
        PROVE  RescanInv'
    BY <1>4, RescanCollect
  <1>5. CASE UNCHANGED vars
    BY <1>5 DEF vars, RescanInv, UploadShape, OwedIsStored, RescanFollows
  <1>. QED
    BY <1>1, <1>2, <1>3, <1>4, <1>5, Zenon DEF Next

\* A stored report stays owed to the rescan that OnIngest starts until a whole
\* collect has read it (dmarcwatch/console.go, cmd/dmarcwatch/main.go).
THEOREM RescanIsKept == Spec => []RescanFollows
  <1>1. Init => TablesInv /\ RescanInv
    BY TablesInit, RescanInit
  <1>2. TablesInv /\ RescanInv /\ [Next]_vars => (TablesInv /\ RescanInv)'
    BY TablesStep, RescanStep
  <1>3. RescanInv => RescanFollows
    BY DEF RescanInv
  <1>. QED
    BY <1>1, <1>2, <1>3, PTL DEF Spec

----------------------------------------------------------------------------
\* An overview has its fields, and its history begins at a number.
OverviewShape ==
    \A s \in Scans : DOMAIN ov[s] = DOMAIN NoOverview /\ ov[s].firstSeen \in Nat

\* MIN(begin) over the reports of a domain that has some.
LEMMA FirstSeenType ==
    ASSUME NEW t \in Tables, NEW d, HasData(t, d)
    PROVE  FirstSeen(t, d) \in Nat
  <1>. DEFINE B == {Content[r].begin : r \in ReportsOf(t, d)}
  <1>1. B \in SUBSET Nat /\ B # {}
    <2>1. \A r \in ReportsOf(t, d) : Content[r].begin \in Nat
      BY CollectorAssumption DEF ReportsOf, Tables, IsContent
    <2>. QED
      BY <2>1 DEF HasData
  <1>2. FirstSeen(t, d) = Min(B)
    BY DEF FirstSeen
  <1>. HIDE DEF B
  <1>3. \E n \in B : \A m \in B : n <= m
    BY <1>1, Least
  <1>4. Min(B) \in B
    BY <1>3, Zenon DEF Min
  <1>. QED
    BY <1>1, <1>2, <1>4

\* The overview before the first statement.
LEMMA NoOverviewShape == NoOverview.firstSeen \in Nat
BY DEF NoOverview

\* A statement of Overview keeps its fields and its history a number.
LEMMA ReadShape ==
    ASSUME NEW o, DOMAIN o = DOMAIN NoOverview, o.firstSeen \in Nat,
           NEW t \in Tables, NEW d, NEW now, NEW n \in 1 .. Statements,
           NEW read \in Read(n, o, t, d, now)
    PROVE  DOMAIN read = DOMAIN NoOverview /\ read.firstSeen \in Nat
  <1>1. DOMAIN o = {"hasData", "policy", "firstSeen", "lastEnd", "orgs30",
                    "msgs30", "aligned30", "msgs7", "aligned7", "sources"}
    BY DEF NoOverview
  <1>2. n = 1 \/ n = 2 \/ n = 3 \/ n = 4 \/ n = 5 \/ n = 6
    BY SixStatements
  <1>3. CASE n = 1
    <2>1. read = IF HasData(t, d)
                 THEN [o EXCEPT !.hasData = TRUE, !.firstSeen = FirstSeen(t, d), !.lastEnd = LastEnd(t, d)]
                 ELSE o
      BY <1>3 DEF Read
    <2>. QED
      BY <1>1, <2>1, FirstSeenType
  <1>4. CASE n = 2
    <2>1. PICK p : read = [o EXCEPT !.policy = p]
      BY <1>4 DEF Read
    <2>. QED
      BY <1>1, <2>1
  <1>5. CASE n = 3
    <2>1. PICK p : read = [o EXCEPT !.orgs30 = p]
      BY <1>5 DEF Read
    <2>. QED
      BY <1>1, <2>1
  <1>6. CASE n = 4
    <2>1. read = [o EXCEPT !.msgs30 = Msgs(t, d, now - windowLong),
                             !.aligned30 = AlignedMsgs(t, d, now - windowLong)]
      BY <1>6 DEF Read
    <2>. QED
      BY <1>1, <2>1
  <1>7. CASE n = 5
    <2>1. read = [o EXCEPT !.msgs7 = Msgs(t, d, now - windowRecent),
                             !.aligned7 = AlignedMsgs(t, d, now - windowRecent)]
      BY <1>7 DEF Read
    <2>. QED
      BY <1>1, <2>1
  <1>8. CASE n = 6
    <2>1. PICK p : read = [o EXCEPT !.sources = p]
      BY <1>8 DEF Read
    <2>. QED
      BY <1>1, <2>1
  <1>. QED
    BY <1>2, <1>3, <1>4, <1>5, <1>6, <1>7, <1>8

\* Replacing the overview of one collect.
LEMMA PutScanShape ==
    ASSUME TablesInv, OverviewShape, NEW s \in Scans, NEW rec, NEW view, PutScan(s, rec, view),
           DOMAIN view = DOMAIN NoOverview, view.firstSeen \in Nat
    PROVE  OverviewShape'
  <1>1. ov' = [ov EXCEPT ![s] = view] /\ DOMAIN ov = Scans
    BY DEF PutScan, TablesInv, TypeOK
  <1>. QED
    BY <1>1 DEF OverviewShape

\* The steps of a collect keep the shape of the overviews.
LEMMA OverviewCollect ==
    ASSUME TablesInv, OverviewShape, NEW s \in Scans,
           (\E d \in Registered : CollectBegins(s, d)) \/ ScanStep(s) \/ CollectFails(s)
    PROVE  OverviewShape'
  <1>1. DOMAIN ov[s] = DOMAIN NoOverview /\ ov[s].firstSeen \in Nat
    BY DEF OverviewShape
  <1>2. ASSUME NEW rec, PutScan(s, rec, NoOverview) PROVE OverviewShape'
    BY <1>2, NoOverviewShape, PutScanShape
  <1>3. ASSUME NEW rec, PutScan(s, rec, ov[s]) PROVE OverviewShape'
    BY <1>1, <1>3, PutScanShape
  <1>4. CASE CollectReads(s)
    <2>1. PICK read \in Read(scan[s].n, ov[s], tables, scan[s].domain, scan[s].now) :
             \E rec : PutScan(s, rec, read)
      BY <1>4, Zenon DEF CollectReads
    <2>2. tables \in Tables /\ scan[s].n \in 1 .. Statements
      BY <1>4 DEF CollectReads, TablesInv, TypeOK, ScanShape
    <2>3. DOMAIN read = DOMAIN NoOverview /\ read.firstSeen \in Nat
      BY <1>1, <2>1, <2>2, ReadShape
    <2>. QED
      BY <2>1, <2>3, PutScanShape
  <1>5. CASE CollectPrunesRows(s) \/ CollectPrunesReports(s)
    <2>1. \E rec : PutScan(s, rec, ov[s])
      BY <1>5, Zenon DEF CollectPrunesRows, CollectPrunesReports
    <2>. QED
      BY <1>3, <2>1
  <1>6. CASE (\E d \in Registered : CollectBegins(s, d)) \/ CollectFindsNothing(s) \/ CollectFails(s) \/ CollectReturns(s)
    <2>1. \E rec : PutScan(s, rec, NoOverview)
      BY <1>6, Zenon DEF CollectBegins, CollectFindsNothing, CollectFails, CollectReturns
    <2>. QED
      BY <1>2, <2>1
  <1>. QED
    BY <1>4, <1>5, <1>6 DEF ScanStep

\* Every step keeps the shape of the overviews.
LEMMA OverviewStep == TablesInv /\ OverviewShape /\ [Next]_vars => OverviewShape'
  <1>. SUFFICES ASSUME TablesInv, OverviewShape, [Next]_vars PROVE OverviewShape'
    OBVIOUS
  <1>1. ASSUME UNCHANGED ov PROVE OverviewShape'
    BY <1>1 DEF OverviewShape
  <1>2. CASE NextDay \/ (\E d \in Registered : RescanTimesOut(d)) \/ UNCHANGED vars
    BY <1>1, <1>2 DEF NextDay, RescanTimesOut, vars
  <1>3. ASSUME NEW u \in Uploads,
               (\E batch \in Batches : UploadBegins(u, batch)) \/ UploadStep(u) \/ UploadFails(u)
        PROVE  OverviewShape'
    BY <1>1, <1>3 DEF UploadStep, UploadBegins, UploadSkips, UploadReport, UploadEnds, UploadFails
  <1>4. ASSUME NEW s \in Scans,
               (\E d \in Registered : CollectBegins(s, d)) \/ ScanStep(s) \/ CollectFails(s)
        PROVE  OverviewShape'
    BY <1>4, OverviewCollect
  <1>. QED
    BY <1>2, <1>3, <1>4, Zenon DEF Next

\* The findings about sources depend on three fields of the overview, and fewer
\* sources are new when the history is shorter.
LEMMA AboutSourcesOf ==
    ASSUME NEW o, NEW now, NEW f
    PROVE  f \in AboutSources(Findings(o, now)) <=>
             /\ o.hasData
             /\ \/ f \in PerSource("dmarc.spoofing", Spoofing(o.sources))
                \/ f \in PerSource("dmarc.new-source", NewSources(o.sources, now, o.firstSeen))
  <1>1. ASSUME NEW check, NEW holds, f \in Whole(check, holds) PROVE f[1] = check
    <2>1. f = <<check, "">>
      BY <1>1, Zenon DEF Whole
    <2>. QED
      BY <2>1
  <1>2. ASSUME NEW check, NEW sources, f \in PerSource(check, sources) PROVE f[1] = check
    BY <1>2 DEF PerSource
  <1>3. CASE ~o.hasData
    <2>1. Findings(o, now) = Whole("dmarc.no-data", TRUE)
      BY <1>3 DEF Findings
    <2>. QED
      BY <1>1, <1>3, <2>1 DEF AboutSources
  <1>4. CASE o.hasData
    <2>1. PICK a, b, c : Findings(o, now) =
             PerSource("dmarc.spoofing", Spoofing(o.sources))
             \cup PerSource("dmarc.new-source", NewSources(o.sources, now, o.firstSeen))
             \cup Whole("dmarc.policy", a) \cup Whole("dmarc.alignment-drop", b)
             \cup Whole("dmarc.no-reports", c)
      BY <1>4, Zenon DEF Findings
    <2>. QED
      BY <1>1, <1>2, <1>4, <2>1 DEF AboutSources
  <1>. QED
    BY <1>3, <1>4

LEMMA SourcesOfTheMoment ==
    ASSUME NEW o, o.firstSeen \in Nat, NEW t \in Tables, NEW d, NEW now \in Nat,
           HasData(t, d), FirstSeen(t, d) <= o.firstSeen,
           o.sources = Sources(t, d, now - windowLong)
    PROVE  AboutSources(Findings(o, now)) \subseteq Holding(t, d, now)
  <1>. DEFINE first == FirstSeen(t, d)
              srcs == Sources(t, d, now - windowLong)
              h == [NoOverview EXCEPT !.hasData = HasData(t, d), !.firstSeen = first, !.sources = srcs]
  <1>1. first \in Nat /\ first <= o.firstSeen /\ o.sources = srcs
    BY FirstSeenType
  <1>2. Holding(t, d, now) = AboutSources(Findings(h, now))
    BY Zenon DEF Holding
  <1>. HIDE DEF first, srcs
  <1>3. h.hasData /\ h.firstSeen = first /\ h.sources = srcs
    BY DEF NoOverview
  <1>. HIDE DEF h
  <1>4. NewSources(srcs, now, o.firstSeen) \subseteq NewSources(srcs, now, first)
    BY <1>1 DEF NewSources, minHistory
  <1>5. ASSUME NEW f \in AboutSources(Findings(o, now))
        PROVE  f \in AboutSources(Findings(h, now))
    <2>1. \/ f \in PerSource("dmarc.spoofing", Spoofing(h.sources))
          \/ f \in PerSource("dmarc.new-source", NewSources(srcs, now, o.firstSeen))
      BY <1>1, <1>3, AboutSourcesOf
    <2>2. \/ f \in PerSource("dmarc.spoofing", Spoofing(h.sources))
          \/ f \in PerSource("dmarc.new-source", NewSources(h.sources, now, h.firstSeen))
      BY <1>3, <1>4, <2>1 DEF PerSource
    <2>. QED
      BY <1>3, <2>2, AboutSourcesOf
  <1>. QED
    BY <1>2, <1>5

\* Nothing but its own next statement takes an overview further.
LEMMA OnlyReadsAdvance ==
    ASSUME TablesInv, [Next]_vars, NEW s \in Scans, scan[s].pc = "overview",
           scan'[s].pc = "done" \/ scan'[s].n = scan[s].n + 1
    PROVE  CollectReads(s)
  <1>1. /\ scan \in [Scans -> Scan] /\ scan'[s] # scan[s]
        /\ scan[s].n \in 1 .. Statements
    <2>1. scan \in [Scans -> Scan] /\ scan[s].n \in 1 .. Statements
      BY DEF TablesInv, TypeOK, ScanShape
    <2>2. scan[s].n # scan[s].n + 1
      BY <2>1, SixStatements
    <2>. QED
      BY <2>1, <2>2
  <1>2. ~UNCHANGED scan
    BY <1>1
  <1>3. ASSUME NEW q \in Scans, NEW rec, NEW view, PutScan(q, rec, view)
        PROVE  q = s /\ (rec.pc = "done" \/ rec.n = scan[s].n + 1)
    BY <1>1, <1>3 DEF PutScan
  <1>4. ASSUME NEW u \in Uploads, UploadReport(u) PROVE FALSE
    <2>1. PICK stored : scan' = [q \in Scans |-> [scan[q] EXCEPT !.known = @ \ stored]]
      BY <1>4, Zenon DEF UploadReport
    <2>2. scan'[s].pc = scan[s].pc /\ scan'[s].n = scan[s].n
      BY <1>1, <2>1 DEF Scan
    <2>. QED
      BY <1>1, <2>2, SixStatements
  <1>5. ASSUME NEW u \in Uploads,
               (\E batch \in Batches : UploadBegins(u, batch)) \/ UploadStep(u) \/ UploadFails(u)
        PROVE  FALSE
    BY <1>2, <1>4, <1>5 DEF UploadStep, UploadBegins, UploadSkips, UploadEnds, UploadFails
  <1>6. ASSUME NEW q \in Scans,
               (\E d \in Registered : CollectBegins(q, d)) \/ ScanStep(q) \/ CollectFails(q)
        PROVE  CollectReads(s)
    <2>1. q = s
      <3>1. \E rec, view : PutScan(q, rec, view)
        BY <1>6, Zenon DEF ScanStep, CollectBegins, CollectPrunesRows, CollectPrunesReports,
                           CollectReads, CollectFindsNothing, CollectFails, CollectReturns
      <3>. QED
        BY <1>3, <3>1
    <2>2. ASSUME NEW view, PutScan(s, IdleScan, view) PROVE FALSE
      <3>1. IdleScan.pc = "idle" /\ IdleScan.n = 1
        BY DEF IdleScan
      <3>. QED
        BY <1>1, <1>3, <2>2, <3>1, SixStatements
    <2>3. ~CollectFails(s) /\ ~CollectFindsNothing(s)
      BY <2>2 DEF CollectFails, CollectFindsNothing
    <2>4. /\ \A d \in Registered : ~CollectBegins(s, d)
          /\ ~CollectPrunesRows(s) /\ ~CollectPrunesReports(s) /\ ~CollectReturns(s)
      BY DEF CollectBegins, CollectPrunesRows, CollectPrunesReports, CollectReturns
    <2>. QED
      BY <1>6, <2>1, <2>3, <2>4 DEF ScanStep
  <1>7. ~NextDay /\ (\A d \in Registered : ~RescanTimesOut(d)) /\ ~UNCHANGED vars
    BY <1>2 DEF NextDay, RescanTimesOut, vars
  <1>. QED
    BY <1>5, <1>6, <1>7, Zenon DEF Next

\* What it leaves of the overview.
LEMMA OverviewRead ==
    ASSUME TablesInv, NEW s \in Scans, CollectReads(s)
    PROVE  ov'[s] \in Read(scan[s].n, ov[s], tables, scan[s].domain, scan[s].now)
  <1>1. PICK read \in Read(scan[s].n, ov[s], tables, scan[s].domain, scan[s].now) :
           \E rec : PutScan(s, rec, read)
    BY Zenon DEF CollectReads
  <1>2. ov'[s] = read
    BY <1>1 DEF PutScan, TablesInv, TypeOK
  <1>. QED
    BY <1>2

\* The last statement reads the sources of its moment and keeps the history.
LEMMA LastStatement ==
    ASSUME TablesInv, OverviewShape, [Next]_vars, NEW s \in Scans,
           scan[s].pc = "overview", scan[s].n = Statements, scan'[s].pc = "done",
           HasData(tables, scan[s].domain), FirstSeen(tables, scan[s].domain) <= ov'[s].firstSeen
    PROVE  AboutSources(Findings(ov'[s], scan[s].now)) \subseteq Holding(tables, scan[s].domain, scan[s].now)
  <1>1. ov'[s] = [ov[s] EXCEPT !.sources = Sources(tables, scan[s].domain, scan[s].now - windowLong)]
    <2>1. ov'[s] \in Read(scan[s].n, ov[s], tables, scan[s].domain, scan[s].now)
      BY OnlyReadsAdvance, OverviewRead
    <2>. QED
      BY <2>1, SixStatements DEF Read
  <1>2. /\ ov'[s].firstSeen \in Nat
        /\ ov'[s].sources = Sources(tables, scan[s].domain, scan[s].now - windowLong)
    <2>1. DOMAIN ov[s] = DOMAIN NoOverview /\ ov[s].firstSeen \in Nat
      BY DEF OverviewShape
    <2>. QED
      BY <1>1, <2>1 DEF NoOverview
  <1>3. tables \in Tables /\ scan[s].now \in Nat
    BY DEF TablesInv, TypeOK, Scan
  <1>. QED
    BY <1>2, <1>3, SourcesOfTheMoment

\* Reports that are stored while Overview reads never make a finding about a source
\* that the tables do not bear out when it ends, unless the oldest reports were pruned
\* meanwhile (dmarcwatch/sqlite.go, dmarcwatch/dmarcwatch.go).
THEOREM SourceFindingsAlwaysHold == Spec => SourceFindingsHold
  <1>. DEFINE Holds(s) ==
         LET d == scan[s].domain IN
          /\ scan[s].pc = "overview" /\ scan[s].n = Statements /\ scan'[s].pc = "done"
          /\ HasData(tables, d) /\ FirstSeen(tables, d) <= ov'[s].firstSeen
          => AboutSources(Findings(ov'[s], scan[s].now)) \subseteq Holding(tables, d, scan[s].now)
  <1>1. Init => OverviewShape
    BY NoOverviewShape DEF Init, OverviewShape
  <1>2. TablesInv /\ OverviewShape /\ [Next]_vars => [\A s \in Scans : Holds(s)]_vars
    BY LastStatement
  <1>. QED
    BY <1>1, <1>2, TablesInit, TablesStep, OverviewStep, PTL DEF Spec, SourceFindingsHold

----------------------------------------------------------------------------
(***************************************************************************)
(* Sums over a finite set.  The fold of the library is a recursive         *)
(* function over the subsets: it exists (built size by size) and is        *)
(* unique, so that a sum is a number and depends on its summands only.     *)
(***************************************************************************)
\* The equation of the fold over S that takes the elements in the order of pick.
IsSum(F, S, h) ==
    h = [s \in SUBSET S |-> IF s = {} THEN 0 ELSE F[CHOOSE x \in s : TRUE] + h[s \ {CHOOSE x \in s : TRUE}]]

Sums(F, S) == {h \in [SUBSET S -> Nat] : IsSum(F, S, h)}

\* The sums of the subsets of S that have at most n elements, by size z and pick c.
PartSums(S, F, z, c, n) ==
    {h \in [SUBSET S -> Nat] : \A s \in SUBSET S : z[s] <= n =>
        h[s] = IF s = {} THEN 0 ELSE F[c[s]] + h[s \ {c[s]}]}

LEMMA PartSumsExist ==
    ASSUME NEW S, NEW F, \A x \in S : F[x] \in Nat, NEW c, NEW z \in [SUBSET S -> Nat],
           \A s \in SUBSET S : s # {} => c[s] \in s,
           \A s \in SUBSET S : z[s] = 0 <=> s = {},
           \A s \in SUBSET S : s # {} => z[s \ {c[s]}] = z[s] - 1,
           NEW m \in Nat
    PROVE  PartSums(S, F, z, c, m) # {}
  <1>. DEFINE T == {n \in Nat : PartSums(S, F, z, c, n) # {}}
  <1>1. 0 \in T
    <2>. DEFINE h == [s \in SUBSET S |-> 0]
    <2>1. \A s \in SUBSET S : z[s] <= 0 => s = {}
      OBVIOUS
    <2>2. h \in PartSums(S, F, z, c, 0)
      BY <2>1 DEF PartSums
    <2>. QED
      BY <2>2
  <1>2. ASSUME NEW n \in Nat, n \in T PROVE n + 1 \in T
    <2>1. PICK h \in PartSums(S, F, z, c, n) : TRUE
      BY <1>2
    <2>2. /\ h \in [SUBSET S -> Nat]
          /\ \A s \in SUBSET S : z[s] <= n => h[s] = IF s = {} THEN 0 ELSE F[c[s]] + h[s \ {c[s]}]
      BY <2>1 DEF PartSums
    <2>. DEFINE R(s) == IF z[s] = n + 1 THEN F[c[s]] + h[s \ {c[s]}] ELSE h[s]
                e == [s \in SUBSET S |-> R(s)]
    <2>3. ASSUME NEW s \in SUBSET S PROVE R(s) \in Nat
      <3>1. CASE z[s] = n + 1
        <4>1. s # {}
          BY <3>1
        <4>2. c[s] \in S /\ s \ {c[s]} \in SUBSET S
          BY <4>1
        <4>. QED
          BY <2>2, <3>1, <4>2
      <3>2. CASE z[s] # n + 1
        BY <2>2, <3>2
      <3>. QED
        BY <3>1, <3>2
    <2>4. ASSUME NEW s \in SUBSET S, z[s] <= n + 1
          PROVE  R(s) = IF s = {} THEN 0 ELSE F[c[s]] + R(s \ {c[s]})
      <3>1. CASE s = {}
        <4>1. z[s] = 0 /\ z[s] <= n /\ z[s] # n + 1
          BY <3>1
        <4>. QED
          BY <2>2, <3>1, <4>1
      <3>2. CASE s # {}
        <4>1. s \ {c[s]} \in SUBSET S /\ z[s \ {c[s]}] = z[s] - 1 /\ z[s] \in Nat
          BY <3>2
        <4>2. R(s \ {c[s]}) = h[s \ {c[s]}]
          BY <2>4, <4>1
        <4>3. CASE z[s] = n + 1
          BY <3>2, <4>2, <4>3
        <4>4. CASE z[s] # n + 1
          <5>1. z[s] <= n
            BY <2>4, <4>1, <4>4
          <5>2. h[s] = F[c[s]] + h[s \ {c[s]}]
            BY <2>2, <3>2, <5>1
          <5>. QED
            BY <3>2, <4>2, <4>4, <5>2
        <4>. QED
          BY <4>3, <4>4
      <3>. QED
        BY <3>1, <3>2
    <2>. HIDE DEF R
    <2>5. e \in [SUBSET S -> Nat]
      BY <2>3
    <2>6. ASSUME NEW s \in SUBSET S, z[s] <= n + 1
          PROVE  e[s] = IF s = {} THEN 0 ELSE F[c[s]] + e[s \ {c[s]}]
      <3>1. s \ {c[s]} \in SUBSET S
        OBVIOUS
      <3>2. e[s] = R(s) /\ e[s \ {c[s]}] = R(s \ {c[s]})
        BY <3>1
      <3>. QED
        BY <2>4, <2>6, <3>2
    <2>. HIDE DEF e
    <2>7. e \in PartSums(S, F, z, c, n + 1)
      BY <2>5, <2>6 DEF PartSums
    <2>. QED
      BY <2>7
  <1>3. Nat \subseteq T
    <2>1. \A n \in Nat : n \in T => n + 1 \in T
      BY <1>2
    <2>. HIDE DEF T
    <2>. QED
      BY <1>1, <2>1, SetInduction
  <1>. QED
    BY <1>3

LEMMA SumExists ==
    ASSUME NEW S, IsFiniteSet(S), NEW F, \A x \in S : F[x] \in Nat
    PROVE  Sums(F, S) # {}
  <1>. DEFINE c == [s \in SUBSET S |-> CHOOSE x \in s : TRUE]
              z == [s \in SUBSET S |-> Cardinality(s)]
  <1>1. ASSUME NEW s \in SUBSET S, s # {} PROVE c[s] \in s
    BY <1>1, Zenon
  <1>2. ASSUME NEW s \in SUBSET S
        PROVE  z[s] \in Nat /\ (z[s] = 0 <=> s = {})
    <2>1. IsFiniteSet(s)
      BY FS_Subset
    <2>. QED
      BY <2>1, FS_CardinalityType, FS_EmptySet
  <1>3. ASSUME NEW s \in SUBSET S, s # {} PROVE z[s \ {c[s]}] = z[s] - 1
    <2>1. IsFiniteSet(s) /\ s \ {c[s]} \in SUBSET S
      BY FS_Subset
    <2>2. z[s] = Cardinality(s) /\ z[s \ {c[s]}] = Cardinality(s \ {c[s]})
      BY <2>1
    <2>. HIDE DEF z, c
    <2>3. Cardinality(s \ {c[s]}) = Cardinality(s) - 1
      BY <1>1, <1>3, <2>1, FS_RemoveElement, Zenon
    <2>. QED
      BY <2>2, <2>3
  <1>4. z \in [SUBSET S -> Nat]
    BY <1>2
  <1>5. ASSUME NEW s \in SUBSET S PROVE z[s] <= z[S] /\ S \in SUBSET S
    BY FS_Subset
  <1>6. ASSUME NEW s \in SUBSET S PROVE c[s] = CHOOSE x \in s : TRUE
    BY Zenon
  <1>. HIDE DEF c, z
  <1>7. PartSums(S, F, z, c, z[S]) # {}
    BY <1>1, <1>2, <1>3, <1>4, <1>5, PartSumsExist
  <1>8. PICK h \in [SUBSET S -> Nat] : \A s \in SUBSET S : z[s] <= z[S] =>
          h[s] = IF s = {} THEN 0 ELSE F[c[s]] + h[s \ {c[s]}]
    BY <1>7 DEF PartSums
  <1>9. IsSum(F, S, h)
    <2>. DEFINE Q(s) == IF s = {} THEN 0 ELSE F[CHOOSE x \in s : TRUE] + h[s \ {CHOOSE x \in s : TRUE}]
    <2>1. ASSUME NEW s \in SUBSET S PROVE h[s] = Q(s)
      BY <1>5, <1>6, <1>8, Zenon
    <2>. HIDE DEF Q
    <2>2. h = [s \in SUBSET S |-> Q(s)]
      BY <2>1
    <2>. QED
      BY <2>2, Zenon DEF IsSum, Q
  <1>. QED
    BY <1>9, Zenon DEF Sums

\* And no other.
LEMMA SumUnique ==
    ASSUME NEW S, IsFiniteSet(S), NEW F, NEW h, NEW k, IsSum(F, S, h), IsSum(F, S, k)
    PROVE  h[S] = k[S]
  <1>. DEFINE T == {n \in Nat : \A s \in SUBSET S : Cardinality(s) = n => h[s] = k[s]}
  <1>1. 0 \in T
    <2>1. ASSUME NEW s \in SUBSET S, Cardinality(s) = 0 PROVE h[s] = k[s]
      <3>1. s = {}
        BY <2>1, FS_Subset, FS_EmptySet
      <3>. QED
        BY <3>1 DEF IsSum
    <2>. QED
      BY <2>1
  <1>2. ASSUME NEW n \in Nat, n \in T PROVE n + 1 \in T
    <2>1. ASSUME NEW s \in SUBSET S, Cardinality(s) = n + 1 PROVE h[s] = k[s]
      <3>1. IsFiniteSet(s) /\ s # {}
        <4>1. IsFiniteSet(s)
          BY FS_Subset
        <4>2. Cardinality(s) # 0
          BY <2>1
        <4>. QED
          BY <4>1, <4>2, FS_EmptySet
      <3>2. PICK x \in s : x = CHOOSE y \in s : TRUE
        BY <3>1, Zenon
      <3>3. s \ {x} \in SUBSET S /\ Cardinality(s \ {x}) = n
        <4>1. Cardinality(s \ {x}) = Cardinality(s) - 1
          BY <3>1, FS_RemoveElement, Zenon
        <4>. QED
          BY <2>1, <4>1
      <3>4. h[s] = F[x] + h[s \ {x}] /\ k[s] = F[x] + k[s \ {x}]
        BY <3>1, <3>2, Zenon DEF IsSum
      <3>5. h[s \ {x}] = k[s \ {x}]
        BY <1>2, <3>3
      <3>. QED
        BY <3>4, <3>5
    <2>. QED
      BY <2>1
  <1>3. Nat \subseteq T
    <2>1. \A n \in Nat : n \in T => n + 1 \in T
      BY <1>2
    <2>. HIDE DEF T
    <2>. QED
      BY <1>1, <2>1, SetInduction
  <1>4. Cardinality(S) \in Nat /\ S \in SUBSET S
    BY FS_CardinalityType
  <1>. QED
    BY <1>3, <1>4

LEMMA SumFacts ==
    ASSUME NEW S, IsFiniteSet(S), NEW F, \A x \in S : F[x] \in Nat
    PROVE  /\ Total(F, S) \in Nat
           /\ \A h : IsSum(F, S, h) => Total(F, S) = h[S]
  <1>1. PICK h \in [SUBSET S -> Nat] : IsSum(F, S, h)
    <2>1. Sums(F, S) # {}
      BY SumExists
    <2>. QED
      BY <2>1, Zenon DEF Sums
  <1>2. PICK k : IsSum(F, S, k) /\ Total(F, S) = k[S]
    BY <1>1, Zenon DEF IsSum, Total, MapThenSumSet, MapThenFoldSet
  <1>3. \A g : IsSum(F, S, g) => k[S] = g[S]
    BY <1>2, SumUnique
  <1>4. h[S] \in Nat
    OBVIOUS
  <1>. QED
    BY <1>1, <1>2, <1>3, <1>4

\* Sums depend on the values of the summands only.
LEMMA SameSum ==
    ASSUME NEW S, IsFiniteSet(S), NEW F, NEW G, \A x \in S : F[x] = G[x] /\ F[x] \in Nat
    PROVE  Total(F, S) = Total(G, S)
  <1>1. PICK h : IsSum(F, S, h)
    <2>1. Sums(F, S) # {}
      BY SumExists
    <2>. QED
      BY <2>1, Zenon DEF Sums
  <1>. DEFINE P(s) == IF s = {} THEN 0 ELSE F[CHOOSE x \in s : TRUE] + h[s \ {CHOOSE x \in s : TRUE}]
              Q(s) == IF s = {} THEN 0 ELSE G[CHOOSE x \in s : TRUE] + h[s \ {CHOOSE x \in s : TRUE}]
  <1>2. ASSUME NEW s \in SUBSET S PROVE P(s) = Q(s)
    <2>1. s # {} => (CHOOSE x \in s : TRUE) \in S
      BY Zenon
    <2>2. s # {} => F[CHOOSE x \in s : TRUE] = G[CHOOSE x \in s : TRUE]
      BY <2>1, Zenon
    <2>. QED
      BY <2>2, Zenon
  <1>3. h = [s \in SUBSET S |-> P(s)]
    BY <1>1, Zenon DEF IsSum
  <1>4. h = [s \in SUBSET S |-> Q(s)]
    <2>. HIDE DEF P, Q
    <2>. QED
      BY <1>2, <1>3
  <1>5. IsSum(G, S, h)
    BY <1>4, Zenon DEF IsSum
  <1>. QED
    BY <1>1, <1>5, SumFacts

----------------------------------------------------------------------------
\* The messages of a report are a number.
LEMMA ReportTotals ==
    ASSUME NEW r \in Reports
    PROVE  Aligned[r] \in Nat /\ Failing[r] \in Nat
  <1>. DEFINE sent == Content[r].sent
              al == [ip \in DOMAIN sent |-> sent[ip].aligned]
              fa == [ip \in DOMAIN sent |-> sent[ip].failing]
  <1>1. /\ IsFiniteSet(DOMAIN sent)
        /\ \A ip \in DOMAIN sent : sent[ip] \in [aligned : Nat, failing : Nat]
    BY CollectorAssumption DEF IsContent
  <1>2. Aligned[r] = Total(al, DOMAIN sent) /\ Failing[r] = Total(fa, DOMAIN sent)
    BY Zenon DEF Aligned, Failing
  <1>. HIDE DEF sent
  <1>3. \A ip \in DOMAIN sent : al[ip] \in Nat /\ fa[ip] \in Nat
    BY <1>1
  <1>. HIDE DEF al, fa
  <1>. QED
    BY <1>1, <1>2, <1>3, SumFacts

\* Within the retention period the rows are those of the stored reports, once each.
LEMMA WindowRows ==
    ASSUME TablesInv, NEW d, NEW from \in Int, from >= clock - pruneAfter
    PROVE  /\ RowsSince(tables, d, from) = Stored(d, from)
           /\ Stored(d, from) \in SUBSET Reports
           /\ \A r \in Stored(d, from) : tables.rows[r] = 1
  <1>1. tables.reports \in SUBSET Reports /\ clock \in Nat /\ pruneAfter = 396
    BY ReportsAssumption DEF TablesInv, TypeOK, Tables, pruneAfter
  <1>2. ASSUME NEW r \in Reports, Content[r].end >= from
        PROVE  tables.rows[r] = IF r \in tables.reports THEN 1 ELSE 0
    <2>1. Content[r].end >= clock - pruneAfter
      BY <1>1, <1>2, ContentEnds
    <2>. QED
      BY <2>1 DEF TablesInv, CountedOnce
  <1>. QED
    BY <1>1, <1>2 DEF RowsSince, RowsOf, Stored, ReportsOf

\* What the statements on dmarc_rows sum up.
LEMMA WindowTotals ==
    ASSUME TablesInv, NEW d, NEW from \in Int, from >= clock - pruneAfter
    PROVE  /\ AlignedMsgs(tables, d, from) = Total(Aligned, Stored(d, from))
           /\ Msgs(tables, d, from) = Total(Aligned, Stored(d, from)) + Total(Failing, Stored(d, from))
  <1>. DEFINE S == Stored(d, from)
              al == [r \in Reports |-> tables.rows[r] * Aligned[r]]
              fa == [r \in Reports |-> tables.rows[r] * Failing[r]]
  <1>1. RowsSince(tables, d, from) = S /\ S \in SUBSET Reports /\ \A r \in S : tables.rows[r] = 1
    BY WindowRows
  <1>2. /\ AlignedMsgs(tables, d, from) = Total(al, S)
        /\ Msgs(tables, d, from) = Total(al, S) + Total(fa, S)
    BY <1>1, Zenon DEF AlignedMsgs, Msgs
  <1>3. IsFiniteSet(S)
    BY <1>1, CollectorAssumption, FS_Subset
  <1>. HIDE DEF S
  <1>4. ASSUME NEW r \in S
        PROVE  al[r] = Aligned[r] /\ al[r] \in Nat /\ fa[r] = Failing[r] /\ fa[r] \in Nat
    <2>1. r \in Reports /\ tables.rows[r] = 1 /\ Aligned[r] \in Nat /\ Failing[r] \in Nat
      BY <1>1, ReportTotals
    <2>2. al[r] = tables.rows[r] * Aligned[r] /\ fa[r] = tables.rows[r] * Failing[r]
      BY <2>1
    <2>. HIDE DEF al, fa
    <2>. QED
      BY <2>1, <2>2
  <1>. HIDE DEF al, fa
  <1>5. Total(al, S) = Total(Aligned, S) /\ Total(fa, S) = Total(Failing, S)
    BY <1>3, <1>4, SameSum
  <1>. QED
    BY <1>2, <1>5 DEF S

\* The fourth and the fifth statement read them.
LEMMA TotalsRead ==
    ASSUME TablesInv, OverviewShape, [Next]_vars, NEW s \in Scans,
           scan[s].pc = "overview", scan[s].n \in {4, 5}, scan'[s].n = scan[s].n + 1,
           scan[s].now - windowLong >= clock - pruneAfter
    PROVE  LET d == scan[s].domain
               from == IF scan[s].n = 4 THEN scan[s].now - windowLong ELSE scan[s].now - windowRecent
               al == Total(Aligned, Stored(d, from))
               fa == Total(Failing, Stored(d, from))
           IN /\ scan[s].n = 4 => ov'[s].aligned30 = al /\ ov'[s].msgs30 = al + fa
              /\ scan[s].n = 5 => ov'[s].aligned7 = al /\ ov'[s].msgs7 = al + fa
  <1>. DEFINE d == scan[s].domain
              from == IF scan[s].n = 4 THEN scan[s].now - windowLong ELSE scan[s].now - windowRecent
              aligned == AlignedMsgs(tables, d, from)
              msgs == Msgs(tables, d, from)
  <1>1. ov'[s] \in Read(scan[s].n, ov[s], tables, scan[s].domain, scan[s].now)
    BY OnlyReadsAdvance, OverviewRead
  <1>2. scan[s].now \in Nat /\ clock \in Nat /\ windowLong = 30 /\ windowRecent = 7 /\ pruneAfter = 396
    BY ReportsAssumption DEF TablesInv, TypeOK, Scan, windowLong, windowRecent, pruneAfter
  <1>3. from \in Int /\ from >= clock - pruneAfter
    BY <1>2
  <1>4. DOMAIN ov[s] = {"hasData", "policy", "firstSeen", "lastEnd", "orgs30",
                        "msgs30", "aligned30", "msgs7", "aligned7", "sources"}
    BY DEF OverviewShape, NoOverview
  <1>5. CASE scan[s].n = 4
    <2>1. ov'[s] = [ov[s] EXCEPT !.msgs30 = msgs, !.aligned30 = aligned]
      BY <1>1, <1>5 DEF Read
    <2>. HIDE DEF msgs, aligned
    <2>2. ov'[s].msgs30 = msgs /\ ov'[s].aligned30 = aligned
      BY <1>4, <2>1
    <2>. QED
      BY <1>3, <1>5, <2>2, WindowTotals DEF msgs, aligned
  <1>6. CASE scan[s].n = 5
    <2>1. ov'[s] = [ov[s] EXCEPT !.msgs7 = msgs, !.aligned7 = aligned]
      BY <1>1, <1>6 DEF Read
    <2>. HIDE DEF msgs, aligned
    <2>2. ov'[s].msgs7 = msgs /\ ov'[s].aligned7 = aligned
      BY <1>4, <2>1
    <2>. QED
      BY <1>3, <1>6, <2>2, WindowTotals DEF msgs, aligned
  <1>. QED
    BY <1>5, <1>6

\* The totals of every collect are those of the stored reports, each summed up once
\* (SQLiteStore.Overview, PutReport and Prune in dmarcwatch/sqlite.go).
THEOREM TotalsAlwaysExact == Spec => TotalsAreExact
  <1>. DEFINE Exact(s) ==
          LET d == scan[s].domain
              long == scan[s].now - windowLong
              recent == scan[s].now - windowRecent
          IN scan[s].pc = "overview" /\ long >= clock - pruneAfter =>
             /\ scan[s].n = 4 /\ scan'[s].n = 5 =>
                   /\ ov'[s].aligned30 = Total(Aligned, Stored(d, long))
                   /\ ov'[s].msgs30 = Total(Aligned, Stored(d, long)) + Total(Failing, Stored(d, long))
             /\ scan[s].n = 5 /\ scan'[s].n = 6 =>
                   /\ ov'[s].aligned7 = Total(Aligned, Stored(d, recent))
                   /\ ov'[s].msgs7 = Total(Aligned, Stored(d, recent)) + Total(Failing, Stored(d, recent))
  <1>1. Init => OverviewShape
    BY NoOverviewShape DEF Init, OverviewShape
  <1>2. TablesInv /\ OverviewShape /\ [Next]_vars => [\A s \in Scans : Exact(s)]_vars
    BY TotalsRead
  <1>. QED
    BY <1>1, <1>2, TablesInit, TablesStep, OverviewStep, PTL DEF Spec, TotalsAreExact

=============================================================================
