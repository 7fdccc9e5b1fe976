------------------------------ MODULE Reports ------------------------------
(***************************************************************************)
(* Report uploads (dmarcwatch/console.go), the report tables               *)
(* (dmarcwatch/sqlite.go) and the collects that prune and read them        *)
(* (Collector.Collect), one action per transaction or statement.           *)
(*                                                                         *)
(* What the engine does with the findings is module Reconcile.             *)
(***************************************************************************)
EXTENDS Collector

CONSTANTS
    Batches,    \* the files of an upload, as the sequence of their members: each
                \* a report or NotAReport (a file is one member unless it is a ZIP)
    NotAReport,
    Registered, \* targets of the scheduler (module Targets changes them)
    Uploads,    \* upload requests served at once
    Scans,      \* collects running at once
    Days,       \* days on which something happens
    MaxFaults   \* bound: store errors and cancelled collects

ASSUME ReportsAssumption ==
    /\ NotAReport \notin Reports
    /\ \A b \in Batches : b \in Seq(Reports \cup {NotAReport})
    /\ Days \subseteq Nat
    /\ Registered \subseteq Domains /\ Registered # {}
    /\ MaxFaults \in Nat

VARIABLES
    clock,      \* today
    tables,     \* dmarc_reports and dmarc_rows
    upload,     \* handleUpload of every request
    scan,       \* Collect of every scan
    ov,         \* its overview
    rescan,     \* domains that an OnIngest goroutine has yet to scan
    owed,       \* observer: stored reports that a collect has yet to read
    faults

vars == <<clock, tables, upload, scan, ov, rescan, owed, faults>>

----------------------------------------------------------------------------
Upload == [pc : {"idle", "storing"}, todo : Seq(Reports \cup {NotAReport}), stored : SUBSET Reports]
IdleUpload == [pc |-> "idle", todo |-> <<>>, stored |-> {}]

\* n: the statement of Overview that comes next; known: reports it owed to read
\* when it began to.
Scan == [pc : {"idle", "pruneRows", "pruneReports", "overview", "done"},
         domain : Registered, now : Nat, n : 1 .. Statements + 1, known : SUBSET Reports]

Put(u, rec) == upload' = [upload EXCEPT ![u] = rec]
PutScan(s, rec, view) == scan' = [scan EXCEPT ![s] = rec] /\ ov' = [ov EXCEPT ![s] = view]

\* The horizon of Prune for a collect.
Cut(s) == scan[s].now - pruneAfter

\* ParseFile: a member of a ZIP that does not parse, or is too large, is left out alone.
Parses(m) == m # NotAReport

\* A report of a target's domain.
Storable(m) == Parses(m) /\ Content[m].domain \in Registered

\* INSERT OR IGNORE finds the primary key taken.
Duplicate(r) == \E q \in tables.reports : Content[q].key = Content[r].key

----------------------------------------------------------------------------
\* Faulty forms of definitions below, each a slip the code could have made.
PutReportAgain(r) == [tables EXCEPT !.reports = @ \cup {r}, !.rows[r] = @ + 1]
PutReportRowsAnyway(r) ==
    [tables EXCEPT !.reports = IF Duplicate(r) THEN @ ELSE @ \cup {r}, !.rows[r] = @ + 1]
UploadSkipsTouching(u) ==
    /\ upload[u].pc = "storing" /\ upload[u].todo # <<>>
    /\ ~Storable(Head(upload[u].todo))
    /\ Put(u, [upload[u] EXCEPT !.todo = Tail(@), !.stored = @ \cup {Head(upload[u].todo)}])
    /\ UNCHANGED <<clock, tables, scan, ov, rescan, owed, faults>>
UploadEndsForBatches(u) ==
    /\ upload[u].pc = "storing" /\ upload[u].todo = <<>>
    /\ rescan' = IF Cardinality(upload[u].stored) < 2 THEN rescan ELSE Registered
    /\ Put(u, IdleUpload)
    /\ UNCHANGED <<clock, tables, scan, ov, owed, faults>>

----------------------------------------------------------------------------
\* PutReport in its transaction: the report and its records, or nothing.
PutReport(r) ==
    IF Duplicate(r) THEN tables
    ELSE [tables EXCEPT !.reports = @ \cup {r}, !.rows[r] = @ + 1]

\* Prune's two statements.
PruneRows(cut) == [tables EXCEPT !.rows = [r \in Reports |-> IF Content[r].end < cut THEN 0 ELSE @[r]]]
PruneReports(cut) == [tables EXCEPT !.reports = {r \in @ : Content[r].end >= cut}]

IdleScan == [pc |-> "idle", domain |-> CHOOSE d \in Registered : TRUE, now |-> 0, n |-> 1, known |-> {}]

Init ==
    /\ clock \in Days
    /\ tables = [reports |-> {}, rows |-> [r \in Reports |-> 0]]
    /\ upload = [u \in Uploads |-> IdleUpload]
    /\ scan = [s \in Scans |-> IdleScan]
    /\ ov = [s \in Scans |-> NoOverview]
    /\ rescan = {}
    /\ owed = {}
    /\ faults = 0

----------------------------------------------------------------------------
\* Time passes.
NextDay ==
    /\ \E day \in Days : clock' = day /\ day > clock
    /\ UNCHANGED <<tables, upload, scan, ov, rescan, owed, faults>>

\* handleUpload up to the loop.
UploadBegins(u, batch) ==
    /\ upload[u].pc = "idle"
    /\ Put(u, [pc |-> "storing", stored |-> {}, todo |-> batch])
    /\ UNCHANGED <<clock, tables, scan, ov, rescan, owed, faults>>

\* ParseFile leaves out a member that does not parse, or handleUpload the file if
\* none does; handleUpload skips a report of a domain that is not a target.
UploadSkips(u) ==
    /\ upload[u].pc = "storing" /\ upload[u].todo # <<>>
    /\ ~Storable(Head(upload[u].todo))
    /\ Put(u, [upload[u] EXCEPT !.todo = Tail(@)])
    /\ UNCHANGED <<clock, tables, scan, ov, rescan, owed, faults>>

\* handleUpload: PutReport, stored or a duplicate.
UploadReport(u) ==
    LET r == Head(upload[u].todo)
        stored == IF Duplicate(r) THEN {} ELSE {r}
    IN /\ upload[u].pc = "storing" /\ upload[u].todo # <<>>
       /\ Storable(r)
       /\ tables' = PutReport(r)
       /\ owed' = owed \cup stored
       /\ scan' = [s \in Scans |-> [scan[s] EXCEPT !.known = @ \ stored]]
       /\ Put(u, [upload[u] EXCEPT !.todo = Tail(@), !.stored = @ \cup stored])
       /\ UNCHANGED <<clock, ov, rescan, faults>>

\* PutReport fails: 500, and no OnIngest for what was stored before.
UploadFails(u) ==
    /\ upload[u].pc = "storing" /\ upload[u].todo # <<>>
    /\ Storable(Head(upload[u].todo))
    /\ faults < MaxFaults /\ faults' = faults + 1
    /\ owed' = owed \ upload[u].stored
    /\ Put(u, IdleUpload)
    /\ UNCHANGED <<clock, tables, scan, ov, rescan>>

\* handleUpload after the loop: OnIngest, whose ScanNow scans every target.
UploadEnds(u) ==
    /\ upload[u].pc = "storing" /\ upload[u].todo = <<>>
    /\ rescan' = IF upload[u].stored = {} THEN rescan ELSE Registered
    /\ Put(u, IdleUpload)
    /\ UNCHANGED <<clock, tables, scan, ov, owed, faults>>

----------------------------------------------------------------------------
\* Collect begins, for a sweep or for a rescan.
CollectBegins(s, d) ==
    /\ scan[s].pc = "idle"
    /\ rescan' = rescan \ {d}
    /\ PutScan(s, [IdleScan EXCEPT !.pc = "pruneRows", !.domain = d, !.now = clock], NoOverview)
    /\ UNCHANGED <<clock, tables, upload, owed, faults>>

\* The two minutes of an OnIngest goroutine pass before its scan has a slot.
RescanTimesOut(d) ==
    /\ d \in rescan
    /\ faults < MaxFaults /\ faults' = faults + 1
    /\ rescan' = rescan \ {d}
    /\ owed' = {r \in owed : Content[r].domain # d}
    /\ UNCHANGED <<clock, tables, upload, scan, ov>>

\* Prune: its errors are ignored, but the first one skips the second statement.
CollectPrunesRows(s) ==
    /\ scan[s].pc = "pruneRows"
    /\ \/ /\ tables' = PruneRows(Cut(s))
          /\ PutScan(s, [scan[s] EXCEPT !.pc = "pruneReports"], ov[s])
          /\ UNCHANGED faults
       \/ /\ faults < MaxFaults /\ faults' = faults + 1
          /\ PutScan(s, [scan[s] EXCEPT !.pc = "overview"], ov[s])
          /\ UNCHANGED tables
    /\ UNCHANGED <<clock, upload, rescan, owed>>

CollectPrunesReports(s) ==
    /\ scan[s].pc = "pruneReports"
    /\ \/ tables' = PruneReports(Cut(s)) /\ UNCHANGED faults
       \/ faults < MaxFaults /\ faults' = faults + 1 /\ UNCHANGED tables
    /\ owed' = owed \cap tables'.reports
    /\ PutScan(s, [scan[s] EXCEPT !.pc = "overview"], ov[s])
    /\ UNCHANGED <<clock, upload, rescan>>

\* The next statement of Overview.  Without data the first is the last.
CollectReads(s) ==
    LET n == scan[s].n
        d == scan[s].domain
        last == n = Statements \/ (n = 1 /\ ~HasData(tables, d))
    IN /\ scan[s].pc = "overview"
       /\ \E read \in Read(n, ov[s], tables, d, scan[s].now) :
             PutScan(s, [scan[s] EXCEPT !.n = n + 1,
                                        !.pc = IF last THEN "done" ELSE "overview",
                                        !.known = IF n = 1 THEN owed \cap ReportsOf(tables, d) ELSE @], read)
       /\ UNCHANGED <<clock, tables, upload, rescan, owed, faults>>

\* The second statement finds no row, as the last report was pruned: an error.
CollectFindsNothing(s) ==
    /\ scan[s].pc = "overview" /\ scan[s].n = 2
    /\ ~HasData(tables, scan[s].domain)
    /\ PutScan(s, IdleScan, NoOverview)
    /\ UNCHANGED <<clock, tables, upload, rescan, owed, faults>>

\* A statement fails or the context is cancelled: Collect returns an error.
CollectFails(s) ==
    /\ scan[s].pc \in {"overview", "done"}
    /\ faults < MaxFaults /\ faults' = faults + 1
    /\ owed' = {r \in owed : Content[r].domain # scan[s].domain}
    /\ PutScan(s, IdleScan, NoOverview)
    /\ UNCHANGED <<clock, tables, upload, rescan>>

\* Collect returns its findings.
CollectReturns(s) ==
    /\ scan[s].pc = "done"
    /\ owed' = owed \ scan[s].known
    /\ PutScan(s, IdleScan, NoOverview)
    /\ UNCHANGED <<clock, tables, upload, rescan, faults>>

UploadStep(u) == UploadSkips(u) \/ UploadReport(u) \/ UploadEnds(u)
ScanStep(s) ==
    \/ CollectPrunesRows(s) \/ CollectPrunesReports(s)
    \/ CollectReads(s) \/ CollectFindsNothing(s) \/ CollectReturns(s)

Next ==
    \/ NextDay
    \/ \E d \in Registered : RescanTimesOut(d)
    \/ \E u \in Uploads :
         \/ \E batch \in Batches : UploadBegins(u, batch)
         \/ UploadStep(u) \/ UploadFails(u)
    \/ \E s \in Scans :
         \/ \E d \in Registered : CollectBegins(s, d)
         \/ ScanStep(s) \/ CollectFails(s)

Spec == Init /\ [][Next]_vars

----------------------------------------------------------------------------
\* The shape of the state.
TypeOK ==
    /\ clock \in Days
    /\ tables \in Tables
    /\ upload \in [Uploads -> Upload]
    /\ scan \in [Scans -> Scan]
    /\ DOMAIN ov = Scans
    /\ rescan \in SUBSET Registered
    /\ owed \in SUBSET Reports
    /\ faults \in 0 .. MaxFaults

\* Within the retention period the messages of a report are counted exactly once
\* if it is stored and not at all otherwise, and no report is stored twice: also
\* when it is uploaded by two requests at once, again after an error, or while a
\* collect prunes ("false means it was a duplicate and nothing changed").
CountedOnce ==
    /\ \A q, r \in tables.reports : Content[q].key = Content[r].key => q = r
    /\ \A r \in Reports : Content[r].end >= clock - pruneAfter =>
          tables.rows[r] = IF r \in tables.reports THEN 1 ELSE 0

\* The reports of a domain in dmarc_reports that end in a window.
Stored(d, from) == {r \in ReportsOf(tables, d) : Content[r].end >= from}

\* The totals that a collect sums up over dmarc_rows, in either window, are those of
\* the reports that dmarc_reports holds at that moment, each summed up once: uploads
\* beside it, resent reports and the two statements of another collect's Prune never
\* set the tables apart within a window.  (No collect runs for the year or more in
\* which its window could pass the horizon of Prune.)
TotalsAreExact ==
    [][\A s \in Scans :
          LET d == scan[s].domain
              long == scan[s].now - windowLong
              recent == scan[s].now - windowRecent
          IN scan[s].pc = "overview" /\ long >= clock - pruneAfter =>
             /\ scan[s].n = 4 /\ scan'[s].n = 5 =>
                   /\ ov'[s].aligned30 = Total(Aligned, Stored(d, long))
                   /\ ov'[s].msgs30 = Total(Aligned, Stored(d, long)) + Total(Failing, Stored(d, long))
             /\ scan[s].n = 5 /\ scan'[s].n = 6 =>
                   /\ ov'[s].aligned7 = Total(Aligned, Stored(d, recent))
                   /\ ov'[s].msgs7 = Total(Aligned, Stored(d, recent)) + Total(Failing, Stored(d, recent))]_vars

\* Findings about one source.
AboutSources(found) == {f \in found : f[1] \in {"dmarc.spoofing", "dmarc.new-source"}}

\* What a collect that reads the tables of one moment finds about sources.
Holding(t, d, now) ==
    AboutSources(Findings([NoOverview EXCEPT !.hasData = HasData(t, d), !.firstSeen = FirstSeen(t, d),
                                             !.sources = Sources(t, d, now - windowLong)], now))

\* Reports stored while a collect reads can tear its overview, but never its
\* findings about a source: when Overview ends they hold on the tables of that
\* moment, unless the oldest reports were pruned while it read.
SourceFindingsHold ==
    [][\A s \in Scans : LET d == scan[s].domain IN
          /\ scan[s].pc = "overview" /\ scan[s].n = Statements /\ scan'[s].pc = "done"
          /\ HasData(tables, d) /\ FirstSeen(tables, d) <= ov'[s].firstSeen
          => AboutSources(Findings(ov'[s], scan[s].now)) \subseteq Holding(tables, d, scan[s].now)]_vars

\* A report that an upload stored is never forgotten by the rescan: until a whole
\* collect has read it, its upload is still to end, or a rescan of its domain is
\* still to begin, or a collect that has read it or will read it is under way.
\* (Nothing is owed for an upload or a collect that failed, or a rescan that timed
\* out: the next sweep reads those.)
RescanFollows ==
    \A r \in owed :
        \/ \E u \in Uploads : r \in upload[u].stored
        \/ Content[r].domain \in rescan
        \/ \E s \in Scans :
              /\ scan[s].domain = Content[r].domain
              /\ \/ scan[s].pc \in {"pruneRows", "pruneReports"}
                 \/ scan[s].pc = "overview" /\ scan[s].n = 1
                 \/ r \in scan[s].known

============================================================================
