----------------------------- MODULE Collector -----------------------------
(***************************************************************************)
(* The aggregate queries of dmarcwatch/sqlite.go and the finding rules of  *)
(* dmarcwatch/dmarcwatch.go, as operators over the two report tables.      *)
(*                                                                         *)
(* Time is counted in days.  Percentages are compared as fractions; the    *)
(* code compares floats, which differ at most in the last digit.           *)
(***************************************************************************)
EXTENDS Integers, Sequences, FiniteSets, FiniteSetsExt

CONSTANTS
    Domains,
    Reports,    \* reports that may ever be uploaded
    Content     \* what is in each

\* dmarcrep.Report: sent[ip] counts the messages of a source that are aligned
\* and that fail both mechanisms.
IsContent(c) ==
    /\ DOMAIN c = {"key", "domain", "org", "begin", "end", "policy", "sent"}
    /\ c.begin \in Nat /\ c.end \in Nat
    /\ c.policy \in {"none", "", "quarantine", "reject"}
    /\ IsFiniteSet(DOMAIN c.sent)
    /\ \A ip \in DOMAIN c.sent : c.sent[ip] \in [aligned : Nat, failing : Nat]

ASSUME CollectorAssumption ==
    /\ IsFiniteSet(Reports)
    /\ DOMAIN Content = Reports
    /\ \A r \in Reports : IsContent(Content[r])

----------------------------------------------------------------------------
\* Thresholds.
windowLong == 30
windowRecent == 7
minHistory == 14
spoofMinMsgs == 10
spoofMinFailPct == 90
newSourceMin == 5
readyMinMsgs == 100
readyMinOrgs == 2
readyAlignedPct == 98
dropPoints == 10
dropMinMsgs == 50
staleAfter == 7
pruneAfter == 396

----------------------------------------------------------------------------
\* dmarc_reports, and how many times the records of a report are in dmarc_rows.
Tables == [reports : SUBSET Reports, rows : [Reports -> Nat]]

\* WHERE domain=? on either table.
ReportsOf(t, d) == {r \in t.reports : Content[r].domain = d}
RowsOf(t, d) == {r \in Reports : Content[r].domain = d /\ t.rows[r] > 0}
RowsSince(t, d, from) == {r \in RowsOf(t, d) : Content[r].end >= from}

\* SUM.
Total(f, S) == MapThenSumSet(LAMBDA x : f[x], S)

\* SUM(cnt) over the rows of each report: aligned, and failing both mechanisms.
Aligned == [r \in Reports |-> LET sent == Content[r].sent IN
              Total([ip \in DOMAIN sent |-> sent[ip].aligned], DOMAIN sent)]
Failing == [r \in Reports |-> LET sent == Content[r].sent IN
              Total([ip \in DOMAIN sent |-> sent[ip].failing], DOMAIN sent)]

\* The columns that the statements of Overview select.
HasData(t, d) == ReportsOf(t, d) # {}
FirstSeen(t, d) == Min({Content[r].begin : r \in ReportsOf(t, d)})
LastEnd(t, d) == Max({Content[r].end : r \in ReportsOf(t, d)})
\* ORDER BY end_at DESC LIMIT 1: any of the latest.
Policies(t, d) == {Content[r].policy : r \in {q \in ReportsOf(t, d) : Content[q].end = LastEnd(t, d)}}
Orgs(t, d, from) == Cardinality({Content[r].org : r \in {q \in ReportsOf(t, d) : Content[q].end >= from}})
AlignedMsgs(t, d, from) == Total([r \in Reports |-> t.rows[r] * Aligned[r]], RowsSince(t, d, from))
Msgs(t, d, from) ==
    AlignedMsgs(t, d, from) + Total([r \in Reports |-> t.rows[r] * Failing[r]], RowsSince(t, d, from))
Sources(t, d, from) ==
    LET With(ip, rows) == {r \in rows : ip \in DOMAIN Content[r].sent}
        since == RowsSince(t, d, from)
    IN {[ip |-> ip,
         aligned |-> Total([r \in With(ip, since) |-> t.rows[r] * Content[r].sent[ip].aligned], With(ip, since)),
         failBoth |-> Total([r \in With(ip, since) |-> t.rows[r] * Content[r].sent[ip].failing], With(ip, since)),
         firstEver |-> Min({Content[r].begin : r \in With(ip, RowsOf(t, d))})]
           : ip \in UNION {DOMAIN Content[r].sent : r \in since}}

\* An overview before its first statement.
NoOverview ==
    [hasData |-> FALSE, policy |-> "", firstSeen |-> 0, lastEnd |-> 0, orgs30 |-> 0,
     msgs30 |-> 0, aligned30 |-> 0, msgs7 |-> 0, aligned7 |-> 0, sources |-> {}]

\* A faulty form of Read: the sources are read first and the history last.
Statements == 6
ReadSourcesFirst(n, ov, t, d, now) ==
    LET long == now - windowLong
        recent == now - windowRecent
    IN CASE n = 1 -> {IF HasData(t, d)
                      THEN [ov EXCEPT !.hasData = TRUE, !.lastEnd = LastEnd(t, d), !.sources = Sources(t, d, long)]
                      ELSE ov}
         [] n = 2 -> {[ov EXCEPT !.policy = p] : p \in Policies(t, d)}
         [] n = 3 -> {[ov EXCEPT !.orgs30 = Orgs(t, d, long)]}
         [] n = 4 -> {[ov EXCEPT !.msgs30 = Msgs(t, d, long), !.aligned30 = AlignedMsgs(t, d, long)]}
         [] n = 5 -> {[ov EXCEPT !.msgs7 = Msgs(t, d, recent), !.aligned7 = AlignedMsgs(t, d, recent)]}
         [] n = 6 -> {[ov EXCEPT !.firstSeen = IF HasData(t, d) THEN FirstSeen(t, d) ELSE 0]}

\* The overview ov after statement n on the tables t: all that it may become.
Read(n, ov, t, d, now) ==
    LET long == now - windowLong
        recent == now - windowRecent
    IN CASE n = 1 -> {IF HasData(t, d)
                      THEN [ov EXCEPT !.hasData = TRUE, !.firstSeen = FirstSeen(t, d), !.lastEnd = LastEnd(t, d)]
                      ELSE ov}
         [] n = 2 -> {[ov EXCEPT !.policy = p] : p \in Policies(t, d)}
         [] n = 3 -> {[ov EXCEPT !.orgs30 = Orgs(t, d, long)]}
         [] n = 4 -> {[ov EXCEPT !.msgs30 = Msgs(t, d, long), !.aligned30 = AlignedMsgs(t, d, long)]}
         [] n = 5 -> {[ov EXCEPT !.msgs7 = Msgs(t, d, recent), !.aligned7 = AlignedMsgs(t, d, recent)]}
         [] n = 6 -> {[ov EXCEPT !.sources = Sources(t, d, long)]}

----------------------------------------------------------------------------
\* The rules.  pct(part, total) >= limit is a product; pct(_, 0) is 0.
AtLeastPct(part, total, limit) == total > 0 /\ 100 * part >= limit * total

Spoofing(sources) ==
    {s \in sources : /\ s.failBoth >= spoofMinMsgs
                     /\ AtLeastPct(s.failBoth, s.aligned + s.failBoth, spoofMinFailPct)}

NewSources(sources, now, first) ==
    {s \in sources : /\ now - first >= minHistory
                     /\ s.firstEver >= now - windowRecent
                     /\ s.aligned + s.failBoth >= newSourceMin
                     /\ s.aligned > 0}

Ready(msgs, aligned, orgs) ==
    msgs >= readyMinMsgs /\ orgs >= readyMinOrgs /\ AtLeastPct(aligned, msgs, readyAlignedPct)

Dropped(msgs7, aligned7, msgs30, aligned30) ==
    /\ msgs7 >= dropMinMsgs /\ msgs30 > msgs7
    /\ 100 * (aligned30 * msgs7 - aligned7 * msgs30) >= dropPoints * msgs30 * msgs7

Stale(now, last) == now - last >= staleAfter

\* Fingerprint: check and discriminator, for one module and one target.
Whole(check, holds) == IF holds THEN {<<check, "">>} ELSE {}
PerSource(check, sources) == {<<check, s.ip>> : s \in sources}

\* Collect's findings on an overview.
Findings(ov, now) ==
    LET ready == Ready(ov.msgs30, ov.aligned30, ov.orgs30) IN
    IF ~ov.hasData THEN Whole("dmarc.no-data", TRUE)
    ELSE PerSource("dmarc.spoofing", Spoofing(ov.sources))
         \cup PerSource("dmarc.new-source", NewSources(ov.sources, now, ov.firstSeen))
         \cup Whole("dmarc.policy", ov.policy \in {"none", ""} \/ (ov.policy = "quarantine" /\ ready))
         \cup Whole("dmarc.alignment-drop", Dropped(ov.msgs7, ov.aligned7, ov.msgs30, ov.aligned30))
         \cup Whole("dmarc.no-reports", Stale(now, ov.lastEnd))

=============================================================================
