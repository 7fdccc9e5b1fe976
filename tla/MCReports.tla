------------------------------ MODULE MCReports ------------------------------
\* Instances of uploads and collects for TLC.
EXTENDS Reports, TLC

CONSTANTS d1, d2, old, week, again, other, u1, s1, s2, bad

Report(key, domain, org, begin, end, policy, sent) ==
    [key |-> key, domain |-> domain, org |-> org, begin |-> begin, end |-> end, policy |-> policy,
     sent |-> sent]
From(aligned, failing) == [aligned |-> aligned, failing |-> failing]

\* old is within the retention period on day 397 and past it on day 400.  Beside it
\* source a of week is known and source b is new.  again is week resent with other
\* numbers under the same key, those of a spoofing source.
Mailed == {old, week, again, other}
Mail == [r \in Mailed |->
    CASE r = old -> Report("k1", d1, "o1", 1, 2, "none", [a |-> From(20, 0)])
      [] r = week -> Report("k2", d1, "o2", 395, 397, "quarantine", [a |-> From(45, 5), b |-> From(40, 10)])
      [] r = again -> Report("k2", d1, "o2", 395, 397, "quarantine", [b |-> From(10, 90)])
      [] r = other -> Report("k3", d2, "o2", 395, 397, "none", [b |-> From(1, 0)])]

Posted == {<<old, week>>, <<again>>, <<bad, other>>}
TwoScans == Permutations({s1, s2})

=============================================================================
