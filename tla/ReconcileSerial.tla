-------------------------- MODULE ReconcileSerial --------------------------
(***************************************************************************)
(* The engine when no two goroutines work on the table at once, which is   *)
(* what store.Store expects of its caller (store/store.go 24-27), and the  *)
(* proof obligation that it then implements FindingLedger.                 *)
(***************************************************************************)
EXTENDS Reconcile

\* At most one scan or status request is between two store calls.
OneAtATime ==
    /\ \A s, t \in Scans : scan[s].pc # "idle" /\ scan[t].pc # "idle" => s = t
    /\ \A u, v \in Users, f, g \in Fingerprints :
         edit[u][f] # NoRow /\ edit[v][g] # NoRow => u = v /\ f = g
    /\ \A s \in Scans, u \in Users, f \in Fingerprints :
         scan[s].pc = "idle" \/ edit[u][f] = NoRow

SerialNext == Next /\ OneAtATime'

SerialSpec == Init /\ [][SerialNext]_vars

\* The change of f that some scan has stored and not yet announced.
Owed(f) ==
    IF \E s \in Scans : scan[s].res[f].kind = "opened" THEN "opened"
    ELSE IF \E s \in Scans : scan[s].res[f].kind = "resolved" THEN "resolved"
    ELSE "nothing"

\* The finding as a listener sees it.
StateOf(f) ==
    CASE rows[f].status = "none" -> "unknown"
      [] rows[f].status = "resolved" -> "resolved"
      [] OTHER -> "live"

Ledger == INSTANCE FindingLedger WITH
    state <- [f \in Fingerprints |-> StateOf(f)],
    owed <- [f \in Fingerprints |-> Owed(f)],
    heard <- [f \in Fingerprints |-> told[f].kind]

\* With scans and status requests one at a time and no fault, every opening and
\* every resolution that Reconcile stores is announced exactly once and before
\* the finding changes again (reconcile.go 60-63, 80-85, 99-107; scanOne).
ImplementsLedger == Ledger!Spec

=============================================================================
