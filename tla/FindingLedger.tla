--------------------------- MODULE FindingLedger ---------------------------
(***************************************************************************)
(* What the reconcile engine promises to whoever listens to OnResult: each *)
(* finding is opened and resolved in turn, each such change is announced   *)
(* exactly once, and it is announced before the same finding changes again.*)
(* Only a user's status request moves a finding without an announcement.   *)
(***************************************************************************)
CONSTANT Fingerprints

VARIABLES
    state,  \* "unknown", "live" or "resolved"
    owed,   \* the change that is stored and not yet announced
    heard   \* the last change announced

vars == <<state, owed, heard>>

Changes == {"nothing", "opened", "resolved"}

Init ==
    /\ state = [f \in Fingerprints |-> "unknown"]
    /\ owed = [f \in Fingerprints |-> "nothing"]
    /\ heard = [f \in Fingerprints |-> "nothing"]

\* A finding is inserted or reopened.
Detect(f) ==
    /\ state[f] # "live"
    /\ owed[f] = "nothing"
    /\ state' = [state EXCEPT ![f] = "live"]
    /\ owed' = [owed EXCEPT ![f] = "opened"]
    /\ UNCHANGED heard

\* A finding is auto-resolved.
Clear(f) ==
    /\ state[f] = "live"
    /\ owed[f] = "nothing"
    /\ state' = [state EXCEPT ![f] = "resolved"]
    /\ owed' = [owed EXCEPT ![f] = "resolved"]
    /\ UNCHANGED heard

\* A user takes a finding out of "resolved".
Revive(f) ==
    /\ state[f] = "resolved"
    /\ owed[f] = "nothing"
    /\ state' = [state EXCEPT ![f] = "live"]
    /\ UNCHANGED <<owed, heard>>

\* Everything owed is announced.
Announce ==
    /\ \E f \in Fingerprints : owed[f] # "nothing"
    /\ heard' = [f \in Fingerprints |-> IF owed[f] = "nothing" THEN heard[f] ELSE owed[f]]
    /\ owed' = [f \in Fingerprints |-> "nothing"]
    /\ UNCHANGED state

Next ==
    \/ \E f \in Fingerprints : Detect(f) \/ Clear(f) \/ Revive(f)
    \/ Announce

Spec == Init /\ [][Next]_vars

=============================================================================
