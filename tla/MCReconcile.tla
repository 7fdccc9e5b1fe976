---------------------------- MODULE MCReconcile ----------------------------
\* Instances of the reconcile engine for TLC.
EXTENDS ReconcileSerial, TLC

CONSTANTS f1, f2, s1, s2, u1

OneFinding == {f1}
TwoFindings == {f1, f2}
OneScan == {s1}
TwoScans == {s1, s2}
OneUser == {u1}

=============================================================================
