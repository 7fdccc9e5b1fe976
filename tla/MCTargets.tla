------------------------------ MODULE MCTargets ------------------------------
\* Instances of the target and license requests for TLC.
EXTENDS Targets, TLC

CONSTANTS d1, d2, d3, w1, w2, w3, bad, r1, r2, a1, a2, pro, team, forged, none

ThreeDomains == {d1, d2, d3}
\* One way to type each domain, and an input that is refused.
Typed == {w1, w2, w3, bad}
Canonicals == (w1 :> d1) @@ (w2 :> d2) @@ (w3 :> d3) @@ (bad :> Invalid)
TwoRequests == {r1, r2}
OneAdmin == {a1}
Posted == {none, pro, forged}
Granted == (none :> "invalid") @@ (pro :> "pro") @@ (forged :> "invalid")

\* For the license: one domain and one request, two admins and two tiers.
OneDomain == {d1}
TypedOne == {w1}
CanonicalOne == w1 :> d1
OneRequest == {r1}
TwoAdmins == {a1, a2}
PostedTwo == {none, pro, team, forged}
GrantedTwo == Granted @@ (team :> "team")
AdminsAlike == Permutations(TwoAdmins)

\* The limits of the tiers.
Limits == [free |-> 1, pro |-> 2, team |-> 0, other |-> 3]

\* Requests are alike, and so are the domains, each with what is typed for it.
D == <<d1, d2, d3>>
W == <<w1, w2, w3>>
Renamings ==
    {(D[1] :> D[p[1]]) @@ (D[2] :> D[p[2]]) @@ (D[3] :> D[p[3]])
        @@ (W[1] :> W[p[1]]) @@ (W[2] :> W[p[2]]) @@ (W[3] :> W[p[3]]) : p \in Permutations(1 .. 3)}
Alike == Permutations(TwoRequests) \cup Renamings

\* The observer of the license file decides no step: where no property is about it,
\* states that differ in it alone are one state.
WithoutFileApart == <<targetVars, file, activation, admin, expired, top>>

=============================================================================
