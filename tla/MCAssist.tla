------------------------------ MODULE MCAssist ------------------------------
(***************************************************************************)
(* Instances of AI Assist for TLC.                                         *)
(***************************************************************************)
EXTENDS Assist, TLC

CONSTANTS r1

OneRequest == {r1}
TwoSeverities == {"medium", "high"}
Limits == {0, 1}
FreeAndPro == {"free", "pro"}
SecretLike == {2}

----------------------------------------------------------------------------
\* Sentences that state no, the engine's, its synonym's or another severity, with
\* and without a status claim, too short alone and long enough.
Sentence == [states : {"none", "medium", "moderate", "high"}, claim : BOOLEAN, len : {8, 20}]

Plain == [states |-> "none", claim |-> FALSE, len |-> 20]
Claim == [states |-> "none", claim |-> TRUE, len |-> 20]

Pairs == {<<s, t>> : s, t \in {u \in Sentence : u.len = 20}}

ModelAnswers ==
    [text : {<<s>> : s \in Sentence} \cup Pairs, verify : {<<>>}]
        \cup [text : {<<Plain>>},
              verify : {<<<<Plain>>, <<Claim>>>>, <<<<Claim>>, <<Claim, Plain>>>>}]
        \cup {[text |-> <<s, s, s>>, verify |-> <<>>] : s \in {u \in Sentence : u.len = 8}}

----------------------------------------------------------------------------
\* Evidence: one long, one instruction-like and one harmless text and a scalar,
\* under up to three levels of maps with a secret-like key and keys past the cap,
\* maps with nothing else, lists past the cap, and structs.
Leaf == {Scalar, Text(1, FALSE), Text(4, FALSE), Text(1, TRUE)}
Mixed(v) == Map(1 :> Scalar @@ 2 :> v @@ 3 :> v @@ 4 :> v)
Secret(v) == Map(2 :> v)
Wrap(vs) == UNION {{Mixed(v), Secret(v), List(<<v, v, v>>)} : v \in vs}

Json2 == Wrap({Text(4, FALSE), Text(1, TRUE)})
Json4 == {Mixed(v) : v \in Wrap({Mixed(Scalar), List(<<Scalar>>)})} \cup {List(<<Mixed(List(<<Scalar>>))>>), Mixed(Mixed(Texts(<<Text(1, FALSE)>>)))}

GoTypes ==
    {Opaque, Texts(<<Text(4, FALSE), Text(1, TRUE), Text(1, FALSE)>>),
     Struct(Mixed(Text(4, FALSE))), Struct(List(<<Secret(Scalar)>>)), Struct(Text(1, FALSE))}

Value == Leaf \cup Json2 \cup Json4 \cup GoTypes \cup {Mixed(v) : v \in GoTypes}

ModelContents ==
    {[text |-> Text(1, FALSE), complete |-> TRUE, evidence |-> Mixed(v).fields] : v \in Value}
        \cup [text : {t \in Leaf : t.tag = "text"}, complete : BOOLEAN, evidence : {Secret(Scalar).fields}]

\* The evidence and its parts, down to the deepest.
WithParts(vs) == vs \cup Parts(vs) \cup {v.json : v \in {u \in vs : u.tag = "struct"}}
ModelValues == WithParts(WithParts(WithParts(WithParts(WithParts({Map(c.evidence) : c \in ModelContents})))))

=============================================================================
