------------------------------ MODULE Evidence ------------------------------
(***************************************************************************)
(* What of a finding leaves the process for AI Assist                      *)
(* (internal/aiclient/evidence.go): NewFindingPacket bounds the free text, *)
(* and SanitizeEvidence copies the evidence map without secret-like keys,  *)
(* with capped maps, lists, strings and nesting.                           *)
(*                                                                         *)
(* A value of the evidence is a record with a tag: "scalar"; "text", with  *)
(* its length and whether it reads as an instruction; "map", a function of *)
(* keys; "list" ([]any); "texts" ([]string); "struct", any other Go type,  *)
(* standing for the JSON it marshals to; "opaque", one that does not       *)
(* marshal; "nil"; and "marker", which only the copy holds.  Keys are      *)
(* numbers, in the order of sort.Strings.                                  *)
(***************************************************************************)
EXTENDS Naturals, Sequences, FiniteSets

CONSTANTS
    Values,             \* what evidence may hold, with all the parts of it
    SecretKeys,         \* the keys that contain one of secretKeyMarkers
    maxEvidenceKeys,
    maxEvidenceString,
    maxEvidenceList

----------------------------------------------------------------------------
Scalar == [tag |-> "scalar"]
Nil == [tag |-> "nil"]
Text(len, instr) == [tag |-> "text", len |-> len, instr |-> instr]
Map(f) == [tag |-> "map", fields |-> f]
List(s) == [tag |-> "list", items |-> s]
Texts(s) == [tag |-> "texts", items |-> s]
Struct(v) == [tag |-> "struct", json |-> v]
Opaque == [tag |-> "opaque"]

TextValues == [tag : {"text"}, len : Nat, instr : BOOLEAN]

\* A value is a leaf, or its parts are values; JSON holds neither a Go type nor
\* a []string.
IsValue(v) ==
    \/ v \in {Scalar, Nil, Opaque} \cup TextValues
    \/ v.tag = "texts" /\ v.items \in Seq(TextValues)
    \/ v.tag = "list" /\ v.items \in Seq(Values)
    \/ /\ v.tag = "map"
       /\ v.fields \in [DOMAIN v.fields -> Values]
       /\ DOMAIN v.fields \subseteq Nat /\ IsFiniteSet(DOMAIN v.fields)
    \/ /\ v.tag = "struct"
       /\ v.json \in Values /\ v.json.tag \in {"scalar", "nil", "text", "list", "map"}

ASSUME EvidenceAssumption ==
    /\ \A v \in Values : IsValue(v)
    /\ SecretKeys \subseteq Nat
    /\ maxEvidenceKeys \in Nat \ {0}
    /\ maxEvidenceString \in Nat \ {0}
    /\ maxEvidenceList \in Nat \ {0}

\* The fixed strings that replace withheld text, deep nesting and opaque values.
Marker == [tag |-> "marker"]

isSecretKey(k) == k \in SecretKeys

\* A text that reads as an instruction is replaced as a whole.
neutralizeInstructions(t) == IF t.instr THEN Marker ELSE t

\* A text that is cut gets one more rune, the ellipsis.
truncateRunes(t, max) == IF t.tag = "text" /\ t.len > max THEN [t EXCEPT !.len = max + 1] ELSE t

bound(t, max) == truncateRunes(neutralizeInstructions(t), max)

\* The first maxEvidenceKeys of ks in sorted order.
firstKeys(ks) == {k \in ks : Cardinality({j \in ks : j < k}) < maxEvidenceKeys}

firstItems(s) == IF Len(s) > maxEvidenceList THEN SubSeq(s, 1, maxEvidenceList) ELSE s

----------------------------------------------------------------------------
\* A faulty form of the definition below: the cap counts the secret-like keys too.
keptKeysCapsFirst(ks) == {k \in firstKeys(ks) : ~isSecretKey(k)}

\* The keys of a map that its copy keeps.
keptKeys(ks) == firstKeys({k \in ks : ~isSecretKey(k)})

\* sanitizeMap; Inner is sanitizeValue at this map's depth.
sanitizeMap(in, Inner(_)) ==
    LET keys == keptKeys(DOMAIN in) IN
    IF keys = {} THEN Nil ELSE Map([k \in keys |-> Inner(in[k])])

\* The cases of sanitizeValue that keep no container.
sanitizeLeaf(v) ==
    CASE v.tag = "text" -> bound(v, maxEvidenceString)
      [] v.tag = "texts" ->
           List([i \in 1 .. Len(firstItems(v.items)) |-> bound(v.items[i], maxEvidenceString)])
      [] v.tag \in {"map", "list", "opaque"} -> Marker
      [] OTHER -> v

\* sanitizeValue below maxEvidenceDepth, for a value that is not a struct; Inner
\* is sanitizeValue one level down.
sanitizeInner(v, Inner(_)) ==
    CASE v.tag = "map" -> sanitizeMap(v.fields, Inner)
      [] v.tag = "list" -> List([i \in 1 .. Len(firstItems(v.items)) |-> Inner(v.items[i])])
      [] OTHER -> sanitizeLeaf(v)

\* The JSON round trip of the default case; generic JSON holds no struct.
generic(v) == IF v.tag = "struct" THEN v.json ELSE v

\* sanitizeValue at depths maxEvidenceDepth = 3, 2 and 1; before the last, a
\* faulty form that returns the round trip as it is.
sanitizeValue3(v) == sanitizeLeaf(generic(v))
sanitizeValue2(v) == sanitizeInner(generic(v), sanitizeValue3)
sanitizeValueRawStruct(v) ==
    IF v.tag = "struct" THEN v.json ELSE sanitizeInner(v, sanitizeValue2)
sanitizeValue1(v) == sanitizeInner(generic(v), sanitizeValue2)

SanitizeEvidence(in) == sanitizeMap(in, sanitizeValue1)

\* NewFindingPacket: what is sent of a finding f that has what the model needs.
NewFindingPacket(f) ==
    [severity    |-> f.severity,
     title       |-> bound(f.text, maxEvidenceString),
     target      |-> bound(f.text, maxEvidenceString),
     remediation |-> bound(f.text, 2 * maxEvidenceString),
     evidence    |-> SanitizeEvidence(f.evidence)]

----------------------------------------------------------------------------
\* The rule of SanitizeEvidence, stated on its own.

\* The keys or positions of a value and what is there.
Steps(v) ==
    CASE generic(v).tag = "map" -> DOMAIN generic(v).fields
      [] generic(v).tag \in {"list", "texts"} -> DOMAIN generic(v).items
      [] OTHER -> {}
Child(v, k) == IF generic(v).tag = "map" THEN generic(v).fields[k] ELSE generic(v).items[k]
Parts(vs) == UNION {{Child(v, k) : k \in Steps(v)} : v \in vs}

\* The steps of a value that the caps leave: of the harmless keys and of the
\* positions, the first ones.
KeptSteps(v) ==
    LET harmless == Steps(v) \ SecretKeys IN
    IF generic(v).tag = "map"
    THEN {k \in harmless : Cardinality({j \in harmless : j <= k}) <= maxEvidenceKeys}
    ELSE {i \in Steps(v) : i <= maxEvidenceList}

\* A text that may leave the process.
BoundedText(t, max) == t.tag = "text" => ~t.instr /\ t.len <= max + 1

\* A value that may leave the process, its parts apart.
BoundedNode(w) ==
    /\ w.tag \in {"scalar", "nil", "marker", "text", "map", "list"}
    /\ BoundedText(w, maxEvidenceString)
    /\ w.tag = "map" => Steps(w) \cap SecretKeys = {} /\ Cardinality(Steps(w)) <= maxEvidenceKeys
    /\ w.tag = "list" => Steps(w) \subseteq 1 .. maxEvidenceList

\* The copy w of a leaf v: a scalar and a harmless text that fits are as they were,
\* and a harmless text is cut but never withheld.
LeafKept(v, w) ==
    LET harmless == v.tag = "text" /\ ~v.instr IN
    /\ v.tag \in {"scalar", "nil"} \/ (harmless /\ v.len <= maxEvidenceString) => w = v
    /\ harmless => w.tag = "text"

\* Pairs of an original and its copy, one kept step further down.
Below(pairs) ==
    UNION {{<<Child(p[1], k), Child(p[2], k)>> : k \in KeptSteps(p[1]) \cap Steps(p[2])} : p \in pairs}

\* Evidence that may leave the process: it is bounded at every level, and below the
\* third there are only the items of a []string.
BoundedEvidence(w) ==
    LET level0 == {w}
        level1 == Parts(level0)
        level2 == Parts(level1)
        level3 == Parts(level2)
        level4 == Parts(level3)
    IN /\ \A x \in level0 \cup level1 \cup level2 \cup level3 \cup level4 : BoundedNode(x)
       /\ Parts(level4) = {}

\* The copy w of v has every step that the caps leave, down to the third level and in
\* a []string there, and keeps the leaves on the way.
KeptEvidence(v, w) ==
    LET level0 == {<<v, w>>}
        level1 == Below(level0)
        level2 == Below(level1)
        level3 == Below(level2)
        level4 == Below(level3)
    IN /\ \A p \in level0 \cup level1 \cup level2 : KeptSteps(p[1]) \subseteq Steps(p[2])
       /\ \A p \in level3 : p[1].tag = "texts" => KeptSteps(p[1]) \subseteq Steps(p[2])
       /\ \A p \in level1 \cup level2 \cup level3 \cup level4 : LeafKept(generic(p[1]), p[2])

=============================================================================
