--------------------------- MODULE TargetsProofs ---------------------------
(***************************************************************************)
(* What a restart restores and by how much the limit can be exceeded, for  *)
(* any number of domains, keys and requests served at once.                *)
(***************************************************************************)
EXTENDS Targets, FiniteSetTheorems, TLAPS

\* What is saved for a domain reads as that domain.
SavedIsCanonical == \A d \in Domains : saved[d] # NoRaw => Canonical[saved[d]] = d

\* A request knows what it works on.
RequestsKnow ==
    \A r \in Requests :
        /\ req[r].pc \in {"counted", "allowed", "adding"} => req[r].raw \in Raws
        /\ req[r].pc \in {"adding", "removing"} => req[r].domain \in Domains
        /\ req[r].pc = "adding" => Canonical[req[r].raw] = req[r].domain

\* What the reason says of registry and table once no request is on the domain.
Explained(d) ==
    /\ apart[d] = "no" => (d \in registry <=> saved[d] # NoRaw)
    /\ apart[d] = "unsaved" => d \in registry
    /\ apart[d] = "undeleted" => d \notin registry
    /\ apart[d] = "unlisted" => d \notin registry /\ saved[d] # NoRaw

\* Unless requests overlapped on it, a domain has one request at most, which has done
\* its step on the registry; without one, the reason tells how the two differ.
OneByOne ==
    \A d \in Domains : apart[d] # "overlapped" =>
        /\ \A r, q \in InFlight(d) : r = q
        /\ \A r \in InFlight(d) : apart[d] = "no" /\ (req[r].pc = "adding" <=> d \in registry)
        /\ InFlight(d) = {} => Explained(d)

\* What the reason says of tier and file once no written key waits to come into force.
FileExplained ==
    /\ fileApart = "no" => FileAgrees
    /\ fileApart = "unread" => activation = "free"
    /\ fileApart = "cut" => file = NoKey

\* Keys under way were accepted.  Unless two requests crossed, the file is explained,
\* or holds the one key that waits to come into force, or was cut after the last write.
LicenseOneByOne ==
    /\ \A a \in Admins : admin[a].key = NoKey \/ Grants[admin[a].key] # "invalid"
    /\ \/ fileApart = "crossed"
       \/ Written = {} /\ FileExplained
       \/ \E a \in Admins : Written = {a} /\ file = admin[a].key
       \/ fileApart = "cut" /\ file = NoKey

\* The inductive invariants of the two halves.
TInv ==
    /\ registry \in SUBSET Domains
    /\ saved \in [Domains -> Raws \cup {NoRaw}]
    /\ req \in [Requests -> Request]
    /\ apart \in [Domains -> Reasons]
    /\ revived \in SUBSET Domains
    /\ SavedIsCanonical
    /\ RequestsKnow
    /\ OneByOne

LInv ==
    /\ file \in Keys
    /\ activation \in Tiers
    /\ admin \in [Admins -> Admin]
    /\ expired \in SUBSET Keys
    /\ fileApart \in FileReasons
    /\ top \in Nat
    /\ LicenseOneByOne

----------------------------------------------------------------------------
\* A limit is a number.
LEMMA LimitIsNat ==
    ASSUME NEW tier \in Tiers
    PROVE  Limit(tier) \in Nat
  <1>1. Cardinality(Domains) \in Nat
    BY TargetsAssumption, FS_CardinalityType
  <1>. QED
    BY <1>1, TargetsAssumption DEF Limit

\* Any key activates one of the tiers.
LEMMA ActivateIsTier ==
    ASSUME NEW key \in Keys
    PROVE  Activate(key) \in Tiers
BY TargetsAssumption DEF Activate, Tiers

\* A restart reads back the domains of the table.
LEMMA RestoredIsSaved ==
    ASSUME TInv
    PROVE  Restored = SavedDomains
  <1>1. \A d \in SavedDomains : Canonical[saved[d]] = d /\ d \in Domains
    BY DEF TInv, SavedIsCanonical, SavedDomains
  <1>2. \A d \in SavedDomains : d # Invalid
    BY <1>1, TargetsAssumption
  <1>. QED
    BY <1>1, <1>2 DEF Restored

----------------------------------------------------------------------------
\* One step per action that touches the targets.
LEMMA AddCountKeeps ==
    ASSUME TInv, NEW r \in Requests, NEW raw \in Raws, AddCount(r, raw)
    PROVE  TInv'
  <1>. DEFINE rec == [pc |-> "counted", raw |-> raw, domain |-> Invalid,
                      current |-> Cardinality(registry)]
  <1>1. Cardinality(registry) \in Nat
    <2>1. IsFiniteSet(registry)
      BY TargetsAssumption, FS_Subset DEF TInv
    <2>. QED
      BY <2>1, FS_CardinalityType
  <1>2. rec \in Request
    BY <1>1 DEF Request
  <1>3. /\ req' = [req EXCEPT ![r] = rec]
        /\ req[r].pc = "idle"
        /\ UNCHANGED <<registry, saved, apart, revived>>
    BY DEF AddCount, Put
  <1>4. req' \in [Requests -> Request]
    BY <1>2, <1>3 DEF TInv
  <1>5. \A d \in Domains : InFlight(d)' = InFlight(d)
    BY <1>3 DEF TInv, InFlight
  <1>6. RequestsKnow'
    BY <1>3 DEF TInv, RequestsKnow
  <1>7. OneByOne'
    BY <1>3, <1>5 DEF TInv, OneByOne, Explained, InFlight
  <1>. QED
    BY <1>3, <1>4, <1>6, <1>7 DEF TInv, SavedIsCanonical

\* The limit check of an add request.
LEMMA AddCheckKeeps ==
    ASSUME TInv, NEW r \in Requests, AddCheck(r)
    PROVE  TInv'
  <1>1. /\ \/ req' = [req EXCEPT ![r] = [req[r] EXCEPT !.pc = "allowed"]]
           \/ req' = [req EXCEPT ![r] = IdleRequest]
        /\ req[r].pc = "counted"
        /\ UNCHANGED <<registry, saved, apart, revived>>
    BY DEF AddCheck, Put
  <1>2. req' \in [Requests -> Request]
    BY <1>1 DEF TInv, Request, IdleRequest
  <1>3. \A d \in Domains : InFlight(d)' = InFlight(d)
    BY <1>1 DEF TInv, InFlight, IdleRequest, Request
  <1>4. RequestsKnow'
    BY <1>1 DEF TInv, RequestsKnow, IdleRequest, Request
  <1>5. OneByOne'
    BY <1>1, <1>3 DEF TInv, OneByOne, Explained, InFlight
  <1>. QED
    BY <1>1, <1>2, <1>4, <1>5 DEF TInv, SavedIsCanonical

\* A request steps on the registry: alone it settles the domain, else they overlap.
LEMMA RegistryStepKeeps ==
    ASSUME TInv, NEW r \in Requests, NEW d \in Domains, NEW rec \in Request,
           req' = [req EXCEPT ![r] = rec],
           req[r].pc \notin {"adding", "removing"},
           rec.domain = d, rec.pc \in {"adding", "removing"},
           rec.pc = "adding" => rec.raw \in Raws /\ Canonical[rec.raw] = d,
           registry' = IF rec.pc = "adding" THEN registry \cup {d} ELSE registry \ {d},
           Touch(d),
           revived' \in SUBSET Domains, saved' = saved
    PROVE  TInv'
  <1>1. req' \in [Requests -> Request] /\ registry' \in SUBSET Domains 
    BY DEF TInv
  <1>a. /\ apart' \in [Domains -> Reasons]
        /\ apart'[d] = IF InFlight(d) = {} THEN "no" ELSE "overlapped"
        /\ \A e \in Domains : e # d => apart'[e] = apart[e]
    BY DEF TInv, Touch, Reasons
  <1>2. RequestsKnow'
    BY DEF TInv, RequestsKnow
  <1>3. OneByOne'
    <2>. SUFFICES ASSUME NEW e \in Domains, apart'[e] # "overlapped"
                  PROVE  /\ \A p, q \in InFlight(e)' : p = q
                         /\ \A p \in InFlight(e)' :
                              apart'[e] = "no" /\ (req'[p].pc = "adding" <=> e \in registry')
                         /\ InFlight(e)' = {} => Explained(e)'
      BY DEF OneByOne
    <2>1. CASE e = d
      <3>1. InFlight(d) = {} /\ apart'[d] = "no"
        BY <1>a, <2>1
      <3>2. InFlight(d)' = {r} /\ req'[r] = rec
        BY <3>1 DEF InFlight, TInv
      <3>. QED
        BY <2>1, <3>1, <3>2
    <2>2. CASE e # d
      <3>1. apart'[e] = apart[e] /\ (e \in registry' <=> e \in registry)
        BY <1>a, <2>2
      <3>2. InFlight(e)' = InFlight(e) /\ r \notin InFlight(e)
        BY <2>2 DEF InFlight, TInv
      <3>3. \A p \in InFlight(e) : req'[p] = req[p]
        BY <3>2 DEF InFlight, TInv
      <3>4. /\ \A p, q \in InFlight(e) : p = q
            /\ \A p \in InFlight(e) : apart[e] = "no" /\ (req[p].pc = "adding" <=> e \in registry)
            /\ InFlight(e) = {} => Explained(e)
        BY <3>1 DEF TInv, OneByOne
      <3>5. Explained(e) => Explained(e)'
        BY <3>1 DEF Explained
      <3>. QED
        BY <3>1, <3>2, <3>3, <3>4, <3>5
    <2>. QED
      BY <2>1, <2>2
  <1>. QED
    BY <1>1, <1>a, <1>2, <1>3 DEF TInv, SavedIsCanonical

\* An add request puts its domain in the registry.
LEMMA AddTargetKeeps ==
    ASSUME TInv, NEW r \in Requests, AddTarget(r)
    PROVE  TInv'
  <1>. DEFINE d == Canonical[req[r].raw]
              rec == [req[r] EXCEPT !.pc = "adding", !.domain = d]
  <1>1. req[r] \in Request /\ req[r].pc = "allowed" /\ req[r].raw \in Raws
    BY DEF TInv, RequestsKnow, AddTarget
  <1>2. d \in Domains \cup {Invalid}
    BY <1>1, TargetsAssumption
  <1>3. CASE d = Invalid
    <2>1. /\ req' = [req EXCEPT ![r] = IdleRequest]
          /\ UNCHANGED <<registry, saved, apart, revived>>
      BY <1>3 DEF AddTarget, Put
    <2>2. req' \in [Requests -> Request]
      BY <2>1 DEF TInv, Request, IdleRequest
    <2>3. \A e \in Domains : InFlight(e)' = InFlight(e)
      BY <1>1, <2>1 DEF TInv, InFlight, IdleRequest
    <2>4. RequestsKnow'
      BY <2>1 DEF TInv, RequestsKnow, IdleRequest
    <2>5. OneByOne'
      BY <1>1, <2>1, <2>3 DEF TInv, OneByOne, Explained, InFlight
    <2>. QED
      BY <2>1, <2>2, <2>4, <2>5 DEF TInv, SavedIsCanonical
  <1>4. CASE d # Invalid
    <2>1. /\ req' = [req EXCEPT ![r] = rec]
          /\ registry' = registry \cup {d}
          /\ Touch(d)
          /\ saved' = saved /\ revived' = revived
      BY <1>4 DEF AddTarget, Put
    <2>2. rec \in Request /\ rec.domain = d /\ rec.pc = "adding" /\ rec.raw = req[r].raw
      BY <1>1, <1>2 DEF Request
    <2>3. d \in Domains /\ revived' \in SUBSET Domains
      BY <1>2, <1>4, <2>1 DEF TInv
    <2>. HIDE DEF rec
    <2>4. rec.raw \in Raws /\ Canonical[rec.raw] = d
      BY <1>1, <2>2
    <2>. HIDE DEF d
    <2>. QED
      BY <1>1, <2>1, <2>2, <2>3, <2>4, RegistryStepKeeps
  <1>. QED
    BY <1>3, <1>4

\* A remove request takes its domain out of the registry.
LEMMA RemoveTargetKeeps ==
    ASSUME TInv, NEW r \in Requests, NEW d \in Domains, RemoveTarget(r, d)
    PROVE  TInv'
  <1>. DEFINE rec == [req[r] EXCEPT !.pc = "removing", !.domain = d]
  <1>1. req[r] \in Request /\ req[r].pc = "idle"
    BY DEF TInv, RemoveTarget
  <1>2. rec \in Request /\ rec.domain = d /\ rec.pc = "removing"
    BY <1>1 DEF Request
  <1>3. /\ req' = [req EXCEPT ![r] = rec]
        /\ registry' = registry \ {d}
        /\ Touch(d)
        /\ saved' = saved /\ revived' \in SUBSET Domains
    BY DEF RemoveTarget, Put, TInv
  <1>. HIDE DEF rec
  <1>. QED
    BY <1>1, <1>2, <1>3, RegistryStepKeeps

\* A request ends: the table follows the registry, or the domain is marked.
LEMMA TableStepKeeps ==
    ASSUME TInv, NEW r \in Requests, SaveTarget(r) \/ DeleteTarget(r) \/ StoreFails(r)
    PROVE  TInv'
  <1>. DEFINE d == req[r].domain
  <1>1. /\ req[r].pc \in {"adding", "removing"} /\ d \in Domains
        /\ r \in InFlight(d)
        /\ req[r].pc = "adding" => req[r].raw \in Raws /\ Canonical[req[r].raw] = d
    BY DEF TInv, RequestsKnow, SaveTarget, DeleteTarget, StoreFails, InFlight
  <1>2. /\ req' = [req EXCEPT ![r] = IdleRequest]
        /\ UNCHANGED <<registry, revived>>
    BY <1>1 DEF SaveTarget, DeleteTarget, StoreFails, Put
  <1>3. /\ saved' \in [Domains -> Raws \cup {NoRaw}]
        /\ apart' \in [Domains -> Reasons]
        /\ \A e \in Domains : e # d => saved'[e] = saved[e] /\ apart'[e] = apart[e]
        /\ saved'[d] # NoRaw => Canonical[saved'[d]] = d
        /\ apart'[d] # "overlapped" =>
             /\ apart[d] # "overlapped"
             /\ \/ apart'[d] = apart[d] /\ (saved'[d] # NoRaw <=> req[r].pc = "adding")
                \/ apart'[d] = "unsaved" /\ req[r].pc = "adding"
                \/ apart'[d] = "undeleted" /\ req[r].pc = "removing"
    <2>1. CASE SaveTarget(r)
      <3>1. /\ saved' = [saved EXCEPT ![d] = IF @ = NoRaw THEN req[r].raw ELSE @]
            /\ req[r].pc = "adding" /\ req[r].raw # NoRaw /\ apart' = apart
        BY <1>1, <2>1, TargetsAssumption DEF SaveTarget, Saved
      <3>. QED
        BY <1>1, <3>1 DEF TInv, SavedIsCanonical
    <2>2. CASE DeleteTarget(r)
      <3>1. saved' = [saved EXCEPT ![d] = NoRaw] /\ req[r].pc = "removing" /\ apart' = apart
        BY <2>2 DEF DeleteTarget
      <3>. QED
        BY <1>1, <3>1 DEF TInv
    <2>3. CASE StoreFails(r)
      <3>1. /\ saved' = saved
            /\ apart' = [apart EXCEPT ![d] = IF @ = "overlapped" THEN @ ELSE
                            IF req[r].pc = "adding" THEN "unsaved" ELSE "undeleted"]
        BY <2>3 DEF StoreFails
      <3>. QED
        BY <1>1, <3>1 DEF TInv, SavedIsCanonical, Reasons
    <2>. QED
      BY <2>1, <2>2, <2>3
  <1>4. req' \in [Requests -> Request]
    BY <1>2 DEF TInv, Request, IdleRequest
  <1>5. RequestsKnow'
    BY <1>2 DEF TInv, RequestsKnow, IdleRequest
  <1>6. SavedIsCanonical'
    BY <1>3 DEF TInv, SavedIsCanonical
  <1>7. OneByOne'
    <2>. SUFFICES ASSUME NEW e \in Domains, apart'[e] # "overlapped"
                  PROVE  /\ \A p, q \in InFlight(e)' : p = q
                         /\ \A p \in InFlight(e)' :
                              apart'[e] = "no" /\ (req'[p].pc = "adding" <=> e \in registry')
                         /\ InFlight(e)' = {} => Explained(e)'
      BY DEF OneByOne
    <2>1. /\ \A p, q \in InFlight(e) : p = q
          /\ \A p \in InFlight(e) : apart[e] = "no" /\ (req[p].pc = "adding" <=> e \in registry)
          /\ InFlight(e) = {} => Explained(e)
      BY <1>3 DEF TInv, OneByOne
    <2>2. InFlight(e)' = InFlight(e) \ {r} /\ \A p \in InFlight(e)' : req'[p] = req[p]
      BY <1>2 DEF InFlight, TInv, IdleRequest
    <2>3. CASE e = d
      <3>1. /\ InFlight(e)' = {} /\ apart[e] = "no"
            /\ req[r].pc = "adding" <=> e \in registry
        BY <1>1, <2>1, <2>2, <2>3
      <3>2. Explained(e)'
        BY <1>1, <1>2, <1>3, <2>3, <3>1 DEF Explained
      <3>. QED
        BY <3>1, <3>2
    <2>4. CASE e # d
      <3>1. r \notin InFlight(e)
        BY <2>4 DEF InFlight
      <3>2. Explained(e) => Explained(e)'
        BY <1>2, <1>3, <2>4 DEF Explained
      <3>. QED
        BY <1>2, <1>3, <2>1, <2>2, <2>4, <3>1, <3>2
    <2>. QED
      BY <2>3, <2>4
  <1>. QED
    BY <1>2, <1>3, <1>4, <1>5, <1>6, <1>7 DEF TInv

\* A restart makes the registry of the table, or of nothing.
LEMMA RestartKeepsTargets ==
    ASSUME TInv, Restart
    PROVE  TInv'
  <1>1. PICK listed \in BOOLEAN :
           /\ registry' = IF listed THEN SavedDomains ELSE {}
           /\ apart' = [d \in Domains |-> IF ~listed /\ d \in SavedDomains THEN "unlisted" ELSE "no"]
           /\ revived' \subseteq registry'
           /\ saved' = saved
           /\ req' = [r \in Requests |-> IdleRequest]
    BY RestoredIsSaved DEF Restart
  <1>2. IdleRequest \in Request /\ IdleRequest.pc = "idle"
    BY DEF IdleRequest, Request
  <1>3. \A d \in Domains : InFlight(d)' = {}
    BY <1>1, <1>2 DEF InFlight
  <1>4. \A d \in Domains : Explained(d)'
    BY <1>1 DEF Explained, SavedDomains
  <1>5. OneByOne'
    BY <1>3, <1>4 DEF OneByOne
  <1>6. RequestsKnow'
    BY <1>1, <1>2 DEF RequestsKnow
  <1>7. apart' \in [Domains -> Reasons] /\ registry' \in SUBSET Domains
    BY <1>1 DEF Reasons, SavedDomains
  <1>. QED
    BY <1>1, <1>2, <1>5, <1>6, <1>7 DEF TInv, SavedIsCanonical

----------------------------------------------------------------------------
\* One step per action that touches the license.
LEMMA SetLicenseKeeps ==
    ASSUME LInv, NEW a \in Admins, NEW key \in Keys, SetLicense(a, key)
    PROVE  LInv'
  <1>1. /\ admin' = [admin EXCEPT ![a] = [pc |-> "writing", key |-> key]]
        /\ admin[a].pc = "idle"
        /\ UNCHANGED <<file, activation, expired, fileApart, top>>
    BY DEF SetLicense, PutAdmin
  <1>2. key = NoKey \/ Grants[key] # "invalid"
    BY DEF SetLicense, Activate
  <1>3. /\ admin' \in [Admins -> Admin]
        /\ admin'[a].pc = "writing" /\ admin'[a].key = key
        /\ \A b \in Admins : b # a => admin'[b] = admin[b]
    BY <1>1 DEF LInv, Admin
  <1>4. Written' = Written /\ a \notin Written
    BY <1>1, <1>3 DEF Written
  <1>5. FileExplained' <=> FileExplained
    BY <1>1 DEF FileExplained, FileAgrees, Activate
  <1>6. LicenseOneByOne'
    BY <1>1, <1>2, <1>3, <1>4, <1>5 DEF LInv, LicenseOneByOne
  <1>. QED
    BY <1>1, <1>3, <1>6 DEF LInv

\* A license request writes the license file.
LEMMA WriteFileKeeps ==
    ASSUME LInv, NEW a \in Admins, WriteFile(a)
    PROVE  LInv'
  <1>1. /\ admin' = [admin EXCEPT ![a] = [admin[a] EXCEPT !.pc = "written"]]
        /\ admin[a].pc = "writing" /\ file' = admin[a].key
        /\ fileApart' = IF Written = {} THEN fileApart ELSE "crossed"
        /\ UNCHANGED <<activation, expired, top>>
    BY DEF WriteFile, PutAdmin
  <1>2. /\ admin' \in [Admins -> Admin] /\ file' \in Keys /\ fileApart' \in FileReasons
        /\ admin'[a].pc = "written" /\ admin'[a].key = admin[a].key
        /\ \A b \in Admins : b # a => admin'[b] = admin[b]
    BY <1>1 DEF LInv, Admin, FileReasons
  <1>3. Written = {} => Written' = {a}
    BY <1>2 DEF Written
  <1>4. LicenseOneByOne'
    BY <1>1, <1>2, <1>3 DEF LInv, LicenseOneByOne
  <1>. QED
    BY <1>1, <1>2, <1>4 DEF LInv

\* A write of the license file fails and may truncate it.
LEMMA WriteFailsKeeps ==
    ASSUME LInv, NEW a \in Admins, WriteFails(a)
    PROVE  LInv'
  <1>1. /\ admin' = [admin EXCEPT ![a] = IdleAdmin]
        /\ admin[a].pc = "writing"
        /\ UNCHANGED <<activation, expired, top>>
        /\ \/ UNCHANGED <<file, fileApart>>
           \/ file' = NoKey /\ fileApart' = "cut"
    BY DEF WriteFails, PutAdmin
  <1>2. /\ admin' \in [Admins -> Admin] /\ file' \in Keys /\ fileApart' \in FileReasons
        /\ admin'[a].pc = "idle" /\ admin'[a].key = NoKey
        /\ \A b \in Admins : b # a => admin'[b] = admin[b]
    BY <1>1, TargetsAssumption DEF LInv, Admin, IdleAdmin, FileReasons
  <1>3. file' = file /\ fileApart' = fileApart => (FileExplained' <=> FileExplained)
    BY <1>1 DEF FileExplained, FileAgrees, Activate
  <1>4. Written' = Written /\ a \notin Written
    BY <1>1, <1>2 DEF Written
  <1>5. LicenseOneByOne'
    BY <1>1, <1>2, <1>3, <1>4 DEF LInv, LicenseOneByOne
  <1>. QED
    BY <1>1, <1>2, <1>5 DEF LInv

\* A license request sets the activation in force.
LEMMA SetActivationKeeps ==
    ASSUME LInv, NEW a \in Admins, SetActivation(a)
    PROVE  LInv'
  <1>. DEFINE key == admin[a].key
  <1>1. /\ admin' = [admin EXCEPT ![a] = IdleAdmin]
        /\ admin[a].pc = "written"
        /\ activation' = IF key = NoKey THEN "free" ELSE Grants[key]
        /\ top' = Greater(top, Limit(activation'))
        /\ fileApart' = IF file = key /\ Written = {a} THEN "no" ELSE fileApart
        /\ UNCHANGED <<file, expired>>
    BY DEF SetActivation, PutAdmin
  <1>2. /\ admin' \in [Admins -> Admin]
        /\ admin'[a].pc = "idle" /\ admin'[a].key = NoKey
        /\ \A b \in Admins : b # a => admin'[b] = admin[b]
    BY <1>1, TargetsAssumption DEF LInv, Admin, IdleAdmin
  <1>3. key \in Keys /\ (key = NoKey \/ Grants[key] # "invalid")
    BY DEF LInv, LicenseOneByOne, Admin
  <1>4. activation' \in Tiers /\ fileApart' \in FileReasons
    BY <1>1, <1>3, TargetsAssumption DEF Tiers, LInv, FileReasons
  <1>5. top' \in Nat
    BY <1>1, <1>4, LimitIsNat DEF LInv, Greater
  <1>6. file = key => FileAgrees'
    BY <1>1, <1>3 DEF FileAgrees, Activate
  <1>7. a \in Written /\ Written' = Written \ {a}
    BY <1>1, <1>2 DEF Written
  <1>8. LicenseOneByOne'
    <2>1. \A b \in Admins : admin'[b].key = NoKey \/ Grants[admin'[b].key] # "invalid"
      BY <1>2 DEF LInv, LicenseOneByOne
    <2>2. CASE file = key /\ Written = {a}
      BY <1>1, <1>6, <1>7, <2>1, <2>2 DEF LicenseOneByOne, FileExplained
    <2>3. CASE ~(file = key /\ Written = {a})
      <3>1. fileApart = "crossed" \/ (fileApart = "cut" /\ file = NoKey)
        BY <1>7, <2>3 DEF LInv, LicenseOneByOne
      <3>. QED
        BY <1>1, <2>1, <2>3, <3>1 DEF LicenseOneByOne
    <2>. QED
      BY <2>2, <2>3
  <1>. QED
    BY <1>1, <1>2, <1>4, <1>5, <1>8 DEF LInv

\* A key expires.
LEMMA ExpireKeeps ==
    ASSUME LInv, NEW key \in Keys, Expire(key)
    PROVE  LInv'
  <1>1. /\ expired' = expired \cup {key}
        /\ Grants[key] # "invalid"
        /\ UNCHANGED <<file, activation, admin, fileApart, top>>
    BY DEF Expire
  <1>2. FileExplained => FileExplained'
    BY <1>1 DEF FileExplained, FileAgrees, Activate
  <1>3. Written' = Written
    BY <1>1 DEF Written
  <1>. QED
    BY <1>1, <1>2, <1>3 DEF LInv, LicenseOneByOne

\* A restart reads the license file, or takes the empty key.
LEMMA RestartKeepsLicense ==
    ASSUME LInv, Restart
    PROVE  LInv'
  <1>1. PICK readable \in BOOLEAN :
           /\ admin' = [b \in Admins |-> IdleAdmin]
           /\ fileApart' = (IF readable THEN "no" ELSE "unread") /\ expired' = expired
           /\ file' = file \/ file' = NoKey
           /\ activation' = IF readable /\ file' # NoKey THEN Activate(file) ELSE "free"
           /\ top' = Greater(top, Limit(activation'))
    BY DEF Restart
  <1>2. /\ admin' \in [Admins -> Admin] /\ file' \in Keys /\ fileApart' \in FileReasons
        /\ \A b \in Admins : admin'[b].pc = "idle" /\ admin'[b].key = NoKey
    BY <1>1, TargetsAssumption DEF LInv, Admin, IdleAdmin, FileReasons
  <1>3. activation' \in Tiers
    BY <1>1, ActivateIsTier DEF LInv, Tiers
  <1>4. top' \in Nat
    BY <1>1, <1>3, LimitIsNat DEF LInv, Greater
  <1>5. FileExplained' /\ Written' = {}
    BY <1>1, <1>2 DEF FileExplained, FileAgrees, Activate, Written
  <1>6. LicenseOneByOne'
    BY <1>2, <1>5 DEF LicenseOneByOne
  <1>. QED
    BY <1>1, <1>2, <1>3, <1>4, <1>6 DEF LInv

----------------------------------------------------------------------------
\* Both invariants hold when the program starts.
LEMMA InitHolds ==
    ASSUME Init
    PROVE  TInv /\ LInv
  <1>1. IdleRequest \in Request /\ IdleRequest.pc = "idle"
    BY DEF IdleRequest, Request
  <1>2. IdleAdmin \in Admin /\ IdleAdmin.pc = "idle" /\ IdleAdmin.key = NoKey
    BY TargetsAssumption DEF IdleAdmin, Admin
  <1>3. \A d \in Domains : InFlight(d) = {}
    BY <1>1 DEF Init, InFlight
  <1>4. TInv
    BY <1>1, <1>3 DEF Init, TInv, SavedIsCanonical, RequestsKnow, OneByOne, Explained, Reasons
  <1>5. Limit("free") \in Nat
    BY LimitIsNat DEF Tiers
  <1>6. LicenseOneByOne
    BY <1>2 DEF Init, LicenseOneByOne, FileExplained, FileAgrees, Activate, Written
  <1>7. LInv
    BY <1>2, <1>5, <1>6, TargetsAssumption DEF Init, LInv, Tiers, FileReasons
  <1>. QED
    BY <1>4, <1>7

\* A step that leaves the variables of an invariant alone keeps it.
LEMMA Unchanged ==
    ASSUME TInv, LInv
    PROVE  /\ UNCHANGED targetVars => TInv'
           /\ UNCHANGED licenseVars => LInv'
  <1>1. ASSUME UNCHANGED targetVars PROVE TInv'
    BY <1>1 DEF targetVars, TInv, SavedIsCanonical, RequestsKnow, OneByOne, Explained, InFlight
  <1>2. ASSUME UNCHANGED licenseVars PROVE LInv'
    BY <1>2 DEF licenseVars, LInv, LicenseOneByOne, FileExplained, FileAgrees, Activate, Written
  <1>. QED
    BY <1>1, <1>2

\* Every step keeps both invariants.
LEMMA StepKeeps ==
    ASSUME TInv, LInv, [Next]_vars
    PROVE  TInv' /\ LInv'
  <1>1. CASE UNCHANGED vars
    BY <1>1, Unchanged DEF vars
  <1>2. ASSUME NEW r \in Requests,
               \/ \E raw \in Raws : AddCount(r, raw)
               \/ AddCheck(r) \/ AddTarget(r) \/ SaveTarget(r)
               \/ \E d \in Domains : RemoveTarget(r, d)
               \/ DeleteTarget(r) \/ StoreFails(r)
        PROVE  TInv' /\ LInv'
    <2>1. UNCHANGED licenseVars
      BY <1>2 DEF AddCount, AddCheck, AddTarget, SaveTarget, RemoveTarget, DeleteTarget, StoreFails
    <2>2. TInv'
      BY <1>2, AddCountKeeps, AddCheckKeeps, AddTargetKeeps, RemoveTargetKeeps, TableStepKeeps
    <2>. QED
      BY <2>1, <2>2, Unchanged
  <1>3. ASSUME NEW a \in Admins,
               \/ \E key \in Keys : SetLicense(a, key)
               \/ WriteFile(a) \/ WriteFails(a) \/ SetActivation(a)
        PROVE  TInv' /\ LInv'
    <2>1. UNCHANGED targetVars
      BY <1>3 DEF SetLicense, WriteFile, WriteFails, SetActivation
    <2>2. LInv'
      BY <1>3, SetLicenseKeeps, WriteFileKeeps, WriteFailsKeeps, SetActivationKeeps
    <2>. QED
      BY <2>1, <2>2, Unchanged
  <1>4. ASSUME NEW key \in Keys, Expire(key)
        PROVE  TInv' /\ LInv'
    <2>1. UNCHANGED targetVars
      BY <1>4 DEF Expire
    <2>. QED
      BY <1>4, <2>1, ExpireKeeps, Unchanged
  <1>5. CASE Restart
    BY <1>5, RestartKeepsTargets, RestartKeepsLicense
  <1>. QED
    BY <1>1, <1>2, <1>3, <1>4, <1>5 DEF Next

\* Both halves hold in every reachable state.
THEOREM Invariance == Spec => [](TInv /\ LInv)
  <1>1. Init => TInv /\ LInv
    BY InitHolds
  <1>2. TInv /\ LInv /\ [Next]_vars => (TInv /\ LInv)'
    BY StepKeeps
  <1>. QED
    BY <1>1, <1>2, PTL DEF Spec

\* The state keeps its shape, whatever requests are served at once.
THEOREM TypeCorrect == Spec => []TypeOK
  <1>1. TInv /\ LInv => TypeOK
    BY DEF TInv, LInv, TypeOK
  <1>. QED
    BY <1>1, Invariance, PTL

\* Registry and table agree on every domain, or differ in the way the failure or
\* the overlap says, failed listings included, for any number of domains and of
\* requests served at once (handleAddTarget, handleRemoveTarget, main).
THEOREM RestartIsExplained == Spec => []RestartRestores
  <1>1. TInv => RestartRestores
    <2>. SUFFICES ASSUME TInv, NEW d \in Domains, InFlight(d) = {}
                  PROVE  /\ d \in Restored <=> d \in SavedDomains
                         /\ apart[d] = "no" => (d \in registry <=> d \in SavedDomains)
                         /\ apart[d] = "unsaved" => d \in registry
                         /\ apart[d] = "undeleted" => d \notin registry
                         /\ apart[d] = "unlisted" => d \notin registry /\ d \in SavedDomains
      BY DEF RestartRestores
    <2>1. apart[d] # "overlapped" => Explained(d)
      BY DEF TInv, OneByOne
    <2>. QED
      BY <2>1, RestoredIsSaved DEF SavedDomains, Explained
  <1>. QED
    BY <1>1, Invariance, PTL

\* The tier in force is the one of the license file, or differs from it in the way the
\* failed read or the failed write says, or because two requests crossed, for any number of keys and of
\* license requests served at once (handleSetLicense, NewServer).
THEOREM LicenseIsExplained == Spec => []LicenseSurvivesRestart
  <1>1. LInv => LicenseSurvivesRestart
    BY DEF LInv, LicenseOneByOne, FileExplained, Written, LicenseSurvivesRestart
  <1>. QED
    BY <1>1, Invariance, PTL

----------------------------------------------------------------------------
\* What was added and not only brought back by a restart.
Added == registry \ revived

\* Add requests that counted fewer than k targets and have not registered theirs.
Pending(k) ==
    {r \in Requests : req[r].pc \in {"counted", "allowed"} /\ req[r].current < k}

\* Whatever limit k may come into force, the targets added and the requests that
\* it would still let through come to less than k and all the requests.
RoomForAll ==
    \A k \in Nat : k >= top =>
        Cardinality(Added) + Cardinality(Pending(k)) < k + Cardinality(Requests)

\* A request that was let through counted less than a limit that was in force.
AllowedBelowTop == \A r \in Requests : req[r].pc = "allowed" => req[r].current < top

\* The inductive invariant of the limit; once no limit was in force there is
\* nothing left to count.
OInv ==
    /\ Limit(activation) <= top
    /\ top >= Cardinality(Domains) \/ (AllowedBelowTop /\ RoomForAll)

\* The sets that are counted are finite.
LEMMA Countable ==
    ASSUME TInv
    PROVE  /\ IsFiniteSet(registry) /\ IsFiniteSet(Added)
           /\ Cardinality(registry) \in Nat /\ Cardinality(Added) \in Nat
           /\ Cardinality(Added) <= Cardinality(registry)
           /\ Cardinality(registry) <= Cardinality(Domains) /\ Cardinality(Domains) \in Nat
           /\ Cardinality(Requests) \in Nat \ {0}
           /\ \A k : /\ IsFiniteSet(Pending(k))
                     /\ Cardinality(Pending(k)) \in Nat
                     /\ Cardinality(Pending(k)) <= Cardinality(Requests)
  <1>1. registry \subseteq Domains /\ Added \subseteq registry
    BY DEF TInv, Added
  <1>2. IsFiniteSet(registry) /\ Cardinality(registry) <= Cardinality(Domains)
    BY <1>1, TargetsAssumption, FS_Subset
  <1>3. IsFiniteSet(Added) /\ Cardinality(Added) <= Cardinality(registry)
    BY <1>1, <1>2, FS_Subset
  <1>4. \A k : IsFiniteSet(Pending(k)) /\ Cardinality(Pending(k)) <= Cardinality(Requests)
    BY TargetsAssumption, FS_Subset DEF Pending
  <1>5. Cardinality(Requests) \in Nat \ {0}
    BY TargetsAssumption, FS_CardinalityType, FS_EmptySet
  <1>6. /\ Cardinality(registry) \in Nat /\ Cardinality(Added) \in Nat
        /\ Cardinality(Domains) \in Nat /\ \A k : Cardinality(Pending(k)) \in Nat
    BY <1>2, <1>3, <1>4, TargetsAssumption, FS_CardinalityType
  <1>. QED
    BY <1>2, <1>3, <1>4, <1>5, <1>6

\* A step that counts nothing new keeps the room.
LEMMA RoomKept ==
    ASSUME TInv, LInv, TInv', LInv', top <= top', Added' \subseteq Added,
           \A k \in Nat : Pending(k)' \subseteq Pending(k), RoomForAll
    PROVE  RoomForAll'
  <1>. SUFFICES ASSUME NEW k \in Nat, k >= top'
                PROVE  Cardinality(Added') + Cardinality(Pending(k)') < k + Cardinality(Requests)
    BY DEF RoomForAll
  <1>1. Cardinality(Added) + Cardinality(Pending(k)) < k + Cardinality(Requests)
    <2>1. top \in Nat /\ top' \in Nat
      BY DEF LInv
    <2>2. k >= top
      BY <2>1
    <2>. QED
      BY <2>2 DEF RoomForAll
  <1>2. Cardinality(Added') <= Cardinality(Added) /\ Cardinality(Added') \in Nat
    BY Countable, FS_Subset, FS_CardinalityType
  <1>3. Cardinality(Pending(k)') <= Cardinality(Pending(k)) /\ Cardinality(Pending(k)') \in Nat
    <2>1. IsFiniteSet(Pending(k)) /\ Pending(k)' \subseteq Pending(k)
      BY Countable
    <2>. QED
      BY <2>1, FS_Subset, FS_CardinalityType
  <1>. QED
    BY <1>1, <1>2, <1>3, Countable

\* The license requests and a restart may raise the limit.
LEMMA LicenseStepRoom ==
    ASSUME TInv, LInv, TInv', LInv', OInv,
           \/ UNCHANGED <<activation, top>>
           \/ top' = Greater(top, Limit(activation')),
           \/ UNCHANGED <<registry, revived, req>>
           \/ Restart
    PROVE  OInv'
  <1>1. top \in Nat /\ top' \in Nat /\ Limit(activation) \in Nat /\ Limit(activation') \in Nat
    BY LimitIsNat DEF LInv
  <1>2. top <= top' /\ Limit(activation') <= top'
    BY <1>1 DEF Greater, OInv
  <1>3. Limit(activation)' = Limit(activation')
    BY DEF Limit
  <1>4. Added' \subseteq Added
    BY DEF Restart, Added
  <1>5. /\ \A k \in Nat : Pending(k)' \subseteq Pending(k)
        /\ \A r \in Requests : req'[r].pc = "allowed" => req[r].pc = "allowed" /\ req'[r] = req[r]
    <2>1. CASE UNCHANGED req
      BY <2>1 DEF Pending
    <2>2. CASE req' = [r \in Requests |-> IdleRequest]
      BY <2>2 DEF Pending, IdleRequest
    <2>. QED
      BY <2>1, <2>2 DEF Restart
  <1>6. CASE top >= Cardinality(Domains)
    BY <1>1, <1>2, <1>3, <1>6, Countable DEF OInv
  <1>7. CASE AllowedBelowTop /\ RoomForAll
    <2>1. RoomForAll'
      BY <1>2, <1>4, <1>5, <1>7, RoomKept
    <2>2. AllowedBelowTop'
      <3>1. \A r \in Requests : req[r] \in Request
        BY DEF TInv
      <3>2. \A r \in Requests : req[r].current \in Nat
        BY <3>1 DEF Request
      <3>. QED
        BY <1>1, <1>2, <1>5, <1>7, <3>2 DEF AllowedBelowTop
    <2>. QED
      BY <1>2, <1>3, <2>1, <2>2 DEF OInv
  <1>. QED
    BY <1>6, <1>7 DEF OInv

\* A request counts the targets: those added are not more, and every other
\* request may be let through besides it.
LEMMA AddCountRoom ==
    ASSUME TInv, LInv, OInv, NEW r \in Requests, NEW raw \in Raws, AddCount(r, raw)
    PROVE  OInv'
  <1>. DEFINE rec == [pc |-> "counted", raw |-> raw, domain |-> Invalid,
                      current |-> Cardinality(registry)]
  <1>1. /\ req' = [req EXCEPT ![r] = rec]
        /\ UNCHANGED <<registry, revived, activation, top>>
    BY DEF AddCount, Put, licenseVars
  <1>2. rec.pc = "counted" /\ rec.current = Cardinality(registry)
    OBVIOUS
  <1>3. req \in [Requests -> Request]
    BY DEF TInv
  <1>. HIDE DEF rec
  <1>4. \A q \in Requests : req'[q] = IF q = r THEN rec ELSE req[q]
    BY <1>1, <1>3
  <1>5. ASSUME AllowedBelowTop PROVE AllowedBelowTop'
    BY <1>1, <1>2, <1>4, <1>5 DEF AllowedBelowTop
  <1>6. ASSUME RoomForAll PROVE RoomForAll'
    <2>. SUFFICES ASSUME NEW k \in Nat, k >= top
                  PROVE  Cardinality(Added') + Cardinality(Pending(k)') < k + Cardinality(Requests)
      BY <1>1 DEF RoomForAll
    <2>1. Added' = Added
      BY <1>1 DEF Added
    <2>2. Cardinality(Pending(k)') \in Nat /\ Cardinality(Pending(k)') <= Cardinality(Requests)
      <3>1. Pending(k)' \subseteq Requests
        BY DEF Pending
      <3>. QED
        BY <3>1, TargetsAssumption, FS_Subset, FS_CardinalityType
    <2>3. CASE Cardinality(registry) < k
      BY <2>1, <2>2, <2>3, Countable
    <2>4. CASE ~(Cardinality(registry) < k)
      <3>1. Pending(k)' \subseteq Pending(k)
        BY <1>2, <1>4, <2>4 DEF Pending
      <3>2. Cardinality(Pending(k)') <= Cardinality(Pending(k))
        BY <3>1, Countable, FS_Subset
      <3>3. Cardinality(Added) + Cardinality(Pending(k)) < k + Cardinality(Requests)
        BY <1>6 DEF RoomForAll
      <3>. QED
        BY <2>1, <2>2, <3>2, <3>3, Countable
    <2>. QED
      BY <2>3, <2>4
  <1>. QED
    BY <1>1, <1>5, <1>6 DEF OInv, Limit

\* canAdd lets a request through that counted less than the limit in force.
LEMMA AddCheckRoom ==
    ASSUME TInv, LInv, OInv, NEW r \in Requests, AddCheck(r), TInv', LInv'
    PROVE  OInv'
  <1>1. /\ req[r].pc = "counted"
        /\ req' = [req EXCEPT ![r] = IF canAdd(req[r].current)
                                     THEN [req[r] EXCEPT !.pc = "allowed"] ELSE IdleRequest]
        /\ UNCHANGED <<registry, revived, activation, top>>
    BY DEF AddCheck, Put, licenseVars
  <1>2. req \in [Requests -> Request] /\ req[r].current \in Nat
    BY DEF TInv, Request
  <1>3. /\ \A q \in Requests : q # r => req'[q] = req[q]
        /\ req'[r].pc = "allowed" => canAdd(req[r].current) /\ req'[r].current = req[r].current
        /\ req'[r].pc \in {"counted", "allowed"} => req'[r].current = req[r].current
    BY <1>1, <1>2 DEF Request, IdleRequest
  <1>4. top \in Nat /\ activation \in Tiers /\ MaxTargets[activation] \in Nat
    BY TargetsAssumption DEF LInv
  <1>5. Limit(activation) <= top /\ Limit(activation)' = Limit(activation)
    BY <1>1 DEF OInv, Limit
  <1>6. \A k \in Nat : Pending(k)' \subseteq Pending(k)
    BY <1>1, <1>3 DEF Pending
  <1>7. CASE top >= Cardinality(Domains)
    BY <1>1, <1>5, <1>7 DEF OInv
  <1>8. CASE AllowedBelowTop /\ RoomForAll /\ ~(top >= Cardinality(Domains))
    <2>1. canAdd(req[r].current) => req[r].current < top
      <3>1. MaxTargets[activation] # 0
        BY <1>4, <1>5, <1>8, Countable DEF Limit
      <3>2. Limit(activation) = MaxTargets[activation]
        BY <3>1 DEF Limit
      <3>. QED
        BY <1>2, <1>4, <1>5, <3>1, <3>2 DEF canAdd
    <2>2. AllowedBelowTop'
      BY <1>1, <1>3, <1>8, <2>1 DEF AllowedBelowTop
    <2>3. RoomForAll'
      <3>1. Added' \subseteq Added /\ top <= top'
        BY <1>1, <1>4 DEF Added
      <3>. QED
        BY <1>6, <1>8, <3>1, RoomKept
    <2>. QED
      BY <1>1, <1>5, <2>2, <2>3 DEF OInv
  <1>. QED
    BY <1>7, <1>8 DEF OInv

\* A request registers its target: one more is added, one request less is pending.
LEMMA AddTargetRoom ==
    ASSUME TInv, LInv, OInv, NEW r \in Requests, AddTarget(r), TInv', LInv'
    PROVE  OInv'
  <1>1. /\ req[r].pc = "allowed"
        /\ UNCHANGED <<revived, activation, top>>
        /\ \E d : registry' \subseteq registry \cup {d}
    BY DEF AddTarget, licenseVars
  <1>2. req \in [Requests -> Request] /\ req[r].current \in Nat /\ top \in Nat
    BY DEF TInv, LInv, Request
  <1>3. /\ \A q \in Requests : q # r => req'[q] = req[q]
        /\ req'[r].pc \in {"idle", "adding"}
    <2>1. \/ req' = [req EXCEPT ![r] = IdleRequest]
          \/ \E d : req' = [req EXCEPT ![r] = [req[r] EXCEPT !.pc = "adding", !.domain = d]]
      BY DEF AddTarget, Put
    <2>2. CASE req' = [req EXCEPT ![r] = IdleRequest]
      BY <1>2, <2>2 DEF IdleRequest
    <2>3. ASSUME NEW d, req' = [req EXCEPT ![r] = [req[r] EXCEPT !.pc = "adding", !.domain = d]]
          PROVE  /\ \A q \in Requests : q # r => req'[q] = req[q]
                 /\ req'[r].pc = "adding"
      BY <1>2, <2>3 DEF Request
    <2>. QED
      BY <2>1, <2>2, <2>3
  <1>4. Limit(activation) <= top /\ Limit(activation)' = Limit(activation)
    BY <1>1 DEF OInv, Limit
  <1>5. CASE top >= Cardinality(Domains)
    BY <1>1, <1>4, <1>5 DEF OInv
  <1>6. CASE AllowedBelowTop /\ RoomForAll
    <2>1. AllowedBelowTop'
      BY <1>1, <1>3, <1>6 DEF AllowedBelowTop
    <2>2. RoomForAll'
      <3>. SUFFICES ASSUME NEW k \in Nat, k >= top
                    PROVE  Cardinality(Added') + Cardinality(Pending(k)') < k + Cardinality(Requests)
        BY <1>1 DEF RoomForAll
      <3>1. Cardinality(Added) + Cardinality(Pending(k)) < k + Cardinality(Requests)
        BY <1>6 DEF RoomForAll
      <3>2. r \in Pending(k)
        <4>1. req[r].current < top
          BY <1>1, <1>6 DEF AllowedBelowTop
        <4>. QED
          BY <1>1, <1>2, <4>1 DEF Pending
      <3>3. Pending(k)' = Pending(k) \ {r}
        BY <1>3 DEF Pending
      <3>4. Cardinality(Pending(k)') = Cardinality(Pending(k)) - 1
        BY <3>2, <3>3, Countable, FS_RemoveElement
      <3>5. Cardinality(Added') <= Cardinality(Added) + 1 /\ Cardinality(Added') \in Nat
        <4>1. PICK d : registry' \subseteq registry \cup {d}
          BY <1>1
        <4>2. Added' \subseteq Added \cup {d}
          BY <1>1, <4>1 DEF Added
        <4>3. /\ IsFiniteSet(Added \cup {d})
              /\ Cardinality(Added \cup {d}) \in Nat
              /\ Cardinality(Added \cup {d}) <= Cardinality(Added) + 1
          <5>1. IsFiniteSet(Added) /\ Cardinality(Added) \in Nat
            BY Countable
          <5>2. /\ IsFiniteSet(Added \cup {d})
                /\ \/ Cardinality(Added \cup {d}) = Cardinality(Added)
                   \/ Cardinality(Added \cup {d}) = Cardinality(Added) + 1
            <6>. HIDE DEF Added
            <6>. QED
              BY <5>1, FS_AddElement
          <5>. QED
            BY <5>1, <5>2
        <4>4. Cardinality(Added') <= Cardinality(Added \cup {d}) /\ IsFiniteSet(Added')
          BY <4>2, <4>3, FS_Subset
        <4>. QED
          BY <4>3, <4>4, Countable, FS_CardinalityType
      <3>. QED
        BY <3>1, <3>4, <3>5, Countable
    <2>. QED
      BY <1>1, <1>4, <2>1, <2>2 DEF OInv
  <1>. QED
    BY <1>5, <1>6 DEF OInv

\* Removing a target, and the steps on the table, count nothing.
LEMMA OtherStepRoom ==
    ASSUME TInv, LInv, OInv, TInv', LInv', NEW r \in Requests,
           \/ SaveTarget(r) \/ DeleteTarget(r) \/ StoreFails(r)
           \/ \E d \in Domains : RemoveTarget(r, d)
    PROVE  OInv'
  <1>1. UNCHANGED <<activation, top>> /\ Added' \subseteq Added
    BY DEF SaveTarget, DeleteTarget, StoreFails, RemoveTarget, licenseVars, Added
  <1>2. req \in [Requests -> Request]
    BY DEF TInv
  <1>3. /\ \A q \in Requests : q # r => req'[q] = req[q]
        /\ req'[r].pc \in {"idle", "removing"}
    <2>1. CASE req' = [req EXCEPT ![r] = IdleRequest]
      BY <1>2, <2>1 DEF IdleRequest
    <2>2. CASE \E d \in Domains : req' = [req EXCEPT ![r] = [req[r] EXCEPT !.pc = "removing", !.domain = d]]
      BY <1>2, <2>2 DEF Request
    <2>. QED
      BY <2>1, <2>2 DEF SaveTarget, DeleteTarget, StoreFails, RemoveTarget, Put
  <1>4. \A k \in Nat : Pending(k)' \subseteq Pending(k)
    BY <1>3 DEF Pending
  <1>5. Limit(activation)' = Limit(activation) /\ top <= top'
    BY <1>1 DEF Limit, LInv
  <1>6. AllowedBelowTop => AllowedBelowTop'
    BY <1>1, <1>3 DEF AllowedBelowTop
  <1>7. RoomForAll => RoomForAll'
    BY <1>1, <1>4, <1>5, RoomKept
  <1>. QED
    BY <1>1, <1>5, <1>6, <1>7 DEF OInv

\* Every step keeps the room.
LEMMA StepRoom ==
    ASSUME TInv, LInv, OInv, [Next]_vars
    PROVE  OInv'
  <1>0. TInv' /\ LInv'
    BY StepKeeps
  <1>1. CASE UNCHANGED vars
    <2>1. UNCHANGED <<activation, top>> /\ UNCHANGED <<registry, revived, req>>
      BY <1>1 DEF vars, targetVars, licenseVars
    <2>. QED
      BY <1>0, <2>1, LicenseStepRoom
  <1>2. ASSUME NEW a \in Admins,
               \/ \E key \in Keys : SetLicense(a, key)
               \/ WriteFile(a) \/ WriteFails(a) \/ SetActivation(a)
        PROVE  OInv'
    <2>1. /\ UNCHANGED <<activation, top>> \/ top' = Greater(top, Limit(activation'))
          /\ UNCHANGED <<registry, revived, req>>
      BY <1>2 DEF SetLicense, WriteFile, WriteFails, SetActivation, targetVars
    <2>. QED
      BY <1>0, <2>1, LicenseStepRoom
  <1>3. ASSUME NEW key \in Keys, Expire(key) PROVE OInv'
    <2>1. UNCHANGED <<activation, top>> /\ UNCHANGED <<registry, revived, req>>
      BY <1>3 DEF Expire, targetVars
    <2>. QED
      BY <1>0, <2>1, LicenseStepRoom
  <1>4. CASE Restart
    <2>1. top' = Greater(top, Limit(activation'))
      BY <1>4 DEF Restart
    <2>. QED
      BY <1>0, <1>4, <2>1, LicenseStepRoom
  <1>. QED
    BY <1>0, <1>1, <1>2, <1>3, <1>4, AddCountRoom, AddCheckRoom, AddTargetRoom, OtherStepRoom
       DEF Next

\* Requests that overlap exceed the tier's limit by at most the other requests
\* served at once, for every limit, every number of requests and every change of
\* the license meanwhile (handleAddTarget counts, checks and adds in three steps).
THEOREM OvershootIsBounded == Spec => []LimitOvershoot
  <1>1. Init => OInv
    <2>. SUFFICES ASSUME Init PROVE OInv
      OBVIOUS
    <2>1. TInv /\ LInv
      BY InitHolds
    <2>2. Limit(activation) <= top
      BY <2>1, LimitIsNat DEF Init, LInv
    <2>3. AllowedBelowTop /\ \A k \in Nat : Pending(k) = {}
      BY DEF Init, AllowedBelowTop, Pending, IdleRequest
    <2>4. Added = {}
      BY DEF Init, Added
    <2>5. RoomForAll
      <3>1. Cardinality({}) = 0
        BY FS_EmptySet
      <3>. QED
        BY <2>1, <2>3, <2>4, <3>1, Countable DEF RoomForAll
    <2>. QED
      BY <2>2, <2>3, <2>5 DEF OInv
  <1>2. (TInv /\ LInv) /\ OInv /\ [Next]_vars => OInv'
    BY StepRoom
  <1>3. (TInv /\ LInv) /\ OInv => LimitOvershoot
    <2>. SUFFICES ASSUME TInv, LInv, OInv PROVE LimitOvershoot
      OBVIOUS
    <2>1. top \in Nat
      BY DEF LInv
    <2>2. CASE top >= Cardinality(Domains)
      BY <2>1, <2>2, Countable DEF LimitOvershoot, Added
    <2>3. CASE RoomForAll
      <3>1. Cardinality(Added) + Cardinality(Pending(top)) < top + Cardinality(Requests)
        BY <2>1, <2>3 DEF RoomForAll
      <3>2. Cardinality(Pending(top)) \in Nat
        BY Countable
      <3>. QED
        BY <2>1, <3>1, <3>2, Countable DEF LimitOvershoot, Added
    <2>. QED
      BY <2>2, <2>3 DEF OInv
  <1>. QED
    BY <1>1, <1>2, <1>3, Invariance, PTL DEF Spec

=============================================================================
