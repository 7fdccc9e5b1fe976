------------------------------ MODULE Targets ------------------------------
(***************************************************************************)
(* The watched domains and the license: the add, remove and license        *)
(* requests of the dashboard (web/server.go), the tier limits (license/),  *)
(* the targets table (store/sqlite.go), the license file, and the restart  *)
(* that rebuilds registry and activation from table and file (main.go).    *)
(*                                                                         *)
(* Requests run concurrently; each call they make on the registry, the     *)
(* table, the file or the activation is an action.  The registry's scans   *)
(* are module Scheduler.                                                   *)
(***************************************************************************)
EXTENDS Naturals, FiniteSets

CONSTANTS
    Domains,    \* canonical targets
    Raws,       \* what a user may type
    Canonical,  \* Collector.ValidateTarget: raw -> domain, or Invalid
    Invalid,
    NoRaw,
    Requests,   \* add and remove requests served at once
    Admins,     \* license requests served at once
    Keys,       \* license keys that may be posted; NoKey is the empty one
    NoKey,
    Grants,     \* the tier a key is signed for, "invalid" if Verify refuses it
    MaxTargets  \* limit of every tier, 0 = unlimited

Tiers == {"free", "pro", "team", "other"}

ASSUME TargetsAssumption ==
    /\ IsFiniteSet(Domains) /\ IsFiniteSet(Requests) /\ Requests # {}
    /\ Invalid \notin Domains
    /\ NoRaw \notin Raws
    /\ Canonical \in [Raws -> Domains \cup {Invalid}]
    /\ NoKey \in Keys
    /\ Grants \in [Keys -> (Tiers \ {"free"}) \cup {"invalid"}]
    /\ MaxTargets \in [Tiers -> Nat]

VARIABLES
    registry,   \* reg.targets of the scheduler
    saved,      \* the targets table: raw of each canonical, or NoRaw
    req,        \* add and remove requests
    file,       \* key in the license file
    activation, \* tier of s.activation
    admin,      \* license requests
    expired,    \* keys whose ExpiresAt has passed
    apart,      \* observer: why registry and table may differ on a domain
    revived,    \* observer: domains a restart brought back into the registry
    fileApart,  \* observer: why tier in force and license file may differ
    top         \* observer: highest limit in force so far

targetVars == <<registry, saved, req, apart, revived>>
licenseVars == <<file, activation, admin, expired, fileApart, top>>
vars == <<targetVars, licenseVars>>

----------------------------------------------------------------------------
Request == [pc : {"idle", "counted", "allowed", "adding", "removing"},
            raw : Raws \cup {NoRaw}, domain : Domains \cup {Invalid}, current : Nat]

IdleRequest == [pc |-> "idle", raw |-> NoRaw, domain |-> Invalid, current |-> 0]

Admin == [pc : {"idle", "writing", "written"}, key : Keys]

IdleAdmin == [pc |-> "idle", key |-> NoKey]

\* Requests on one domain overlapped; SaveTarget or DeleteTarget failed; a start
\* could not list the table.
Reasons == {"no", "overlapped", "unsaved", "undeleted", "unlisted"}

\* A request wrote over the key of another that was not yet in force; a write cut the
\* file short; a start could not read it.
FileReasons == {"no", "crossed", "cut", "unread"}

SavedDomains == {d \in Domains : saved[d] # NoRaw}

\* Requests on d between their step on the registry and the one on the table.
InFlight(d) == {r \in Requests : req[r].pc \in {"adding", "removing"} /\ req[r].domain = d}

\* The limit as a number; Cardinality(Domains) stands for "unlimited".
Limit(tier) == IF MaxTargets[tier] = 0 THEN Cardinality(Domains) ELSE MaxTargets[tier]

Greater(a, b) == IF a > b THEN a ELSE b

Put(r, rec) == req' = [req EXCEPT ![r] = rec]

PutAdmin(a, rec) == admin' = [admin EXCEPT ![a] = rec]

----------------------------------------------------------------------------
\* Faulty forms of definitions below, each a slip the code could have made.
canAddOneMore(current) == MaxTargets[activation] = 0 \/ current <= MaxTargets[activation]
RestoredRaw == {saved[d] : d \in SavedDomains}
DeleteTargetForgets(r) ==
    /\ req[r].pc = "removing"
    /\ Put(r, IdleRequest)
    /\ UNCHANGED <<registry, saved, apart, revived, licenseVars>>
WriteFailsQuietly(a) ==
    /\ admin[a].pc = "writing"
    /\ PutAdmin(a, [admin[a] EXCEPT !.pc = "written"])
    /\ UNCHANGED <<targetVars, file, activation, expired, fileApart, top>>

----------------------------------------------------------------------------
\* license.Activate on a key now: any problem means the free tier.
Activate(key) ==
    IF key = NoKey \/ Grants[key] = "invalid" \/ key \in expired THEN "free" ELSE Grants[key]

\* canAdd on effLimits.
canAdd(current) == MaxTargets[activation] = 0 \/ current < MaxTargets[activation]

\* SaveTarget: the first raw of a canonical stays.
Saved(d, raw) == [saved EXCEPT ![d] = IF @ = NoRaw THEN raw ELSE @]

\* main: AddTarget of every raw that ListSavedTargets returns.
Restored == {Canonical[saved[d]] : d \in SavedDomains} \ {Invalid}

Init ==
    /\ registry = {}
    /\ saved = [d \in Domains |-> NoRaw]
    /\ req = [r \in Requests |-> IdleRequest]
    /\ file = NoKey
    /\ activation = "free"
    /\ admin = [a \in Admins |-> IdleAdmin]
    /\ expired = {}
    /\ apart = [d \in Domains |-> "no"]
    /\ revived = {}
    /\ fileApart = "no"
    /\ top = Limit("free")

----------------------------------------------------------------------------
\* handleAddTarget: ListTargets.
AddCount(r, raw) ==
    /\ req[r].pc = "idle"
    /\ Put(r, [pc |-> "counted", raw |-> raw, domain |-> Invalid, current |-> Cardinality(registry)])
    /\ UNCHANGED <<registry, saved, apart, revived, licenseVars>>

\* handleAddTarget: the limits in force now; 402 if there is no room.
AddCheck(r) ==
    /\ req[r].pc = "counted"
    /\ Put(r, IF canAdd(req[r].current) THEN [req[r] EXCEPT !.pc = "allowed"] ELSE IdleRequest)
    /\ UNCHANGED <<registry, saved, apart, revived, licenseVars>>

\* A request steps on the registry: what it does to d is open until its statement.
Touch(d) == apart' = [apart EXCEPT ![d] = IF InFlight(d) = {} THEN "no" ELSE "overlapped"]

\* handleAddTarget: Scheduler.AddTarget; 400 if the collector refuses the input.
AddTarget(r) ==
    LET d == Canonical[req[r].raw] IN
    /\ req[r].pc = "allowed"
    /\ \/ /\ d = Invalid
          /\ Put(r, IdleRequest)
          /\ UNCHANGED <<registry, apart>>
       \/ /\ d # Invalid
          /\ registry' = registry \cup {d}
          /\ Put(r, [req[r] EXCEPT !.pc = "adding", !.domain = d])
          /\ Touch(d)
    /\ UNCHANGED <<saved, revived, licenseVars>>

\* handleAddTarget: SaveTarget.
SaveTarget(r) ==
    /\ req[r].pc = "adding"
    /\ saved' = Saved(req[r].domain, req[r].raw)
    /\ Put(r, IdleRequest)
    /\ UNCHANGED <<registry, apart, revived, licenseVars>>

\* handleRemoveTarget: Scheduler.RemoveTarget.
RemoveTarget(r, d) ==
    /\ req[r].pc = "idle"
    /\ registry' = registry \ {d}
    /\ revived' = revived \ {d}
    /\ Put(r, [req[r] EXCEPT !.pc = "removing", !.domain = d])
    /\ Touch(d)
    /\ UNCHANGED <<saved, licenseVars>>

\* handleRemoveTarget: DeleteTarget.
DeleteTarget(r) ==
    /\ req[r].pc = "removing"
    /\ saved' = [saved EXCEPT ![req[r].domain] = NoRaw]
    /\ Put(r, IdleRequest)
    /\ UNCHANGED <<registry, apart, revived, licenseVars>>

\* The statement fails: an add answers 500, a remove answers ok all the same.
StoreFails(r) ==
    /\ req[r].pc \in {"adding", "removing"}
    /\ apart' = [apart EXCEPT ![req[r].domain] =
                   IF @ = "overlapped" THEN @
                   ELSE IF req[r].pc = "adding" THEN "unsaved" ELSE "undeleted"]
    /\ Put(r, IdleRequest)
    /\ UNCHANGED <<registry, saved, revived, licenseVars>>

----------------------------------------------------------------------------
\* License requests whose key is written and not yet in force.
Written == {a \in Admins : admin[a].pc = "written"}

\* handleSetLicense up to WriteFile: a non-empty key that gives no paid tier is refused.
SetLicense(a, key) ==
    /\ admin[a].pc = "idle"
    /\ key = NoKey \/ Activate(key) # "free"
    /\ PutAdmin(a, [pc |-> "writing", key |-> key])
    /\ UNCHANGED <<targetVars, file, activation, expired, fileApart, top>>

WriteFile(a) ==
    /\ admin[a].pc = "writing"
    /\ file' = admin[a].key
    /\ PutAdmin(a, [admin[a] EXCEPT !.pc = "written"])
    /\ fileApart' = IF Written = {} THEN fileApart ELSE "crossed"
    /\ UNCHANGED <<targetVars, activation, expired, top>>

\* WriteFile fails, perhaps after it has truncated the file: 500.
WriteFails(a) ==
    /\ admin[a].pc = "writing"
    /\ \/ UNCHANGED <<file, fileApart>>
       \/ file' = NoKey /\ fileApart' = "cut"
    /\ PutAdmin(a, IdleAdmin)
    /\ UNCHANGED <<targetVars, activation, expired, top>>

\* handleSetLicense: the activation resolved before the write comes into force.
SetActivation(a) ==
    /\ admin[a].pc = "written"
    /\ activation' = IF admin[a].key = NoKey THEN "free" ELSE Grants[admin[a].key]
    /\ top' = Greater(top, Limit(activation'))
    /\ PutAdmin(a, IdleAdmin)
    /\ fileApart' = IF file = admin[a].key /\ Written = {a} THEN "no" ELSE fileApart
    /\ UNCHANGED <<targetVars, file, expired>>

\* ExpiresAt of a key passes.
Expire(key) ==
    /\ key \notin expired
    /\ Grants[key] # "invalid"
    /\ expired' = expired \cup {key}
    /\ UNCHANGED <<targetVars, file, activation, admin, fileApart, top>>

\* The process ends, in the middle of a WriteFile perhaps, and is started again.
\* If ListSavedTargets fails, main goes on with no target and says nothing; if the
\* license file cannot be read, NewServer takes the empty key.
Restart ==
    \E listed, readable \in BOOLEAN :
        /\ \/ UNCHANGED file
           \/ (\E a \in Admins : admin[a].pc = "writing") /\ file' = NoKey
        /\ registry' = IF listed THEN Restored ELSE {}
        /\ revived' = (revived \cup (registry' \ registry)) \cap registry'
        /\ apart' = [d \in Domains |-> IF ~listed /\ d \in SavedDomains THEN "unlisted" ELSE "no"]
        /\ req' = [r \in Requests |-> IdleRequest]
        /\ admin' = [a \in Admins |-> IdleAdmin]
        /\ activation' = IF readable /\ file' # NoKey THEN Activate(file) ELSE "free"
        /\ top' = Greater(top, Limit(activation'))
        /\ fileApart' = IF readable THEN "no" ELSE "unread"
        /\ UNCHANGED <<saved, expired>>

Next ==
    \/ \E r \in Requests :
         \/ \E raw \in Raws : AddCount(r, raw)
         \/ AddCheck(r) \/ AddTarget(r) \/ SaveTarget(r)
         \/ \E d \in Domains : RemoveTarget(r, d)
         \/ DeleteTarget(r) \/ StoreFails(r)
    \/ \E a \in Admins :
         \/ \E key \in Keys : SetLicense(a, key)
         \/ WriteFile(a) \/ WriteFails(a) \/ SetActivation(a)
    \/ \E key \in Keys : Expire(key)
    \/ Restart

Spec == Init /\ [][Next]_vars

----------------------------------------------------------------------------
\* The shape of the state.
TypeOK ==
    /\ registry \in SUBSET Domains
    /\ saved \in [Domains -> Raws \cup {NoRaw}]
    /\ req \in [Requests -> Request]
    /\ file \in Keys
    /\ activation \in Tiers
    /\ admin \in [Admins -> Admin]
    /\ expired \in SUBSET Keys
    /\ apart \in [Domains -> Reasons]
    /\ revived \in SUBSET Domains
    /\ fileApart \in FileReasons
    /\ top \in Nat

\* Between requests, the table holds what the next start that can list it will
\* watch, and registry and table agree on a domain however the requests on other
\* domains interleave.  Where they differ there is a reason, and it says how: the
\* save failed (watched, until the next start), the delete failed (not watched, until
\* the next start), the last start could not list the table (not watched, but kept
\* in the table whatever is done to the others), or an add and a remove of this
\* very domain overlapped.  So "a restart restores them exactly" (store/targets.go)
\* is true of the starts that can list the table and of domains without a failure
\* or an overlap of their own (handleAddTarget, handleRemoveTarget, main).
RestartRestores ==
    \A d \in Domains : InFlight(d) = {} =>
        /\ d \in Restored <=> d \in SavedDomains
        /\ apart[d] = "no" => (d \in registry <=> d \in SavedDomains)
        /\ apart[d] = "unsaved" => d \in registry
        /\ apart[d] = "undeleted" => d \notin registry
        /\ apart[d] = "unlisted" => d \notin registry /\ d \in SavedDomains

\* The limit is checked before the target is registered, so requests that overlap
\* can exceed it, but only by the requests that overlap: what was added never
\* exceeds the highest limit in force so far by as many as the requests served
\* at once.  (A restart asks for no limit: what only it brought back is apart.)
LimitOvershoot ==
    Cardinality(registry \ revived) <= top + Cardinality(Requests) - 1

\* The tier in force is the one of the license file, or its key has expired since.
FileAgrees == activation = Activate(file) \/ (file \in expired /\ activation = Grants[file])

\* Outside of license requests, the tier in force is the one that a restart would
\* find in the license file.  Where it is not there is a reason: the file could not
\* be read at the start (the free tier is in force), a failed write cut it short (it
\* is empty), or of two requests one wrote the file between the write and the
\* activation of the other.  No other overlap and no other failure sets them apart
\* (handleSetLicense, NewServer).
LicenseSurvivesRestart ==
    (\A a \in Admins : admin[a].pc = "idle") =>
        /\ fileApart = "no" => FileAgrees
        /\ fileApart = "unread" => activation = "free"
        /\ fileApart = "cut" => file = NoKey

=============================================================================
