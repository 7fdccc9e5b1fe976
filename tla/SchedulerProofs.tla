-------------------------- MODULE SchedulerProofs --------------------------
(***************************************************************************)
(* Proofs about module Scheduler, for every set of targets, scans and      *)
(* callers and every setting of Config: the shape of the state, the slots  *)
(* of the scans under way, the backoff against the documented rule, and    *)
(* what Stop waits for.                                                    *)
(***************************************************************************)
EXTENDS Scheduler, Induction

----------------------------------------------------------------------------
\* backoffFor's loop: Doubled satisfies the equation that defines it.
LEMMA DoubledEquation ==
    /\ Doubled[0] = RetryBase
    /\ \A n \in Nat : Doubled[n + 1] =
         IF Doubled[n] * 2 >= RetryMax THEN RetryMax ELSE Doubled[n] * 2
  <1>. DEFINE g == [x \in Nat |-> IF x * 2 >= RetryMax THEN RetryMax ELSE x * 2]
  <1>1. RetryBase \in Nat /\ g \in [Nat -> Nat]
    BY SchedulerAssumption
  <1>2. Recursive(Nat, RetryBase, g) # {}
    <2>. HIDE DEF g
    <2>. QED
      BY <1>1, Recursion
  <1>3. PICK f \in [Nat -> Nat] : f[0] = RetryBase /\ \A n \in Nat : f[n + 1] = g[f[n]]
    BY <1>2 DEF Recursive
  <1>4. f = [n \in Nat |-> IF n = 0 THEN RetryBase
                           ELSE IF f[n - 1] * 2 >= RetryMax THEN RetryMax
                           ELSE f[n - 1] * 2]
    <2>1. ASSUME NEW n \in Nat, n # 0
          PROVE  f[n] = IF f[n - 1] * 2 >= RetryMax THEN RetryMax ELSE f[n - 1] * 2
      <3>1. n - 1 \in Nat /\ (n - 1) + 1 = n
        BY <2>1
      <3>. QED
        BY <1>3, <3>1
    <2>. QED
      BY <1>3, <2>1
  <1>5. Doubled = [n \in Nat |-> IF n = 0 THEN RetryBase
                           ELSE IF Doubled[n - 1] * 2 >= RetryMax THEN RetryMax
                           ELSE Doubled[n - 1] * 2]
    BY <1>4, Zenon DEF Doubled
  <1>6. Doubled[0] = RetryBase
    BY <1>5
  <1>7. ASSUME NEW n \in Nat
        PROVE  Doubled[n + 1] = IF Doubled[n] * 2 >= RetryMax THEN RetryMax ELSE Doubled[n] * 2
    <2>1. n + 1 \in Nat /\ n + 1 # 0 /\ (n + 1) - 1 = n
      OBVIOUS
    <2>2. Doubled[n + 1] = IF Doubled[(n + 1) - 1] * 2 >= RetryMax THEN RetryMax
                           ELSE Doubled[(n + 1) - 1] * 2
      BY <1>5, <2>1, Zenon
    <2>. QED
      BY <2>1, <2>2
  <1>. QED
    BY <1>6, <1>7

\* PowerOfTwo satisfies the equation that defines it.
LEMMA PowerOfTwoEquation ==
    /\ PowerOfTwo[0] = 1
    /\ \A n \in Nat : PowerOfTwo[n + 1] = 2 * PowerOfTwo[n]
  <1>. DEFINE g == [x \in Nat |-> 2 * x]
  <1>1. 1 \in Nat /\ g \in [Nat -> Nat]
    OBVIOUS
  <1>2. Recursive(Nat, 1, g) # {}
    <2>. HIDE DEF g
    <2>. QED
      BY <1>1, Recursion
  <1>3. PICK f \in [Nat -> Nat] : f[0] = 1 /\ \A n \in Nat : f[n + 1] = g[f[n]]
    BY <1>2 DEF Recursive
  <1>4. f = [n \in Nat |-> IF n = 0 THEN 1 ELSE 2 * f[n - 1]]
    <2>1. ASSUME NEW n \in Nat, n # 0 PROVE f[n] = 2 * f[n - 1]
      <3>1. n - 1 \in Nat /\ (n - 1) + 1 = n
        BY <2>1
      <3>. QED
        BY <1>3, <3>1
    <2>. QED
      BY <1>3, <2>1
  <1>5. PowerOfTwo = [n \in Nat |-> IF n = 0 THEN 1 ELSE 2 * PowerOfTwo[n - 1]]
    BY <1>4, Zenon DEF PowerOfTwo
  <1>6. PowerOfTwo[0] = 1
    BY <1>5
  <1>7. ASSUME NEW n \in Nat PROVE PowerOfTwo[n + 1] = 2 * PowerOfTwo[n]
    <2>1. n + 1 \in Nat /\ n + 1 # 0 /\ (n + 1) - 1 = n
      OBVIOUS
    <2>2. PowerOfTwo[n + 1] = 2 * PowerOfTwo[(n + 1) - 1]
      BY <1>5, <2>1, Zenon
    <2>. QED
      BY <2>1, <2>2
  <1>. QED
    BY <1>6, <1>7

\* The loop against the rule of Config: what is doubled step by step and cut at
\* each step is the power of two cut once.
LEMMA DoubledIsCappedPower ==
    ASSUME NEW n \in Nat
    PROVE  /\ Doubled[n] \in Nat
           /\ PowerOfTwo[n] \in Nat \ {0}
           /\ Lesser(Doubled[n], RetryMax) = Lesser(RetryBase * PowerOfTwo[n], RetryMax)
  <1>. DEFINE N == {m \in Nat : /\ Doubled[m] \in Nat
                                /\ PowerOfTwo[m] \in Nat \ {0}
                                /\ Lesser(Doubled[m], RetryMax) =
                                     Lesser(RetryBase * PowerOfTwo[m], RetryMax)}
  <1>. USE SchedulerAssumption
  <1>1. 0 \in N
    BY DoubledEquation, PowerOfTwoEquation
  <1>2. ASSUME NEW m \in Nat, m \in N PROVE m + 1 \in N
    <2>1. PICK d \in Nat : d = Doubled[m]
      BY <1>2
    <2>2. PICK p \in Nat \ {0} : p = PowerOfTwo[m]
      BY <1>2
    <2>3. PICK q \in Nat : q = RetryBase * p
      BY <2>2
    <2>4. Lesser(d, RetryMax) = Lesser(q, RetryMax)
      BY <1>2, <2>1, <2>2, <2>3
    <2>5. /\ Doubled[m + 1] = IF d * 2 >= RetryMax THEN RetryMax ELSE d * 2
          /\ PowerOfTwo[m + 1] = 2 * p
      BY <2>1, <2>2, DoubledEquation, PowerOfTwoEquation
    <2>6. RetryBase * PowerOfTwo[m + 1] = 2 * q
      <3>1. RetryBase * (2 * p) = 2 * (RetryBase * p)
        BY <2>2
      <3>. QED
        BY <2>3, <2>5, <3>1
    <2>7. Lesser(Doubled[m + 1], RetryMax) = Lesser(2 * q, RetryMax)
      BY <2>4, <2>5 DEF Lesser
    <2>. QED
      BY <2>5, <2>6, <2>7
  <1>3. Nat \subseteq N
    <2>. HIDE DEF N
    <2>. QED
      BY <1>1, <1>2, SetInduction
  <1>. QED
    BY <1>3

----------------------------------------------------------------------------
\* The slots: the scans in progress can be counted, and the channel holds as many.
\* Jobs need not be finite: only Acquire adds a scan in progress.
SlotsHeld == IsFiniteSet(InScan) /\ sem = Cardinality(InScan)

\* The inductive invariant.  Its parts support each other in one place: the
\* backoff of a target is within RetryMax because its failure count is a number.
IInv == TypeOK /\ SlotsHeld /\ BackoffFits /\ SweepsEndWithStop

\* AnyTarget is a target, so the idle records are of their types.
LEMMA IdleTyped == FreeJob \in Job /\ IdleAdder \in Adder /\ IdleCall \in Call
  <1>1. AnyTarget \in Targets
    BY SchedulerAssumption DEF AnyTarget
  <1>. QED
    BY <1>1 DEF FreeJob, IdleAdder, IdleCall, Job, Adder, Call, Origins

\* The backoff that Book writes is the one of the documented rule, within RetryMax.
LEMMA BackoffForFits ==
    ASSUME NEW n \in Nat \ {0}
    PROVE  /\ backoffFor(n) \in 0 .. RetryMax
           /\ backoffFor(n) = Lesser(RetryBase * PowerOfTwo[n - 1], RetryMax)
  <1>1. n - 1 \in Nat
    OBVIOUS
  <1>2. /\ Doubled[n - 1] \in Nat
        /\ Lesser(Doubled[n - 1], RetryMax) = Lesser(RetryBase * PowerOfTwo[n - 1], RetryMax)
    BY <1>1, DoubledIsCappedPower
  <1>3. Lesser(Doubled[n - 1], RetryMax) \in 0 .. RetryMax
    BY <1>2, SchedulerAssumption DEF Lesser
  <1>. QED
    BY <1>2, <1>3 DEF backoffFor

\* The rule of Config gives a number.
LEMMA RuleTyped ==
    ASSUME NEW n \in Nat \ {0}
    PROVE  Lesser(RetryBase * PowerOfTwo[n - 1], RetryMax) \in Nat
  BY BackoffForFits

\* The goroutine statement takes a free job and leaves the others alone.
LEMMA SpawnTakesFree ==
    ASSUME TypeOK, NEW origin \in Origins, NEW t \in Targets, Spawn(origin, t)
    PROVE  \E j \in Jobs :
             /\ job[j].pc = "free"
             /\ job' = [job EXCEPT ![j] =
                          [pc |-> "waiting", origin |-> origin, target |-> t, result |-> "ok"]]
  <1>. DEFINE j == CHOOSE k \in Jobs : job[k].pc = "free"
  <1>1. j \in Jobs /\ job[j].pc = "free"
    BY DEF Spawn
  <1>2. job' = [job EXCEPT ![j] =
                  [pc |-> "waiting", origin |-> origin, target |-> t, result |-> "ok"]]
    BY DEF Spawn
  <1>. QED
    BY <1>1, <1>2

\* What a job's change from one state outside the slots to another does.
LEMMA JobChanged ==
    ASSUME IInv, NEW j \in Jobs, NEW r \in Job, job' = [job EXCEPT ![j] = r],
           r.pc \notin {"collecting", "reconciling"}, j \notin InScan,
           sem' = sem, stop' = stop, loop' = loop,
           \/ r.pc = "free"
           \/ r.origin # "sweep"
           \/ loop # "exited"
           \/ job[j].pc # "free" /\ job[j].origin = "sweep"
    PROVE  job' \in [Jobs -> Job] /\ SlotsHeld' /\ SweepsEndWithStop'
  <1>1. job \in [Jobs -> Job]
    BY DEF IInv, TypeOK
  <1>2. \A k \in Jobs : job'[k] = IF k = j THEN r ELSE job[k]
    BY <1>1
  <1>3. job' \in [Jobs -> Job]
    BY <1>1
  <1>4. InScan' = InScan
    BY <1>2 DEF InScan
  <1>5. SlotsHeld'
    BY <1>4 DEF IInv, SlotsHeld
  <1>6. SweepsEndWithStop'
    BY <1>2 DEF IInv, SweepsEndWithStop
  <1>. QED
    BY <1>3, <1>5, <1>6

\* A step that leaves the scans alone keeps the slots.
LEMMA JobsAlone ==
    ASSUME IInv, job' = job, sem' = sem
    PROVE  SlotsHeld'
  BY DEF IInv, SlotsHeld, InScan

\* A step that leaves the backoff alone keeps it fitting.
LEMMA BackoffAlone ==
    ASSUME IInv, failures' = failures, nextOK' = nextOK
    PROVE  BackoffFits'
  BY DEF IInv, BackoffFits

----------------------------------------------------------------------------
\* The state that main leaves to Start satisfies the invariant.
LEMMA InitIInv == Init => IInv
  <1>. SUFFICES ASSUME Init PROVE IInv
    OBVIOUS
  <1>1. TypeOK
    <2>1. 0 \in 0 .. MaxFailures /\ 0 \in 0 .. RetryMax /\ 0 \in 0 .. Workers
      BY SchedulerAssumption
    <2>. QED
      BY <2>1, IdleTyped DEF Init, TypeOK
  <1>2. InScan = {} /\ sem = 0
    BY DEF Init, InScan, FreeJob
  <1>3. SlotsHeld
    BY <1>2, FS_EmptySet DEF SlotsHeld
  <1>4. BackoffFits
    BY DEF Init, BackoffFits
  <1>5. SweepsEndWithStop
    BY DEF Init, SweepsEndWithStop
  <1>. QED
    BY <1>1, <1>3, <1>4, <1>5 DEF IInv

\* The registry, the loop between sweeps, and Stop: no scan changes.
LEMMA LoopIInv ==
    ASSUME IInv, Start \/ Sweep \/ SweepEnds \/ LoopExits \/ Cancel \/ Stop \/ StopReturns
                 \/ \E t \in Targets : RemoveTarget(t)
    PROVE  IInv'
  <1>1. sem' = sem /\ job' = job /\ failures' = failures /\ nextOK' = nextOK /\ adder' = adder /\ call' = call
    BY DEF Start, Sweep, SweepEnds, LoopExits, Cancel, Stop, StopReturns, RemoveTarget
  <1>2. /\ targets' \in SUBSET Targets
        /\ loop' \in {"off", "asleep", "sweeping", "exited"}
        /\ sweep' \in SUBSET Targets
        /\ canceled' \in BOOLEAN
        /\ stop' \in {"no", "waiting", "returned"}
    BY DEF Start, Sweep, SweepEnds, LoopExits, Cancel, Stop, StopReturns, RemoveTarget, IInv, TypeOK
  <1>3. TypeOK'
    BY <1>1, <1>2 DEF IInv, TypeOK
  <1>4. SweepsEndWithStop'
    <2>1. CASE StopReturns
      BY <1>1, <2>1 DEF StopReturns, Counted, SweepsEndWithStop
    <2>2. CASE ~StopReturns
      BY <1>1, <2>2
         DEF Start, Sweep, SweepEnds, LoopExits, Cancel, Stop, RemoveTarget, IInv, SweepsEndWithStop
    <2>. QED
      BY <2>1, <2>2
  <1>. QED
    BY <1>1, <1>3, <1>4, JobsAlone, BackoffAlone DEF IInv

\* AddTarget up to its scan, and ScanNow but for its scans: no scan changes.
LEMMA CallersIInv ==
    ASSUME IInv,
           \/ \E a \in Adders : (\E t \in Targets : AddRegister(a, t)) \/ AddCheck(a)
           \/ \E c \in Calls : ScanNow(c) \/ ScanNowReturns(c) \/ CallExpires(c)
    PROVE  IInv'
  <1>1. /\ sem' = sem /\ job' = job /\ failures' = failures /\ nextOK' = nextOK
        /\ loop' = loop /\ sweep' = sweep /\ canceled' = canceled /\ stop' = stop
    BY DEF AddRegister, AddCheck, ScanNow, ScanNowReturns, CallExpires
  <1>2. targets' \in SUBSET Targets
    BY DEF AddRegister, AddCheck, ScanNow, ScanNowReturns, CallExpires, IInv, TypeOK
  <1>3. adder' \in [Adders -> Adder]
    BY IdleTyped DEF AddRegister, AddCheck, ScanNow, ScanNowReturns, CallExpires,
                     IInv, TypeOK, Adder
  <1>4. call' \in [Calls -> Call]
    <2>1. call \in [Calls -> Call] /\ targets \in SUBSET Targets
      BY DEF IInv, TypeOK
    <2>2. CASE call' = call
      BY <2>1, <2>2
    <2>3. ASSUME NEW c \in Calls, ScanNow(c) PROVE call' \in [Calls -> Call]
      BY <2>1, <2>3 DEF ScanNow, Call
    <2>4. ASSUME NEW c \in Calls, ScanNowReturns(c) PROVE call' \in [Calls -> Call]
      BY <2>1, <2>4, IdleTyped DEF ScanNowReturns
    <2>5. ASSUME NEW c \in Calls, CallExpires(c) PROVE call' \in [Calls -> Call]
      BY <2>1, <2>5 DEF CallExpires, Call
    <2>. QED
      BY <2>2, <2>3, <2>4, <2>5 DEF AddRegister, AddCheck
  <1>5. TypeOK'
    BY <1>1, <1>2, <1>3, <1>4 DEF IInv, TypeOK
  <1>6. SweepsEndWithStop'
    BY <1>1 DEF IInv, SweepsEndWithStop
  <1>. QED
    BY <1>1, <1>5, <1>6, JobsAlone, BackoffAlone DEF IInv

\* AddTarget starts its scan.
LEMMA AddSpawnIInv ==
    ASSUME IInv, NEW a \in Adders, AddSpawn(a)
    PROVE  IInv'
  <1>1. /\ failures' = failures /\ nextOK' = nextOK /\ targets' = targets /\ call' = call /\ sem' = sem
        /\ loop' = loop /\ sweep' = sweep /\ canceled' = canceled /\ stop' = stop
    BY DEF AddSpawn
  <1>2. adder[a].target \in Targets /\ "add" \in Origins /\ TypeOK
    BY DEF IInv, TypeOK, Adder, Origins
  <1>. DEFINE r == [pc |-> "waiting", origin |-> "add", target |-> adder[a].target, result |-> "ok"]
  <1>3. PICK j \in Jobs : j \notin InScan /\ job' = [job EXCEPT ![j] = r]
    BY <1>2, SpawnTakesFree DEF AddSpawn, InScan
  <1>4. r \in Job /\ r.pc = "waiting" /\ r.origin # "sweep"
    BY <1>2 DEF Job
  <1>. HIDE DEF r
  <1>5. job' \in [Jobs -> Job] /\ SlotsHeld' /\ SweepsEndWithStop'
    BY <1>1, <1>3, <1>4, JobChanged
  <1>6. adder' \in [Adders -> Adder]
    BY IdleTyped DEF AddSpawn, IInv, TypeOK
  <1>7. TypeOK'
    BY <1>1, <1>5, <1>6 DEF IInv, TypeOK
  <1>. QED
    BY <1>1, <1>5, <1>7, BackoffAlone DEF IInv

\* A sweep looks at a target and starts its scan unless it backs off.
LEMMA SweepOneIInv ==
    ASSUME IInv, NEW t \in Targets, SweepOne(t)
    PROVE  IInv'
  <1>1. /\ failures' = failures /\ nextOK' = nextOK /\ targets' = targets /\ call' = call /\ sem' = sem
        /\ loop' = loop /\ loop = "sweeping" /\ canceled' = canceled /\ stop' = stop /\ adder' = adder
        /\ sweep' \in SUBSET Targets
    BY DEF SweepOne, IInv, TypeOK
  <1>2. job' \in [Jobs -> Job] /\ SlotsHeld' /\ SweepsEndWithStop'
    <2>1. CASE UNCHANGED job
      BY <1>1, <2>1, JobsAlone DEF IInv, TypeOK, SweepsEndWithStop
    <2>2. CASE Spawn("sweep", t)
      <3>. DEFINE r == [pc |-> "waiting", origin |-> "sweep", target |-> t, result |-> "ok"]
      <3>1. "sweep" \in Origins /\ TypeOK
        BY DEF IInv, Origins
      <3>2. PICK j \in Jobs : j \notin InScan /\ job' = [job EXCEPT ![j] = r]
        BY <2>2, <3>1, SpawnTakesFree DEF InScan
      <3>3. r \in Job /\ r.pc = "waiting"
        BY <3>1 DEF Job
      <3>. HIDE DEF r
      <3>. QED
        BY <1>1, <3>2, <3>3, JobChanged
    <2>. QED
      BY <2>1, <2>2 DEF SweepOne
  <1>3. TypeOK'
    BY <1>1, <1>2 DEF IInv, TypeOK
  <1>. QED
    BY <1>1, <1>2, <1>3, BackoffAlone DEF IInv

\* ScanNow starts one of its scans.
LEMMA ScanNowSpawnIInv ==
    ASSUME IInv, NEW c \in Calls, NEW t \in Targets, ScanNowSpawn(c, t)
    PROVE  IInv'
  <1>1. /\ failures' = failures /\ nextOK' = nextOK /\ targets' = targets /\ adder' = adder /\ sem' = sem
        /\ loop' = loop /\ sweep' = sweep /\ canceled' = canceled /\ stop' = stop
    BY DEF ScanNowSpawn
  <1>2. c \in Origins /\ c # "sweep" /\ TypeOK
    BY SchedulerAssumption DEF IInv, Origins
  <1>. DEFINE r == [pc |-> "waiting", origin |-> c, target |-> t, result |-> "ok"]
  <1>3. PICK j \in Jobs : j \notin InScan /\ job' = [job EXCEPT ![j] = r]
    BY <1>2, SpawnTakesFree DEF ScanNowSpawn, InScan
  <1>4. r \in Job /\ r.pc = "waiting" /\ r.origin # "sweep"
    BY <1>2 DEF Job
  <1>. HIDE DEF r
  <1>5. job' \in [Jobs -> Job] /\ SlotsHeld' /\ SweepsEndWithStop'
    BY <1>1, <1>3, <1>4, JobChanged
  <1>6. call' \in [Calls -> Call]
    BY DEF ScanNowSpawn, IInv, TypeOK, Call
  <1>7. TypeOK'
    BY <1>1, <1>5, <1>6 DEF IInv, TypeOK
  <1>. QED
    BY <1>1, <1>5, <1>7, BackoffAlone DEF IInv

\* A scan sends to the slot channel: one slot and one scan in progress more.
LEMMA AcquireIInv ==
    ASSUME IInv, NEW j \in Jobs, Acquire(j)
    PROVE  IInv'
  <1>1. /\ failures' = failures /\ nextOK' = nextOK /\ targets' = targets /\ adder' = adder
        /\ loop' = loop /\ sweep' = sweep /\ canceled' = canceled /\ stop' = stop /\ call' = call
        /\ job[j].pc = "waiting" /\ job' = [job EXCEPT ![j].pc = "collecting"]
        /\ sem < Workers /\ sem' = sem + 1
    BY DEF Acquire, Others
  <1>2. job \in [Jobs -> Job] /\ sem \in 0 .. Workers
    BY DEF IInv, TypeOK
  <1>3. /\ job' \in [Jobs -> Job]
        /\ \A k \in Jobs : job'[k].pc = (IF k = j THEN "collecting" ELSE job[k].pc)
        /\ \A k \in Jobs : job'[k].origin = job[k].origin
    BY <1>1, <1>2 DEF Job
  <1>4. InScan' = InScan \cup {j} /\ j \notin InScan
    BY <1>1, <1>3 DEF InScan
  <1>5. SlotsHeld'
    <2>1. IsFiniteSet(InScan') /\ Cardinality(InScan') = Cardinality(InScan) + 1
      BY <1>4, FS_AddElement DEF IInv, SlotsHeld
    <2>. QED
      BY <1>1, <2>1 DEF IInv, SlotsHeld
  <1>6. SweepsEndWithStop'
    BY <1>1, <1>3 DEF IInv, SweepsEndWithStop
  <1>7. sem' \in 0 .. Workers
    BY <1>1, <1>2, SchedulerAssumption
  <1>8. TypeOK'
    BY <1>1, <1>3, <1>7 DEF IInv, TypeOK
  <1>. QED
    BY <1>1, <1>5, <1>6, <1>8, BackoffAlone DEF IInv

\* What a scan is after scanOne: booking its outcome, or gone.
LEMMA EndedJob ==
    ASSUME IInv, NEW j \in Jobs, NEW result \in {"ok", "error", "canceled"}, Ended(j, result)
    PROVE  \E r \in Job :
             /\ job' = [job EXCEPT ![j] = r]
             /\ r.pc \in {"free", "done"}
             /\ r.pc = "free" \/ (job[j].origin = "sweep" /\ r.origin = "sweep")
  <1>. DEFINE r == IF job[j].origin = "sweep"
                   THEN [job[j] EXCEPT !.pc = "done", !.result = result] ELSE FreeJob
  <1>1. job \in [Jobs -> Job]
    BY DEF IInv, TypeOK
  <1>2. job' = [job EXCEPT ![j] = r]
    BY <1>1 DEF Ended
  <1>3. /\ r \in Job
        /\ r.pc \in {"free", "done"}
        /\ r.pc = "free" \/ (job[j].origin = "sweep" /\ r.origin = "sweep")
    BY <1>1, IdleTyped DEF Job, FreeJob
  <1>. QED
    BY <1>2, <1>3

\* scanOne returns without a slot.
LEMMA GiveUpIInv ==
    ASSUME IInv, NEW j \in Jobs, GiveUp(j)
    PROVE  IInv'
  <1>1. /\ UNCHANGED <<targets, loop, sweep, canceled, stop, sem, adder, call, failures, nextOK>>
        /\ job[j].pc = "waiting" /\ Ended(j, "canceled")
    BY DEF GiveUp, Others
  <1>2. PICK r \in Job : /\ job' = [job EXCEPT ![j] = r]
                         /\ r.pc \in {"free", "done"}
                         /\ r.pc = "free" \/ (job[j].origin = "sweep" /\ r.origin = "sweep")
    BY <1>1, EndedJob
  <1>3. j \notin InScan /\ job[j].pc # "free"
    BY <1>1 DEF InScan
  <1>4. job' \in [Jobs -> Job] /\ SlotsHeld' /\ SweepsEndWithStop'
    BY <1>1, <1>2, <1>3, JobChanged
  <1>5. TypeOK'
    BY <1>1, <1>4 DEF IInv, TypeOK
  <1>. QED
    BY <1>1, <1>4, <1>5, BackoffAlone DEF IInv

\* scanOne returns after its select: one slot and one scan in progress less.
LEMMA ReturnsIInv ==
    ASSUME IInv, NEW j \in Jobs, j \in InScan,
           NEW result \in {"ok", "error", "canceled"}, Returns(j, result)
    PROVE  IInv'
  <1>1. /\ UNCHANGED <<targets, loop, sweep, canceled, stop, adder, call, failures, nextOK>>
        /\ sem' = sem - 1 /\ sem > 0
    BY DEF Returns, Others
  <1>2. PICK r \in Job : /\ job' = [job EXCEPT ![j] = r]
                         /\ r.pc \in {"free", "done"}
                         /\ r.pc = "free" \/ (job[j].origin = "sweep" /\ r.origin = "sweep")
    BY EndedJob DEF Returns
  <1>3. job \in [Jobs -> Job] /\ sem \in 0 .. Workers
    BY DEF IInv, TypeOK
  <1>4. /\ job' \in [Jobs -> Job]
        /\ \A k \in Jobs : job'[k] = IF k = j THEN r ELSE job[k]
    BY <1>2, <1>3
  <1>5. SlotsHeld'
    <2>1. InScan' = InScan \ {j}
      BY <1>2, <1>4 DEF InScan
    <2>2. IsFiniteSet(InScan') /\ Cardinality(InScan') = Cardinality(InScan) - 1
      BY <2>1, FS_RemoveElement DEF IInv, SlotsHeld
    <2>. QED
      BY <1>1, <2>2 DEF IInv, SlotsHeld
  <1>6. SweepsEndWithStop'
    <2>1. job[j].pc # "free"
      BY DEF InScan
    <2>. QED
      BY <1>1, <1>2, <1>4, <2>1 DEF IInv, SweepsEndWithStop
  <1>7. sem' \in 0 .. Workers
    BY <1>1, <1>3, SchedulerAssumption
  <1>8. TypeOK'
    BY <1>1, <1>4, <1>7 DEF IInv, TypeOK
  <1>. QED
    BY <1>1, <1>5, <1>6, <1>8, BackoffAlone DEF IInv

\* Collect has an answer: the scan keeps its slot.
LEMMA CollectedIInv ==
    ASSUME IInv, NEW j \in Jobs, Collected(j)
    PROVE  IInv'
  <1>1. /\ UNCHANGED <<targets, loop, sweep, canceled, stop, sem, adder, call, failures, nextOK>>
        /\ job[j].pc = "collecting" /\ job' = [job EXCEPT ![j].pc = "reconciling"]
    BY DEF Collected, Others
  <1>2. job \in [Jobs -> Job]
    BY DEF IInv, TypeOK
  <1>3. /\ job' \in [Jobs -> Job]
        /\ \A k \in Jobs : job'[k].pc = (IF k = j THEN "reconciling" ELSE job[k].pc)
        /\ \A k \in Jobs : job'[k].origin = job[k].origin
    BY <1>1, <1>2 DEF Job
  <1>4. InScan' = InScan
    BY <1>1, <1>3 DEF InScan
  <1>5. SlotsHeld'
    BY <1>1, <1>4 DEF IInv, SlotsHeld
  <1>6. SweepsEndWithStop'
    BY <1>1, <1>3 DEF IInv, SweepsEndWithStop
  <1>7. TypeOK'
    BY <1>1, <1>3 DEF IInv, TypeOK
  <1>. QED
    BY <1>1, <1>5, <1>6, <1>7, BackoffAlone DEF IInv

\* A sweep's goroutine books its outcome: the backoff is that of the new count.
LEMMA BookIInv ==
    ASSUME IInv, NEW j \in Jobs, Book(j)
    PROVE  IInv'
  <1>1. /\ targets' = targets /\ adder' = adder /\ loop' = loop /\ sweep' = sweep
        /\ canceled' = canceled /\ stop' = stop /\ call' = call /\ sem' = sem
        /\ job' = [job EXCEPT ![j] = FreeJob]
    BY DEF Book
  <1>2. FreeJob \in Job /\ FreeJob.pc = "free" /\ j \notin InScan
    BY IdleTyped DEF FreeJob, Book, InScan
  <1>3. job' \in [Jobs -> Job] /\ SlotsHeld' /\ SweepsEndWithStop'
    <2>. HIDE DEF FreeJob
    <2>. QED
      BY <1>1, <1>2, JobChanged
  <1>4. PICK t \in Targets : t = job[j].target
    BY DEF IInv, TypeOK, Job
  <1>5. PICK n \in 0 .. MaxFailures, w \in 0 .. RetryMax :
          /\ failures' = [failures EXCEPT ![t] = n]
          /\ nextOK' = [nextOK EXCEPT ![t] = w]
          /\ w > 0 => n > 0
          /\ n > 0 => w = Lesser(RetryBase * PowerOfTwo[n - 1], RetryMax)
    <2>0. failures \in [Targets -> 0 .. MaxFailures] /\ nextOK \in [Targets -> 0 .. RetryMax]
      BY DEF IInv, TypeOK
    <2>1. CASE job[j].result = "error"
      <3>. DEFINE n == Lesser(failures[t] + 1, MaxFailures)
      <3>1. n \in 0 .. MaxFailures /\ n \in Nat \ {0}
        BY <2>0, SchedulerAssumption DEF Lesser
      <3>2. /\ failures' = [failures EXCEPT ![t] = n]
            /\ nextOK' = [nextOK EXCEPT ![t] = backoffFor(failures'[t])]
        BY <1>4, <2>0, <2>1 DEF Book
      <3>3. failures'[t] = n
        BY <2>0, <3>2
      <3>. HIDE DEF n
      <3>4. /\ backoffFor(n) \in 0 .. RetryMax
            /\ backoffFor(n) = Lesser(RetryBase * PowerOfTwo[n - 1], RetryMax)
        BY <3>1, BackoffForFits
      <3>5. PICK w \in 0 .. RetryMax : w = backoffFor(n)
        BY <3>4
      <3>6. nextOK' = [nextOK EXCEPT ![t] = w]
        BY <3>2, <3>3, <3>5
      <3>7. w > 0 => n > 0
        BY <3>1
      <3>8. n > 0 => w = Lesser(RetryBase * PowerOfTwo[n - 1], RetryMax)
        BY <3>4, <3>5
      <3>. QED
        BY <3>1, <3>2, <3>6, <3>7, <3>8, Zenon
    <2>2. CASE job[j].result # "error"
      <3>1. failures' = [failures EXCEPT ![t] = 0] /\ nextOK' = [nextOK EXCEPT ![t] = 0]
        BY <1>4, <2>2 DEF Book
      <3>2. 0 \in 0 .. MaxFailures /\ 0 \in 0 .. RetryMax /\ ~(0 > 0)
        BY SchedulerAssumption
      <3>. QED
        BY <3>1, <3>2, Zenon
    <2>. QED
      BY <2>1, <2>2
  <1>6. failures \in [Targets -> 0 .. MaxFailures] /\ nextOK \in [Targets -> 0 .. RetryMax]
    BY DEF IInv, TypeOK
  <1>7. failures' \in [Targets -> 0 .. MaxFailures] /\ nextOK' \in [Targets -> 0 .. RetryMax]
    BY <1>5, <1>6
  <1>8. BackoffFits'
    <2>1. ASSUME NEW u \in Targets
          PROVE  /\ nextOK'[u] > 0 => failures'[u] > 0
                 /\ failures'[u] > 0 =>
                      nextOK'[u] <= Lesser(RetryBase * PowerOfTwo[failures'[u] - 1], RetryMax)
      <3>1. CASE u = t
        <4>1. failures'[u] = n /\ nextOK'[u] = w
          BY <1>5, <1>6, <3>1
        <4>. QED
          BY <1>5, <4>1
      <3>2. CASE u # t
        <4>1. failures'[u] = failures[u] /\ nextOK'[u] = nextOK[u]
          BY <1>5, <1>6, <3>2
        <4>. QED
          BY <4>1 DEF IInv, BackoffFits
      <3>. QED
        BY <3>1, <3>2
    <2>. QED
      BY <2>1 DEF BackoffFits
  <1>9. TypeOK'
    BY <1>1, <1>3, <1>7 DEF IInv, TypeOK
  <1>. QED
    BY <1>3, <1>8, <1>9 DEF IInv

\* Time only shortens a backoff.
LEMMA TickIInv ==
    ASSUME IInv, Tick
    PROVE  IInv'
  <1>1. /\ targets' = targets /\ adder' = adder /\ loop' = loop /\ sweep' = sweep
        /\ canceled' = canceled /\ stop' = stop /\ call' = call /\ job' = job
        /\ failures' = failures /\ sem' = sem
    BY DEF Tick
  <1>2. failures \in [Targets -> 0 .. MaxFailures] /\ nextOK \in [Targets -> 0 .. RetryMax]
    BY DEF IInv, TypeOK
  <1>3. /\ nextOK' \in [Targets -> 0 .. RetryMax]
        /\ \A t \in Targets : nextOK'[t] <= nextOK[t]
    BY <1>2, SchedulerAssumption DEF Tick
  <1>4. BackoffFits'
    <2>1. ASSUME NEW t \in Targets
          PROVE  /\ nextOK'[t] > 0 => failures[t] > 0
                 /\ failures[t] > 0 =>
                      nextOK'[t] <= Lesser(RetryBase * PowerOfTwo[failures[t] - 1], RetryMax)
      <3>1. CASE failures[t] > 0
        <4>1. failures[t] \in Nat \ {0}
          BY <1>2, <3>1, SchedulerAssumption
        <4>2. PICK b \in Nat : b = Lesser(RetryBase * PowerOfTwo[failures[t] - 1], RetryMax)
          BY <4>1, RuleTyped
        <4>3. nextOK[t] <= b
          BY <3>1, <4>2 DEF IInv, BackoffFits
        <4>. QED
          BY <1>2, <1>3, <3>1, <4>2, <4>3
      <3>2. CASE ~(failures[t] > 0)
        BY <1>2, <1>3, <3>2 DEF IInv, BackoffFits
      <3>. QED
        BY <3>1, <3>2
    <2>. QED
      BY <1>1, <2>1 DEF BackoffFits
  <1>5. SweepsEndWithStop'
    BY <1>1 DEF IInv, SweepsEndWithStop
  <1>6. TypeOK'
    BY <1>1, <1>3 DEF IInv, TypeOK
  <1>. QED
    BY <1>1, <1>4, <1>5, <1>6, JobsAlone DEF IInv

\* Every step keeps the invariant.
LEMMA NextIInv == IInv /\ [Next]_vars => IInv'
  <1>. SUFFICES ASSUME IInv, [Next]_vars PROVE IInv'
    OBVIOUS
  <1>1. ASSUME NEW j \in Jobs, NEW result \in {"error", "canceled"}, CollectFails(j, result)
        PROVE  IInv'
    BY <1>1, ReturnsIInv DEF CollectFails, InScan
  <1>2. ASSUME NEW j \in Jobs, NEW result \in {"ok", "error"}, ReconcileEnds(j, result)
        PROVE  IInv'
    BY <1>2, ReturnsIInv DEF ReconcileEnds, InScan
  <1>3. CASE UNCHANGED vars
    <2>1. SlotsHeld' /\ BackoffFits'
      BY <1>3, JobsAlone, BackoffAlone DEF vars
    <2>2. TypeOK' /\ SweepsEndWithStop'
      BY <1>3 DEF IInv, vars, TypeOK, SweepsEndWithStop
    <2>. QED
      BY <2>1, <2>2 DEF IInv
  <1>. QED
    BY <1>1, <1>2, <1>3, LoopIInv, CallersIInv, AddSpawnIInv, SweepOneIInv, ScanNowSpawnIInv,
       AcquireIInv, GiveUpIInv, CollectedIInv, BookIInv, TickIInv DEF Next

----------------------------------------------------------------------------
\* The inductive invariant holds in every reachable state.
LEMMA Invariant == Spec => []IInv
  BY InitIInv, NextIInv, PTL DEF Spec

\* Type correctness of the scheduler: in particular every backoff is within
\* RetryMax, which the loop of backoffFor cuts at.
THEOREM TypeCorrect == Spec => []TypeOK
  <1>1. IInv => TypeOK
    BY DEF IInv
  <1>. QED
    BY <1>1, Invariant, PTL

\* However many sweeps, AddTarget and ScanNow calls are in flight and whichever way
\* each scan leaves scanOne, the slot channel holds exactly the slots of the scans in
\* progress; with TypeCorrect, these are never more than Workers.
THEOREM SlotsAreConserved == Spec => []SlotsConserved
  <1>1. IInv => SlotsConserved
    BY DEF IInv, SlotsHeld, SlotsConserved
  <1>. QED
    BY <1>1, Invariant, PTL

\* The gate of a target is never further away than its consecutive failures give
\* it by the documented rule, for every RetryBase, RetryMax and failure count.
THEOREM BackoffIsBounded == Spec => []BackoffFits
  <1>1. IInv => BackoffFits
    BY DEF IInv
  <1>. QED
    BY <1>1, Invariant, PTL

\* After Stop has returned no goroutine of a sweep is left, and no sweep begins.
THEOREM StopEndsSweeps == Spec => []SweepsEndWithStop
  <1>1. IInv => SweepsEndWithStop
    BY DEF IInv
  <1>. QED
    BY <1>1, Invariant, PTL

=============================================================================
