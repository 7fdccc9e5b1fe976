----------------------------- MODULE Scheduler -----------------------------
(***************************************************************************)
(* The scan scheduler (sched/scheduler.go) with the one module the program *)
(* registers: the registry of targets, the module loop, the worker slots,  *)
(* scans started by a sweep, by AddTarget and by ScanNow, the failure      *)
(* backoff, and Stop.                                                      *)
(*                                                                         *)
(* Collect, and Reconcile with OnResult, are one state of a scan each      *)
(* (module Reconcile has their steps).  Time is counted in ticks; a sweep  *)
(* may begin at any tick, which covers every interval and jitter.          *)
(***************************************************************************)
EXTENDS Naturals, FiniteSets

CONSTANTS
    Targets,
    Jobs,           \* bound: scan goroutines alive at once
    Adders,         \* calls of AddTarget in flight at once
    Calls,          \* calls of ScanNow in flight at once
    Workers,
    RetryBase,      \* in ticks
    RetryMax,
    MaxFailures     \* bound: consecutive failures counted per target

ASSUME SchedulerAssumption ==
    /\ Targets # {}
    /\ {"sweep", "add"} \cap Calls = {}
    /\ Workers \in Nat \ {0}
    /\ RetryBase \in Nat \ {0}
    /\ RetryMax \in Nat \ {0}
    /\ MaxFailures \in Nat \ {0}

VARIABLES
    targets,    \* reg.targets
    loop,       \* moduleLoop: "off", "asleep", "sweeping", "exited"
    sweep,      \* targets of the sweep's snapshot not yet looked at
    canceled,   \* the context given to Start is done
    stop,       \* the caller of Stop: "no", "waiting", "returned"
    sem,        \* how many slots the slot channel holds
    job,        \* scan goroutines
    adder,      \* calls of AddTarget
    call,       \* calls of ScanNow
    failures,   \* consecutive failures per target
    nextOK      \* ticks until the backoff gate of a target opens

vars == <<targets, loop, sweep, canceled, stop, sem, job, adder, call, failures, nextOK>>

----------------------------------------------------------------------------
Origins == {"sweep", "add"} \cup Calls

\* target and origin of a free job are what the last scan left: not looked at.
Job == [pc     : {"free", "waiting", "collecting", "reconciling", "done"},
        origin : Origins,
        target : Targets,
        result : {"ok", "error", "canceled"}]

Adder == [pc : {"idle", "registered", "checked"}, target : Targets]

Call == [pc : {"idle", "scanning"}, todo : SUBSET Targets, expired : BOOLEAN]

IdleCall == [pc |-> "idle", todo |-> {}, expired |-> FALSE]

AnyTarget == CHOOSE t \in Targets : TRUE

FreeJob == [pc |-> "free", origin |-> "sweep", target |-> AnyTarget, result |-> "ok"]

IdleAdder == [pc |-> "idle", target |-> AnyTarget]

Lesser(a, b) == IF a < b THEN a ELSE b

\* Scans between the select of scanOne and its return.
InScan == {j \in Jobs : job[j].pc \in {"collecting", "reconciling"}}

\* The context that scanOne was given is done.
CtxDone(j) == IF job[j].origin \in Calls THEN call[job[j].origin].expired ELSE canceled

\* The goroutine statement: a new scan of t that has yet to get a worker slot.
Spawn(origin, t) ==
    /\ \E j \in Jobs : job[j].pc = "free"
    /\ LET j == CHOOSE k \in Jobs : job[k].pc = "free" IN
       job' = [job EXCEPT ![j] = [pc |-> "waiting", origin |-> origin, target |-> t, result |-> "ok"]]

----------------------------------------------------------------------------
\* backoffFor: RetryBase doubled once per failure after the first, cut at RetryMax.
Doubled[n \in Nat] ==
    IF n = 0 THEN RetryBase
    ELSE IF Doubled[n - 1] * 2 >= RetryMax THEN RetryMax
    ELSE Doubled[n - 1] * 2

\* Faulty forms of definitions below, each a slip the code could have made.
backoffForUncapped(consecutive) == RetryBase * 2 ^ (consecutive - 1)
backoffForOneMore(consecutive) == Lesser(Doubled[consecutive], RetryMax)
CountedAddsOnly == {j \in Jobs : job[j].pc # "free" /\ job[j].origin = "add"}
StopReturnsWhenIdle ==
    /\ stop = "waiting"
    /\ loop = "exited"
    /\ \A j \in Jobs : job[j].pc = "free"
    /\ stop' = "returned"
    /\ UNCHANGED <<sem, targets, loop, sweep, canceled, job, adder, call, failures, nextOK>>

backoffFor(consecutive) == Lesser(Doubled[consecutive - 1], RetryMax)

\* Scans that hold a count of s.wg; those of ScanNow count on a local one.
Counted == {j \in Jobs : job[j].pc # "free" /\ job[j].origin \in {"sweep", "add"}}

----------------------------------------------------------------------------
\* main has registered the saved targets and not yet called Start; the server
\* takes requests only after that.
Init ==
    /\ targets \in SUBSET Targets
    /\ loop = "off"
    /\ sweep = {}
    /\ canceled = FALSE
    /\ stop = "no"
    /\ sem = 0
    /\ job = [j \in Jobs |-> FreeJob]
    /\ adder = [a \in Adders |-> IdleAdder]
    /\ call = [c \in Calls |-> IdleCall]
    /\ failures = [t \in Targets |-> 0]
    /\ nextOK = [t \in Targets |-> 0]

\* Start: the loop begins with a sweep.
Start ==
    /\ loop = "off"
    /\ loop' = "sweeping"
    /\ sweep' = targets
    /\ UNCHANGED <<sem, targets, canceled, stop, job, adder, call, failures, nextOK>>

\* AddTarget, critical section.
AddRegister(a, t) ==
    /\ loop # "off"
    /\ adder[a].pc = "idle"
    /\ targets' = targets \cup {t}
    /\ adder' = [adder EXCEPT ![a] = [pc |-> "registered", target |-> t]]
    /\ UNCHANGED <<sem, loop, sweep, canceled, stop, job, call, failures, nextOK>>

\* AddTarget, ctx.Err() == nil, outside the lock.
AddCheck(a) ==
    /\ adder[a].pc = "registered"
    /\ adder' = [adder EXCEPT ![a] = IF canceled THEN IdleAdder ELSE [@ EXCEPT !.pc = "checked"]]
    /\ UNCHANGED <<sem, targets, loop, sweep, canceled, stop, job, call, failures, nextOK>>

\* AddTarget, wg.Add and the immediate scan.
AddSpawn(a) ==
    /\ adder[a].pc = "checked"
    /\ Spawn("add", adder[a].target)
    /\ adder' = [adder EXCEPT ![a] = IdleAdder]
    /\ UNCHANGED <<sem, targets, loop, sweep, canceled, stop, call, failures, nextOK>>

RemoveTarget(t) ==
    /\ loop # "off"
    /\ t \in targets
    /\ targets' = targets \ {t}
    /\ UNCHANGED <<sem, loop, sweep, canceled, stop, job, adder, call, failures, nextOK>>

\* moduleLoop: the interval has passed; snapshot the registry.
Sweep ==
    /\ loop = "asleep"
    /\ loop' = "sweeping"
    /\ sweep' = targets
    /\ UNCHANGED <<sem, targets, canceled, stop, job, adder, call, failures, nextOK>>

\* One target of the sweep: skipped while it backs off.
SweepOne(t) ==
    /\ loop = "sweeping"
    /\ t \in sweep
    /\ sweep' = sweep \ {t}
    /\ \/ nextOK[t] > 0 /\ UNCHANGED job
       \/ nextOK[t] = 0 /\ Spawn("sweep", t)
    /\ UNCHANGED <<sem, targets, loop, canceled, stop, adder, call, failures, nextOK>>

SweepEnds ==
    /\ loop = "sweeping"
    /\ sweep = {}
    /\ loop' = "asleep"
    /\ UNCHANGED <<sem, targets, sweep, canceled, stop, job, adder, call, failures, nextOK>>

\* moduleLoop: ctx.Done is seen between sweeps only.
LoopExits ==
    /\ loop = "asleep"
    /\ canceled
    /\ loop' = "exited"
    /\ UNCHANGED <<sem, targets, sweep, canceled, stop, job, adder, call, failures, nextOK>>

\* ScanNow: snapshot, spawn, wait, return.
ScanNow(c) ==
    /\ loop # "off"
    /\ call[c].pc = "idle"
    /\ call' = [call EXCEPT ![c] = [pc |-> "scanning", todo |-> targets, expired |-> FALSE]]
    /\ UNCHANGED <<sem, targets, loop, sweep, canceled, stop, job, adder, failures, nextOK>>

ScanNowSpawn(c, t) ==
    /\ call[c].pc = "scanning"
    /\ t \in call[c].todo
    /\ Spawn(c, t)
    /\ call' = [call EXCEPT ![c].todo = @ \ {t}]
    /\ UNCHANGED <<sem, targets, loop, sweep, canceled, stop, adder, failures, nextOK>>

\* wg.Wait returns: every scan was started and none is left.
ScanNowReturns(c) ==
    /\ call[c].pc = "scanning"
    /\ call[c].todo = {}
    /\ \A j \in Jobs : job[j].origin = c => job[j].pc = "free"
    /\ call' = [call EXCEPT ![c] = IdleCall]
    /\ UNCHANGED <<sem, targets, loop, sweep, canceled, stop, job, adder, failures, nextOK>>

\* The caller's own context ends: two minutes after an upload, or with the request.
CallExpires(c) ==
    /\ call[c].pc # "idle"
    /\ ~call[c].expired
    /\ call' = [call EXCEPT ![c].expired = TRUE]
    /\ UNCHANGED <<sem, targets, loop, sweep, canceled, stop, job, adder, failures, nextOK>>

----------------------------------------------------------------------------
\* What follows scanOne: a sweep's scan has its outcome to book, the others end.
Ended(j, result) ==
    job' = [job EXCEPT ![j] = IF @.origin = "sweep" THEN [@ EXCEPT !.pc = "done", !.result = result]
                              ELSE FreeJob]

\* The rest of the scheduler, which no step of scanOne touches.
Others == <<targets, loop, sweep, canceled, stop, adder, call, failures, nextOK>>

\* More slips: the error return keeps its slot; defer stands before the select.
CollectFailsKeepsSlot(j, result) ==
    /\ job[j].pc = "collecting"
    /\ result = "canceled" => CtxDone(j)
    /\ Ended(j, result)
    /\ UNCHANGED <<sem, Others>>
GiveUpReleases(j) ==
    /\ job[j].pc = "waiting"
    /\ CtxDone(j)
    /\ sem > 0
    /\ sem' = sem - 1
    /\ Ended(j, "canceled")
    /\ UNCHANGED Others

\* scanOne sends to the slot channel; select may pick this even if ctx is done.
Acquire(j) ==
    /\ job[j].pc = "waiting"
    /\ sem < Workers
    /\ sem' = sem + 1
    /\ job' = [job EXCEPT ![j].pc = "collecting"]
    /\ UNCHANGED Others

\* scanOne returns ctx.Err() without a slot.
GiveUp(j) ==
    /\ job[j].pc = "waiting"
    /\ CtxDone(j)
    /\ Ended(j, "canceled")
    /\ UNCHANGED <<sem, Others>>

\* A return of scanOne after the select runs its defer, which takes a slot out of
\* the channel again.
Returns(j, result) ==
    /\ sem > 0
    /\ sem' = sem - 1
    /\ Ended(j, result)
    /\ UNCHANGED Others

\* scanOne: Collect returns an error (a timeout included), or that of a context that
\* ended meanwhile.
CollectFails(j, result) ==
    /\ job[j].pc = "collecting"
    /\ result = "canceled" => CtxDone(j)
    /\ Returns(j, result)

Collected(j) ==
    /\ job[j].pc = "collecting"
    /\ job' = [job EXCEPT ![j].pc = "reconciling"]
    /\ UNCHANGED <<sem, Others>>

\* scanOne: Reconcile, which knows no context, fails, or OnResult has its result.
ReconcileEnds(j, result) ==
    /\ job[j].pc = "reconciling"
    /\ Returns(j, result)

\* A sweep's goroutine books the outcome under failMu and ends.
Book(j) ==
    LET t == job[j].target IN
    /\ job[j].pc = "done"
    /\ \/ /\ job[j].result = "error"
          /\ failures' = [failures EXCEPT ![t] = Lesser(@ + 1, MaxFailures)]
          /\ nextOK' = [nextOK EXCEPT ![t] = backoffFor(failures'[t])]
       \/ /\ job[j].result # "error"
          /\ failures' = [failures EXCEPT ![t] = 0]
          /\ nextOK' = [nextOK EXCEPT ![t] = 0]
    /\ job' = [job EXCEPT ![j] = FreeJob]
    /\ UNCHANGED <<sem, targets, loop, sweep, canceled, stop, adder, call>>

\* Time passes for the backoff gates.
Tick ==
    /\ \E t \in Targets : nextOK[t] > 0
    /\ nextOK' = [t \in Targets |-> IF nextOK[t] > 0 THEN nextOK[t] - 1 ELSE 0]
    /\ UNCHANGED <<sem, targets, loop, sweep, canceled, stop, job, adder, call, failures>>

----------------------------------------------------------------------------
\* SIGTERM, or the cancel of Stop.
Cancel ==
    /\ loop # "off"
    /\ ~canceled
    /\ canceled' = TRUE
    /\ UNCHANGED <<sem, targets, loop, sweep, stop, job, adder, call, failures, nextOK>>

\* Stop, up to wg.Wait.
Stop ==
    /\ loop # "off"
    /\ stop = "no"
    /\ canceled' = TRUE
    /\ stop' = "waiting"
    /\ UNCHANGED <<sem, targets, loop, sweep, job, adder, call, failures, nextOK>>

\* wg.Wait returns: the loop and every counted scan are done.
StopReturns ==
    /\ stop = "waiting"
    /\ loop = "exited"
    /\ Counted = {}
    /\ stop' = "returned"
    /\ UNCHANGED <<sem, targets, loop, sweep, canceled, job, adder, call, failures, nextOK>>

Next ==
    \/ Start
    \/ \E a \in Adders : (\E t \in Targets : AddRegister(a, t)) \/ AddCheck(a) \/ AddSpawn(a)
    \/ \E t \in Targets : RemoveTarget(t) \/ SweepOne(t)
    \/ Sweep \/ SweepEnds \/ LoopExits
    \/ \E c \in Calls :
         \/ ScanNow(c) \/ ScanNowReturns(c) \/ CallExpires(c)
         \/ \E t \in Targets : ScanNowSpawn(c, t)
    \/ \E j \in Jobs :
         \/ Acquire(j) \/ GiveUp(j) \/ Collected(j) \/ Book(j)
         \/ \E result \in {"error", "canceled"} : CollectFails(j, result)
         \/ \E result \in {"ok", "error"} : ReconcileEnds(j, result)
    \/ Tick
    \/ Cancel \/ Stop \/ StopReturns

Spec == Init /\ [][Next]_vars

\* Timers fire and runnable goroutines run; Collect ends within ScanTimeout; a
\* goroutine blocked on the slot channel is served in turn (channel senders queue).
\* A select that starts with ctx done and the interval still to run takes ctx.Done.
Fairness ==
    /\ WF_vars(Sweep) /\ WF_vars(SweepEnds) /\ SF_vars(LoopExits) /\ WF_vars(StopReturns)
    /\ WF_vars(Tick)
    /\ \A t \in Targets : SF_vars(SweepOne(t))
    /\ \A j \in Jobs :
         /\ SF_vars(Acquire(j))
         /\ WF_vars(Collected(j) \/ \E result \in {"error", "canceled"} : CollectFails(j, result))
         /\ WF_vars(\E result \in {"ok", "error"} : ReconcileEnds(j, result))
         /\ WF_vars(Book(j))

FairSpec == Spec /\ Fairness

----------------------------------------------------------------------------
\* 2 ^ n, in a form that can be reasoned about by induction.
PowerOfTwo[n \in Nat] == IF n = 0 THEN 1 ELSE 2 * PowerOfTwo[n - 1]

\* The shape of the scheduler's state.
TypeOK ==
    /\ targets \in SUBSET Targets
    /\ loop \in {"off", "asleep", "sweeping", "exited"}
    /\ sweep \in SUBSET Targets
    /\ canceled \in BOOLEAN
    /\ stop \in {"no", "waiting", "returned"}
    /\ sem \in 0 .. Workers
    /\ job \in [Jobs -> Job]
    /\ adder \in [Adders -> Adder]
    /\ call \in [Calls -> Call]
    /\ failures \in [Targets -> 0 .. MaxFailures]
    /\ nextOK \in [Targets -> 0 .. RetryMax]

\* The slot channel holds one slot for every scan between its select and its
\* return, and no other: whichever way scanOne is left (with no slot, on an error of
\* Collect or of Reconcile, on success) and whoever started the scan, no slot is
\* kept and none is given back that was not taken.
SlotsConserved == sem = Cardinality(InScan)

\* No backoff exceeds what its number of consecutive failures gives it by the
\* rule of Config (doubles per failure, up to RetryMax), and there is none
\* without a failure: neither a cancelled nor a late scan leaves a gate behind.
BackoffFits ==
    \A t \in Targets :
        /\ nextOK[t] > 0 => failures[t] > 0
        /\ failures[t] > 0 => nextOK[t] <= Lesser(RetryBase * PowerOfTwo[failures[t] - 1], RetryMax)

\* Once Stop has returned the module loop is over and no scan that a sweep
\* started is in any state, booking its outcome included.
SweepsEndWithStop ==
    stop = "returned" => loop = "exited" /\ \A j \in Jobs :
        job[j].pc # "free" => job[j].origin # "sweep"

\* Stop waits for in-flight scans to finish: none is left when it has returned.
StopWaitsForScans == stop = "returned" => \A j \in Jobs : job[j].pc = "free"

\* A scan that waits for a slot gets one, or its context ends, though other scans,
\* of sweeps, of AddTarget and of ScanNow, keep asking for the same slot; and a target
\* that stays registered is scanned again and again while the loop runs, though its
\* scans may fail for ever.
KeepsScanning ==
    /\ \A j \in Jobs : []<>(job[j].pc # "waiting")
    /\ \A t \in Targets : []<>
         (t \notin targets \/ loop \in {"off", "exited"} \/ canceled
            \/ \E j \in InScan : job[j].target = t)

\* Stop returns: no scan it waits for waits for anything but its turn.
StopTerminates == stop = "waiting" ~> stop = "returned"

=============================================================================
