----------------------------- MODULE Dispatcher -----------------------------
(***************************************************************************)
(* The notification dispatcher (notify/notify.go): events from OnResult    *)
(* are gathered in a window, the window becomes one digest per channel,    *)
(* and every digest is sent by a goroutine of its own with retries.        *)
(*                                                                         *)
(* One module is registered in the program, so a window is one digest.     *)
(* Findings carry their fingerprint only: main leaves MinSeverity empty,   *)
(* and the order sortBySeverity gives the opened findings of a digest is   *)
(* an order among different findings.                                      *)
(***************************************************************************)
EXTENDS Naturals, FiniteSets

CONSTANTS
    Fingerprints,
    Channels,
    MaxBatch,
    Retries,
    MaxCalls    \* bound: calls of Enqueue

ASSUME DispatcherAssumption ==
    /\ MaxBatch \in Nat \ {0}
    /\ Retries \in Nat \ {0}
    /\ MaxCalls \in Nat

VARIABLES
    pending,    \* events of the current window
    seen,       \* keys of the current window
    timer,      \* d.timer: "none", "armed", or "fired" (its Flush waits for d.mu)
    orphans,    \* Flush calls of timers that fired just before flushLocked dropped them
    closer,     \* the caller of Close: "running", "waiting", "returned"
    sends,      \* goroutines in sendWithRetry
    calls,      \* calls of Enqueue so far
    accepted,   \* observer: events appended to pending so far
    answered,   \* observer: per channel, events of digests whose Send returned nil
    failed      \* observer: per channel, events of digests given to OnSendError

window == <<pending, seen, timer, orphans>>
observers == <<answered, failed>>
vars == <<window, closer, sends, calls, accepted, observers>>

----------------------------------------------------------------------------
Kinds == {"opened", "resolved"}

\* notify.Event, numbered in the order of acceptance.
Event == [n : Nat, kind : Kinds, fp : Fingerprints]

Key(e) == <<e.kind, e.fp>>

Numbers(es) == {e.n : e \in es}

Send == [ch : Channels, frames : SUBSET Event, attempt : 0 .. Retries - 1]

closed == closer # "running"

\* Send renders the opened findings of a digest before the resolved ones.
Before(e, g) == e.kind = "opened" /\ g.kind = "resolved"

----------------------------------------------------------------------------
Init ==
    /\ pending = {}
    /\ seen = {}
    /\ timer = "none"
    /\ orphans = 0
    /\ closer = "running"
    /\ sends = {}
    /\ calls = 0
    /\ accepted = 0
    /\ answered = [ch \in Channels |-> {}]
    /\ failed = [ch \in Channels |-> {}]

\* Start one goroutine per channel for the digest of the window es.
Fanout(es) ==
    sends' = sends \cup
        IF es = {} THEN {} ELSE {[ch |-> ch, frames |-> es, attempt |-> 0] : ch \in Channels}

----------------------------------------------------------------------------
\* Faulty forms of definitions below, each a slip the code could have made.
FlushLockedKeepsSeen(es) == timer' = "none" /\ pending' = {} /\ Fanout(es) /\ UNCHANGED seen
FlushLockedKeepsPending(es) == timer' = "none" /\ pending' = es /\ Fanout(es) /\ seen' = {}
LastAttemptLate(s) == s.attempt >= Retries
CloseReturnsAtOnce ==
    /\ closer = "waiting"
    /\ closer' = "returned"
    /\ UNCHANGED <<window, sends, calls, accepted, observers>>

----------------------------------------------------------------------------
\* The loop of sendWithRetry has made its last attempt.
LastAttempt(s) == s.attempt >= Retries - 1

\* flushLocked on the window es.  Stopping a timer that has fired does not stop
\* its Flush, which is already waiting for d.mu.
FlushLocked(es) ==
    /\ timer' = "none"
    /\ pending' = {}
    /\ seen' = {}
    /\ Fanout(es)

Stopped == IF timer = "fired" THEN 1 ELSE 0

\* Enqueue on a closed dispatcher or with a key of this window: nothing.
EnqueueDropped(kind, fp) ==
    /\ calls < MaxCalls
    /\ closed \/ <<kind, fp>> \in seen
    /\ calls' = calls + 1
    /\ UNCHANGED <<window, closer, sends, accepted, observers>>

\* Enqueue of a new key: append, then flush at MaxBatch or arm the timer.
Enqueue(kind, fp) ==
    LET more == pending \cup {[n |-> accepted + 1, kind |-> kind, fp |-> fp]} IN
    /\ calls < MaxCalls
    /\ ~closed
    /\ <<kind, fp>> \notin seen
    /\ calls' = calls + 1
    /\ accepted' = accepted + 1
    /\ \/ /\ Cardinality(more) >= MaxBatch
          /\ FlushLocked(more)
          /\ orphans' = orphans + Stopped
       \/ /\ Cardinality(more) < MaxBatch
          /\ pending' = more
          /\ seen' = seen \cup {<<kind, fp>>}
          /\ timer' = IF timer = "none" THEN "armed" ELSE timer
          /\ UNCHANGED <<orphans, sends>>
    /\ UNCHANGED <<closer, observers>>

\* FlushInterval passes: the runtime starts Flush, which still needs d.mu.
TimerFires ==
    /\ timer = "armed"
    /\ timer' = "fired"
    /\ UNCHANGED <<pending, seen, orphans, closer, sends, calls, accepted, observers>>

\* Flush, called by the timer of the current window.
Flush ==
    /\ timer = "fired"
    /\ FlushLocked(pending)
    /\ UNCHANGED <<orphans, closer, calls, accepted, observers>>

\* Flush, called by a timer that an earlier flushLocked came too late to stop:
\* it flushes whatever window it finds.
FlushOrphan ==
    /\ orphans > 0
    /\ FlushLocked(pending)
    /\ orphans' = orphans - 1 + Stopped
    /\ UNCHANGED <<closer, calls, accepted, observers>>

\* Close up to wg.Wait.
Close ==
    /\ closer = "running"
    /\ closer' = "waiting"
    /\ FlushLocked(pending)
    /\ orphans' = orphans + Stopped
    /\ UNCHANGED <<calls, accepted, observers>>

\* wg.Wait returns, Close returns and main ends.
CloseReturns ==
    /\ closer = "waiting"
    /\ sends = {}
    /\ closer' = "returned"
    /\ UNCHANGED <<window, sends, calls, accepted, observers>>

\* sendWithRetry: Send returns nil.
SendSucceeds(s) ==
    /\ sends' = sends \ {s}
    /\ answered' = [answered EXCEPT ![s.ch] = @ \cup Numbers(s.frames)]
    /\ UNCHANGED <<window, closer, calls, accepted, failed>>

\* sendWithRetry: Send returns an error, be it that nothing, a part or only the
\* answer was lost; try the whole digest again or report it.
SendFails(s) ==
    /\ \/ /\ ~LastAttempt(s)
          /\ sends' = (sends \ {s}) \cup {[s EXCEPT !.attempt = @ + 1]}
          /\ UNCHANGED failed
       \/ /\ LastAttempt(s)
          /\ sends' = sends \ {s}
          /\ failed' = [failed EXCEPT ![s.ch] = @ \cup Numbers(s.frames)]
    /\ UNCHANGED <<window, closer, calls, accepted, answered>>

SendStep(s) == SendSucceeds(s) \/ SendFails(s)

Next ==
    \/ \E kind \in Kinds, fp \in Fingerprints : Enqueue(kind, fp) \/ EnqueueDropped(kind, fp)
    \/ TimerFires
    \/ Flush
    \/ FlushOrphan
    \/ Close
    \/ CloseReturns
    \/ \E s \in sends : SendStep(s)

Spec == Init /\ [][Next]_vars

----------------------------------------------------------------------------
\* The events that the goroutines ss are sending over ch.
Sending(ss, ch) == UNION {Numbers(s.frames) : s \in {t \in ss : t.ch = ch}}

InFlight(ch) == Sending(sends, ch)

\* The shape of the dispatcher's state.
TypeOK ==
    /\ pending \in SUBSET Event
    /\ seen \in SUBSET (Kinds \X Fingerprints)
    /\ timer \in {"none", "armed", "fired"}
    /\ orphans \in Nat
    /\ closer \in {"running", "waiting", "returned"}
    /\ sends \in SUBSET Send
    /\ calls \in 0 .. MaxCalls
    /\ accepted \in 0 .. MaxCalls
    /\ answered \in [Channels -> SUBSET Nat]
    /\ failed \in [Channels -> SUBSET Nat]

\* A window always has a timer that will flush it, also after an early flush at
\* MaxBatch and when a late Flush of an earlier timer lands in it; its keys are
\* those of its events, so nothing of an earlier window suppresses an event; and
\* it never holds MaxBatch events once the lock is released.
WindowIsTimed ==
    /\ pending # {} <=> timer # "none"
    /\ seen = {Key(e) : e \in pending}
    /\ Cardinality(pending) < MaxBatch

\* Every accepted event is, for every channel, in exactly one place: the open
\* window, one goroutine's digest, answered, or reported as failed.  No flush of
\* a timer, of MaxBatch or of Close loses an event or puts it in two digests.
Conservation ==
    \A ch \in Channels :
        /\ 1 .. accepted = Numbers(pending) \cup InFlight(ch) \cup answered[ch] \cup failed[ch]
        /\ Numbers(pending) \cap (InFlight(ch) \cup answered[ch] \cup failed[ch]) = {}
        /\ InFlight(ch) \cap (answered[ch] \cup failed[ch]) = {}
        /\ answered[ch] \cap failed[ch] = {}
        /\ \A s, t \in sends : s.ch = ch /\ t.ch = ch /\ s # t =>
             Numbers(s.frames) \cap Numbers(t.frames) = {}

\* After Close returned no goroutine is sending and no event is waiting, whatever
\* timers or callers of Enqueue are still about.
CloseDrains == closer = "returned" => pending = {} /\ sends = {}

=============================================================================
