-------------------------- MODULE DispatcherProofs --------------------------
(***************************************************************************)
(* Safety of the dispatcher for any number of findings, channels, retries  *)
(* and calls, and any MaxBatch.                                            *)
(***************************************************************************)
EXTENDS Dispatcher, FiniteSetTheorems, TLAPS

\* A closed dispatcher has no window.
ClosedIsEmpty == closed => pending = {}

\* The inductive invariant.
IInv ==
    /\ TypeOK
    /\ IsFiniteSet(pending)
    /\ accepted <= calls
    /\ WindowIsTimed
    /\ ClosedIsEmpty
    /\ CloseDrains
    /\ Conservation

----------------------------------------------------------------------------
\* Membership in the numbers of a set of events.
LEMMA InNumbers ==
    ASSUME NEW es, NEW n
    PROVE  n \in Numbers(es) <=> \E e \in es : e.n = n
BY DEF Numbers

\* Membership in what is being sent.
LEMMA InSending ==
    ASSUME NEW ss, NEW ch, NEW n
    PROVE  n \in Sending(ss, ch) <=> \E s \in ss : s.ch = ch /\ n \in Numbers(s.frames)
BY DEF Sending

\* Two sets of goroutines that send the same numbers over a channel.
LEMMA SameSending ==
    ASSUME NEW ss, NEW tt, NEW ch,
           \A n : (\E s \in ss : s.ch = ch /\ n \in Numbers(s.frames)) <=>
                  (\E s \in tt : s.ch = ch /\ n \in Numbers(s.frames))
    PROVE  Sending(ss, ch) = Sending(tt, ch)
  <1>1. ASSUME NEW n PROVE n \in Sending(ss, ch) <=> n \in Sending(tt, ch)
    <2>1. n \in Sending(ss, ch) <=> \E s \in ss : s.ch = ch /\ n \in Numbers(s.frames)
      BY InSending
    <2>2. n \in Sending(tt, ch) <=> \E s \in tt : s.ch = ch /\ n \in Numbers(s.frames)
      BY InSending
    <2>. QED
      BY <2>1, <2>2
  <1>. DEFINE a == Sending(ss, ch)
              b == Sending(tt, ch)
  <1>2. \A n : n \in a <=> n \in b
    BY <1>1
  <1>. HIDE DEF a, b
  <1>3. a = b
    BY <1>2
  <1>. QED
    BY <1>3 DEF a, b

\* A window with one more event: its numbers and its keys.
LEMMA OneMore ==
    ASSUME NEW es, NEW e
    PROVE  /\ Numbers(es \cup {e}) = Numbers(es) \cup {e.n}
           /\ {Key(g) : g \in es \cup {e}} = {Key(g) : g \in es} \cup {Key(e)}
BY DEF Numbers

\* Starting the digest es over every channel adds its events to what each channel
\* is sending.
LEMMA FanoutSends ==
    ASSUME NEW es \in SUBSET Event, Fanout(es), sends \in SUBSET Send, Retries \in Nat \ {0}
    PROVE  /\ sends' \in SUBSET Send
           /\ \A ch \in Channels : Sending(sends', ch) = Sending(sends, ch) \cup Numbers(es)
           /\ \A s \in sends' : s \in sends \/ (s.frames = es /\ s.attempt = 0 /\ es # {})
  <1>. DEFINE new == {[ch |-> ch, frames |-> es, attempt |-> 0] : ch \in Channels}
  <1>1. CASE es = {}
    <2>1. sends' = sends
      BY <1>1 DEF Fanout
    <2>2. Numbers(es) = {}
      BY <1>1 DEF Numbers
    <2>. QED
      BY <2>1, <2>2
  <1>2. CASE es # {}
    <2>1. sends' = sends \cup new
      BY <1>2 DEF Fanout
    <2>2. new \in SUBSET Send /\ \A s \in new : s.frames = es /\ s.attempt = 0
      BY DEF Send
    <2>3. ASSUME NEW ch \in Channels, NEW n
          PROVE  n \in Sending(sends', ch) <=> n \in Sending(sends, ch) \cup Numbers(es)
      <3>1. [ch |-> ch, frames |-> es, attempt |-> 0] \in new
        OBVIOUS
      <3>2. \A s \in new : s.frames = es
        BY <2>2
      <3>. HIDE DEF new
      <3>. QED
        BY <2>1, <3>1, <3>2, InSending
    <2>. HIDE DEF new
    <2>. QED
      BY <1>2, <2>1, <2>2, <2>3
  <1>. QED
    BY <1>1, <1>2

\* The events es become digests, all of them and only they: nothing is lost and
\* nothing is sent twice over a channel.
LEMMA FlushConserves ==
    ASSUME TypeOK, Conservation,
           NEW es \in SUBSET Event, FlushLocked(es), UNCHANGED observers,
           \/ Numbers(es) = Numbers(pending) /\ accepted' = accepted
           \/ Numbers(es) = Numbers(pending) \cup {accepted + 1} /\ accepted' = accepted + 1
    PROVE  /\ sends' \in SUBSET Send
           /\ pending' = {} /\ seen' = {} /\ timer' = "none"
           /\ IsFiniteSet(pending')
           /\ WindowIsTimed'
           /\ Conservation'
  <1>1. pending' = {} /\ seen' = {} /\ timer' = "none" /\ Fanout(es)
    BY DEF FlushLocked
  <1>2. sends \in SUBSET Send /\ accepted \in Nat
    BY DEF TypeOK
  <1>3. /\ sends' \in SUBSET Send
        /\ \A ch \in Channels : Sending(sends', ch) = Sending(sends, ch) \cup Numbers(es)
        /\ \A s \in sends' : s \in sends \/ (s.frames = es /\ s.attempt = 0 /\ es # {})
    BY <1>1, <1>2, FanoutSends, DispatcherAssumption
  <1>4. IsFiniteSet(pending') /\ Cardinality(pending') = 0
    BY <1>1, FS_EmptySet
  <1>5. WindowIsTimed'
    <2>1. {Key(e) : e \in pending'} = {}
      BY <1>1
    <2>. QED
      BY <1>1, <1>4, <2>1, DispatcherAssumption DEF WindowIsTimed
  <1>6. Numbers(pending') = {}
    BY <1>1 DEF Numbers
  <1>7. Conservation'
    <2>. SUFFICES ASSUME NEW ch \in Channels
                  PROVE  /\ 1 .. accepted' = Numbers(pending') \cup Sending(sends', ch)
                                                 \cup answered'[ch] \cup failed'[ch]
                         /\ Numbers(pending') \cap (Sending(sends', ch) \cup answered'[ch]
                                                        \cup failed'[ch]) = {}
                         /\ Sending(sends', ch) \cap (answered'[ch] \cup failed'[ch]) = {}
                         /\ answered'[ch] \cap failed'[ch] = {}
                         /\ \A s, t \in sends' : s.ch = ch /\ t.ch = ch /\ s # t =>
                              Numbers(s.frames) \cap Numbers(t.frames) = {}
      BY DEF Conservation, InFlight
    <2>1. /\ 1 .. accepted = Numbers(pending) \cup Sending(sends, ch)
                                 \cup answered[ch] \cup failed[ch]
          /\ Numbers(pending) \cap (Sending(sends, ch) \cup answered[ch] \cup failed[ch]) = {}
          /\ Sending(sends, ch) \cap (answered[ch] \cup failed[ch]) = {}
          /\ answered[ch] \cap failed[ch] = {}
          /\ \A s, t \in sends : s.ch = ch /\ t.ch = ch /\ s # t =>
                Numbers(s.frames) \cap Numbers(t.frames) = {}
      BY DEF Conservation, InFlight
    <2>2. answered' = answered /\ failed' = failed
      BY DEF observers
    <2>3. Sending(sends', ch) = Sending(sends, ch) \cup Numbers(es)
      BY <1>3
    <2>4. Numbers(es) \cap (Sending(sends, ch) \cup answered[ch] \cup failed[ch]) = {}
      BY <1>2, <2>1
    <2>5. 1 .. accepted' = Sending(sends, ch) \cup Numbers(es) \cup answered[ch] \cup failed[ch]
      BY <1>2, <2>1
    <2>6. ASSUME NEW s \in sends', NEW t \in sends', s.ch = ch, t.ch = ch, s # t
          PROVE  Numbers(s.frames) \cap Numbers(t.frames) = {}
      <3>1. CASE s \in sends /\ t \in sends
        BY <3>1, <2>6, <2>1
      <3>2. ASSUME NEW u \in sends, u.ch = ch
            PROVE  Numbers(u.frames) \cap Numbers(es) = {}
        <4>1. Numbers(u.frames) \subseteq Sending(sends, ch)
          BY <3>2, InSending
        <4>. QED
          BY <4>1, <2>4
      <3>3. CASE s \notin sends /\ t \notin sends
        <4>1. s \in Send /\ t \in Send /\ s.frames = t.frames /\ s.attempt = t.attempt
          BY <3>3, <2>6, <1>3
        <4>. QED
          BY <4>1, <2>6 DEF Send
      <3>. QED
        BY <3>1, <3>2, <3>3, <2>6, <1>3
    <2>. QED
      BY <1>6, <2>1, <2>2, <2>3, <2>4, <2>5, <2>6
  <1>. QED
    BY <1>1, <1>3, <1>4, <1>5, <1>7

----------------------------------------------------------------------------
\* One step per action.
LEMMA EnqueueDroppedKeeps ==
    ASSUME IInv, NEW kind \in Kinds, NEW fp \in Fingerprints, EnqueueDropped(kind, fp)
    PROVE  IInv'
  <1>1. /\ UNCHANGED <<pending, seen, timer, orphans, closer, sends, accepted, answered, failed>>
        /\ calls' = calls + 1 /\ calls < MaxCalls
    BY DEF EnqueueDropped, window, observers
  <1>2. TypeOK' /\ accepted' <= calls'
    BY <1>1, DispatcherAssumption DEF IInv, TypeOK
  <1>3. WindowIsTimed' /\ IsFiniteSet(pending')
    BY <1>1 DEF IInv, WindowIsTimed
  <1>4. ClosedIsEmpty' /\ CloseDrains' /\ Conservation'
    BY <1>1 DEF IInv, ClosedIsEmpty, CloseDrains, Conservation, InFlight, closed
  <1>. QED
    BY <1>2, <1>3, <1>4 DEF IInv

\* Enqueue: the event gets the next number and joins the window, or is dropped.
LEMMA EnqueueKeeps ==
    ASSUME IInv, NEW kind \in Kinds, NEW fp \in Fingerprints, Enqueue(kind, fp)
    PROVE  IInv'
  <1>. DEFINE e == [n |-> accepted + 1, kind |-> kind, fp |-> fp]
              more == pending \cup {e}
  <1>1. /\ pending \in SUBSET Event
        /\ accepted \in Nat /\ calls \in Nat
        /\ seen = {Key(g) : g \in pending}
        /\ IsFiniteSet(pending)
    BY DEF IInv, TypeOK, WindowIsTimed
  <1>2. e \in Event /\ more \in SUBSET Event /\ e.n = accepted + 1 /\ Key(e) = <<kind, fp>>
    BY <1>1 DEF Event, Key
  <1>3. Numbers(more) = Numbers(pending) \cup {accepted + 1}
    BY <1>2, OneMore
  <1>4. /\ accepted' = accepted + 1 /\ calls' = calls + 1
        /\ calls' \in 0 .. MaxCalls /\ accepted' \in 0 .. MaxCalls /\ accepted' <= calls'
        /\ UNCHANGED observers /\ UNCHANGED closer
    BY <1>1, DispatcherAssumption DEF Enqueue, IInv, TypeOK
  <1>5. ClosedIsEmpty' /\ CloseDrains'
    BY <1>4 DEF ClosedIsEmpty, CloseDrains, closed, Enqueue
  <1>6. CASE FlushLocked(more) /\ orphans' = orphans + Stopped
    <2>1. /\ sends' \in SUBSET Send
          /\ pending' = {} /\ seen' = {} /\ timer' = "none"
          /\ IsFiniteSet(pending')
          /\ WindowIsTimed'
          /\ Conservation'
      BY <1>2, <1>3, <1>4, <1>6, FlushConserves DEF IInv
    <2>2. orphans' \in Nat
      BY <1>6 DEF Stopped, IInv, TypeOK
    <2>3. TypeOK'
      BY <1>4, <2>1, <2>2 DEF IInv, TypeOK, observers
    <2>. QED
      BY <1>4, <1>5, <2>1, <2>3 DEF IInv
  <1>7. CASE /\ Cardinality(more) < MaxBatch
             /\ pending' = more
             /\ seen' = seen \cup {<<kind, fp>>}
             /\ timer' = IF timer = "none" THEN "armed" ELSE timer
             /\ UNCHANGED <<orphans, sends>>
    <2>1. IsFiniteSet(pending')
      BY <1>1, <1>7, FS_AddElement
    <2>2. timer' # "none" /\ timer' \in {"none", "armed", "fired"} /\ pending' # {}
      BY <1>7 DEF IInv, TypeOK
    <2>3. seen' = {Key(g) : g \in pending'}
      BY <1>1, <1>2, <1>7, OneMore
    <2>4. WindowIsTimed'
      BY <1>7, <2>2, <2>3 DEF WindowIsTimed
    <2>5. TypeOK'
      BY <1>2, <1>4, <1>7, <2>2 DEF IInv, TypeOK, observers
    <2>6. Conservation'
      <3>1. /\ Numbers(pending') = Numbers(pending) \cup {accepted + 1}
            /\ sends' = sends /\ answered' = answered /\ failed' = failed
        BY <1>3, <1>4, <1>7 DEF observers
      <3>2. 1 .. accepted' = (1 .. accepted) \cup {accepted + 1} /\ accepted + 1 \notin 1 .. accepted
        BY <1>1, <1>4
      <3>. QED
        BY <3>1, <3>2 DEF IInv, Conservation, InFlight
    <2>. QED
      BY <1>4, <1>5, <2>1, <2>4, <2>5, <2>6 DEF IInv
  <1>. QED
    BY <1>6, <1>7 DEF Enqueue

\* The timer of a window fires; its Flush waits for the mutex.
LEMMA TimerFiresKeeps ==
    ASSUME IInv, TimerFires
    PROVE  IInv'
BY DEF IInv, TimerFires, TypeOK, WindowIsTimed, ClosedIsEmpty, CloseDrains, Conservation,
       closed, observers, InFlight

\* Flush, FlushOrphan and Close turn the whole window into digests.
LEMMA FlushKeeps ==
    ASSUME IInv, Flush \/ FlushOrphan \/ Close
    PROVE  IInv'
  <1>1. /\ FlushLocked(pending)
        /\ UNCHANGED <<calls, accepted, observers>>
        /\ closer' = closer \/ (closer = "running" /\ closer' = "waiting")
    BY DEF Flush, FlushOrphan, Close
  <1>2. pending \in SUBSET Event
    BY DEF IInv, TypeOK
  <1>3. /\ sends' \in SUBSET Send
        /\ pending' = {} /\ seen' = {} /\ timer' = "none"
        /\ IsFiniteSet(pending')
        /\ WindowIsTimed'
        /\ Conservation'
    BY <1>1, <1>2, FlushConserves DEF IInv
  <1>4. orphans' \in Nat
    BY DEF Flush, FlushOrphan, Close, Stopped, IInv, TypeOK
  <1>5. TypeOK'
    BY <1>1, <1>3, <1>4 DEF IInv, TypeOK, observers
  <1>6. CloseDrains'
    <2>1. ASSUME closer' = "returned" PROVE sends' = {}
      <3>1. closer = "returned" /\ pending = {} /\ sends = {}
        BY <1>1, <2>1 DEF IInv, CloseDrains
      <3>. QED
        BY <1>1, <3>1 DEF FlushLocked, Fanout
    <2>. QED
      BY <1>3, <2>1 DEF CloseDrains
  <1>. QED
    BY <1>1, <1>3, <1>5, <1>6 DEF IInv, ClosedIsEmpty

\* Close returns when no goroutine sends any more.
LEMMA CloseReturnsKeeps ==
    ASSUME IInv, CloseReturns
    PROVE  IInv'
BY DEF IInv, CloseReturns, TypeOK, WindowIsTimed, ClosedIsEmpty, CloseDrains, Conservation,
       closed, window, observers, InFlight

\* A goroutine that ends hands its digest's events to one of answered and failed.
LEMMA DoneConserves ==
    ASSUME IInv, NEW s \in sends, sends' = sends \ {s}, UNCHANGED <<pending, accepted>>,
           LET ns == Numbers(s.frames) IN
              \/ /\ answered' = [answered EXCEPT ![s.ch] = @ \cup ns]
                 /\ UNCHANGED failed
              \/ /\ failed' = [failed EXCEPT ![s.ch] = @ \cup ns]
                 /\ UNCHANGED answered
    PROVE  /\ Conservation'
           /\ answered' \in [Channels -> SUBSET Nat]
           /\ failed' \in [Channels -> SUBSET Nat]
  <1>. DEFINE ns == Numbers(s.frames)
  <1>1. s \in Send /\ sends \in SUBSET Send
    BY DEF IInv, TypeOK
  <1>2. s.ch \in Channels /\ ns \in SUBSET Nat
    BY <1>1 DEF Send, Numbers, Event
  <1>3. answered \in [Channels -> SUBSET Nat] /\ failed \in [Channels -> SUBSET Nat]
    BY DEF IInv, TypeOK
  <1>4. /\ answered' \in [Channels -> SUBSET Nat]
        /\ failed' \in [Channels -> SUBSET Nat]
    BY <1>2, <1>3
  <1>5. ASSUME NEW ch \in Channels
        PROVE  /\ 1 .. accepted' = Numbers(pending') \cup Sending(sends', ch)
                                       \cup answered'[ch] \cup failed'[ch]
               /\ Numbers(pending') \cap (Sending(sends', ch) \cup answered'[ch]
                                              \cup failed'[ch]) = {}
               /\ Sending(sends', ch) \cap (answered'[ch] \cup failed'[ch]) = {}
               /\ answered'[ch] \cap failed'[ch] = {}
               /\ \A r, t \in sends' : r.ch = ch /\ t.ch = ch /\ r # t =>
                    Numbers(r.frames) \cap Numbers(t.frames) = {}
    <2>1. /\ 1 .. accepted = Numbers(pending) \cup Sending(sends, ch)
                                 \cup answered[ch] \cup failed[ch]
          /\ Numbers(pending) \cap (Sending(sends, ch) \cup answered[ch] \cup failed[ch]) = {}
          /\ Sending(sends, ch) \cap (answered[ch] \cup failed[ch]) = {}
          /\ answered[ch] \cap failed[ch] = {}
          /\ \A r, t \in sends : r.ch = ch /\ t.ch = ch /\ r # t =>
                Numbers(r.frames) \cap Numbers(t.frames) = {}
      BY DEF IInv, Conservation, InFlight
    <2>2. CASE s.ch # ch
      <3>1. Sending(sends', ch) = Sending(sends, ch)
        <4>1. \A n : (\E r \in sends' : r.ch = ch /\ n \in Numbers(r.frames)) <=>
                     (\E r \in sends : r.ch = ch /\ n \in Numbers(r.frames))
          BY <2>2
        <4>. QED
          BY <4>1, SameSending
      <3>2. answered'[ch] = answered[ch] /\ failed'[ch] = failed[ch]
        BY <2>2, <1>3
      <3>. QED
        BY <2>1, <3>1, <3>2
    <2>3. CASE s.ch = ch
      <3>1. ASSUME NEW n
            PROVE  /\ n \in Sending(sends, ch) <=> n \in Sending(sends', ch) \/ n \in ns
                   /\ ~(n \in Sending(sends', ch) /\ n \in ns)
        <4>1. n \in Sending(sends, ch) <=>
                 \E r \in sends : r.ch = ch /\ n \in Numbers(r.frames)
          BY InSending
        <4>2. n \in Sending(sends', ch) <=>
                 \E r \in sends' : r.ch = ch /\ n \in Numbers(r.frames)
          BY InSending
        <4>3. \A r \in sends : r.ch = ch /\ r # s => ~(n \in Numbers(r.frames) /\ n \in ns)
          BY <2>1, <2>3
        <4>. QED
          BY <2>3, <4>1, <4>2, <4>3
      <3>2. \/ answered'[ch] = answered[ch] \cup ns /\ failed'[ch] = failed[ch]
            \/ failed'[ch] = failed[ch] \cup ns /\ answered'[ch] = answered[ch]
        BY <2>3, <1>2, <1>3
      <3>. HIDE DEF ns
      <3>. QED
        BY <2>1, <3>1, <3>2
    <2>. QED
      BY <2>2, <2>3
  <1>6. Conservation'
    BY <1>5 DEF Conservation, InFlight
  <1>. QED
    BY <1>4, <1>6

\* Another attempt sends the same events over the same channel.
LEMMA AgainConserves ==
    ASSUME IInv, NEW s \in sends, ~LastAttempt(s),
           sends' = (sends \ {s}) \cup {[s EXCEPT !.attempt = @ + 1]},
           UNCHANGED <<pending, accepted, answered, failed>>
    PROVE  Conservation' /\ sends' \in SUBSET Send
  <1>. DEFINE next == [s EXCEPT !.attempt = @ + 1]
  <1>1. s \in Send /\ sends \in SUBSET Send
    BY DEF IInv, TypeOK
  <1>2. next \in Send /\ next.ch = s.ch /\ next.frames = s.frames
    BY <1>1, DispatcherAssumption DEF Send, LastAttempt
  <1>3. sends' \in SUBSET Send
    BY <1>1, <1>2
  <1>. HIDE DEF next
  <1>4. sends' = (sends \ {s}) \cup {next}
    BY DEF next
  <1>5. ASSUME NEW ch \in Channels
        PROVE  Sending(sends', ch) = Sending(sends, ch)
    BY <1>2, <1>4, SameSending
  <1>6. ASSUME NEW ch \in Channels, NEW r \in sends', NEW t \in sends',
               r.ch = ch, t.ch = ch, r # t
        PROVE  Numbers(r.frames) \cap Numbers(t.frames) = {}
    <2>1. \A x, y \in sends : x.ch = ch /\ y.ch = ch /\ x # y =>
             Numbers(x.frames) \cap Numbers(y.frames) = {}
      BY DEF IInv, Conservation
    <2>. QED
      BY <1>2, <1>4, <1>6, <2>1
  <1>7. Conservation'
    BY <1>5, <1>6 DEF IInv, Conservation, InFlight
  <1>. QED
    BY <1>3, <1>7

\* An attempt ends: the goroutine is done, tries again or gives up.
LEMMA SendKeeps ==
    ASSUME IInv, NEW s \in sends, SendStep(s)
    PROVE  IInv'
  <1>1. /\ UNCHANGED <<pending, seen, timer, orphans, closer, calls, accepted>>
        /\ closer # "returned"
    BY DEF SendStep, SendSucceeds, SendFails, window, IInv, CloseDrains
  <1>2. /\ Conservation'
        /\ sends' \in SUBSET Send
        /\ answered' \in [Channels -> SUBSET Nat]
        /\ failed' \in [Channels -> SUBSET Nat]
    <2>1. sends \in SUBSET Send /\ answered \in [Channels -> SUBSET Nat]
            /\ failed \in [Channels -> SUBSET Nat]
      BY DEF IInv, TypeOK
    <2>2. CASE SendSucceeds(s)
      BY <1>1, <2>1, <2>2, DoneConserves DEF SendSucceeds
    <2>3. CASE SendFails(s) /\ LastAttempt(s)
      BY <1>1, <2>1, <2>3, DoneConserves DEF SendFails
    <2>4. CASE SendFails(s) /\ ~LastAttempt(s)
      BY <1>1, <2>1, <2>4, AgainConserves DEF SendFails
    <2>. QED
      BY <2>2, <2>3, <2>4 DEF SendStep
  <1>3. TypeOK'
    BY <1>1, <1>2 DEF IInv, TypeOK
  <1>4. WindowIsTimed' /\ ClosedIsEmpty' /\ CloseDrains' /\ IsFiniteSet(pending')
    BY <1>1 DEF IInv, WindowIsTimed, ClosedIsEmpty, CloseDrains, closed
  <1>. QED
    BY <1>1, <1>2, <1>3, <1>4 DEF IInv

----------------------------------------------------------------------------
\* The dispatcher starts with no window and nothing to send.
LEMMA InitHolds == Init => IInv
  <1>. SUFFICES ASSUME Init PROVE IInv
    OBVIOUS
  <1>1. TypeOK /\ accepted <= calls
    BY DispatcherAssumption DEF Init, TypeOK
  <1>2. IsFiniteSet(pending) /\ Cardinality(pending) = 0
    BY FS_EmptySet DEF Init
  <1>3. WindowIsTimed
    BY <1>2, DispatcherAssumption DEF Init, WindowIsTimed
  <1>4. ClosedIsEmpty /\ CloseDrains
    BY DEF Init, ClosedIsEmpty, CloseDrains, closed
  <1>5. Conservation
    <2>1. Numbers(pending) = {} /\ \A ch \in Channels : InFlight(ch) = {}
      BY DEF Init, Numbers, InFlight, Sending
    <2>2. 1 .. accepted = {}
      BY DEF Init
    <2>. QED
      BY <2>1, <2>2 DEF Init, Conservation
  <1>. QED
    BY <1>1, <1>2, <1>3, <1>4, <1>5 DEF IInv

\* Every step keeps the inductive invariant.
LEMMA StepKeeps == IInv /\ [Next]_vars => IInv'
  <1>. SUFFICES ASSUME IInv, [Next]_vars PROVE IInv'
    OBVIOUS
  <1>1. ASSUME NEW kind \in Kinds, NEW fp \in Fingerprints,
               Enqueue(kind, fp) \/ EnqueueDropped(kind, fp)
        PROVE  IInv'
    BY <1>1, EnqueueKeeps, EnqueueDroppedKeeps
  <1>2. CASE TimerFires
    BY <1>2, TimerFiresKeeps
  <1>3. CASE Flush \/ FlushOrphan \/ Close
    BY <1>3, FlushKeeps
  <1>4. CASE CloseReturns
    BY <1>4, CloseReturnsKeeps
  <1>5. ASSUME NEW s \in sends, SendStep(s) PROVE IInv'
    BY <1>5, SendKeeps
  <1>6. CASE UNCHANGED vars
    BY <1>6 DEF vars, window, observers, IInv, TypeOK, WindowIsTimed, ClosedIsEmpty, CloseDrains,
                Conservation, InFlight, closed
  <1>. QED
    BY <1>1, <1>2, <1>3, <1>4, <1>5, <1>6 DEF Next

\* The inductive invariant holds throughout.
THEOREM Invariance == Spec => []IInv
  <1>. QED
    BY InitHolds, StepKeeps, PTL DEF Spec

\* The dispatcher's state keeps its types (notify.Dispatcher).
THEOREM TypeCorrect == Spec => []TypeOK
  <1>1. IInv => TypeOK
    BY DEF IInv
  <1>. QED
    BY Invariance, <1>1, PTL

\* Whatever timers, early flushes and late Flush calls do, a window has a timer,
\* its own keys only, and room for one more event (Enqueue, flushLocked).
THEOREM WindowsAreTimed == Spec => []WindowIsTimed
  <1>1. IInv => WindowIsTimed
    BY DEF IInv
  <1>. QED
    BY Invariance, <1>1, PTL

\* No accepted event is lost or sent in two digests (Enqueue, flushLocked,
\* sendWithRetry).
THEOREM EventsAreConserved == Spec => []Conservation
  <1>1. IInv => Conservation
    BY DEF IInv
  <1>. QED
    BY Invariance, <1>1, PTL

\* After Close has returned nothing is pending and nothing is being sent (Close).
THEOREM CloseHasDrained == Spec => []CloseDrains
  <1>1. IInv => CloseDrains
    BY DEF IInv
  <1>. QED
    BY Invariance, <1>1, PTL

=============================================================================
