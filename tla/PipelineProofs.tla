--------------------------- MODULE PipelineProofs ---------------------------
(***************************************************************************)
(* The pipeline implements the dispatcher's specification, for any number  *)
(* of scans, findings, channels and settings, and so has its invariants;   *)
(* nothing that scans stored and handed over goes untold while the         *)
(* dispatcher is open; and what the receivers have fits what was sent.     *)
(***************************************************************************)
EXTENDS Pipeline, DispatcherProofs, FunctionTheorems

Transition == [k : Transitions, kind : Kinds, fp : Fingerprints]

\* The shape of what the pipeline adds to the dispatcher's state.
PTypeOK ==
    /\ open \in SUBSET Fingerprints
    /\ stored \in 0 .. MaxCalls
    /\ outbox \in [Scans -> SUBSET Transition]
    /\ main \in {"serving", "returning", "dead"}
    /\ told \in [Transitions -> Nat]

\* Only main, on its way out, closes the dispatcher.
ClosedByMain == closed => main = "returning"

\* The inductive invariant, beside the dispatcher's IInv.
PIInv == PTypeOK /\ ClosedByMain /\ ToldAfterwards

----------------------------------------------------------------------------
\* Numbering gives the transitions of a scan exactly the next numbers.
LEMMA NumberingIsOnto ==
    ASSUME NEW cs, IsFiniteSet(cs), stored \in Nat
    PROVE  LET numbers == stored + 1 .. stored + Cardinality(cs) IN
           /\ Numbering(cs) \in [cs -> numbers]
           /\ numbers = {Numbering(cs)[c] : c \in cs}
  <1>. DEFINE n == Cardinality(cs)
              numbers == stored + 1 .. stored + n
  <1>1. n \in Nat /\ ExistsBijection(1 .. n, cs)
    BY FS_CardinalityType
  <1>2. ExistsBijection(cs, 1 .. n)
    BY <1>1, Fun_ExistsBijSymmetric
  <1>3. PICK g \in Bijection(cs, 1 .. n) : TRUE
    BY <1>2 DEF ExistsBijection
  <1>4. g \in [cs -> 1 .. n] /\ \A i \in 1 .. n : \E c \in cs : g[c] = i
    BY <1>3 DEF Bijection, Injection, Surjection
  <1>. HIDE DEF n
  <1>. DEFINE f == [c \in cs |-> stored + g[c]]
  <1>5. f \in [cs -> numbers]
    BY <1>1, <1>4
  <1>6. ASSUME NEW i \in numbers PROVE i \in {f[c] : c \in cs}
    <2>1. i - stored \in 1 .. n
      BY <1>1
    <2>2. PICK c \in cs : g[c] = i - stored
      BY <1>4, <2>1
    <2>3. f[c] = i
      BY <2>2, <1>1
    <2>. QED
      BY <2>3
  <1>7. numbers = {f[c] : c \in cs}
    BY <1>5, <1>6
  <1>8. Numbering(cs) = CHOOSE h \in [cs -> numbers] : numbers = {h[c] : c \in cs}
    BY DEF Numbering, n
  <1>. HIDE DEF f, numbers
  <1>9. /\ Numbering(cs) \in [cs -> numbers]
        /\ numbers = {Numbering(cs)[c] : c \in cs}
    BY <1>5, <1>7, <1>8
  <1>. QED
    BY <1>9 DEF numbers, n

\* The transitions of a scan are finitely many.
LEMMA ChangesAreFinite ==
    ASSUME open \in SUBSET Fingerprints, NEW found \in SUBSET Fingerprints
    PROVE  /\ IsFiniteSet(Changes(found))
           /\ Changes(found) \subseteq [kind : Kinds, fp : Fingerprints]
  <1>. DEFINE Pairs == Kinds \X Fingerprints
              Rec(p) == [kind |-> p[1], fp |-> p[2]]
              All == {Rec(p) : p \in Pairs}
  <1>1. IsFiniteSet(Kinds)
    <2>1. IsFiniteSet({} \cup {"opened"})
      BY FS_EmptySet, FS_AddElement
    <2>2. IsFiniteSet(({} \cup {"opened"}) \cup {"resolved"})
      BY <2>1, FS_AddElement
    <2>3. Kinds = ({} \cup {"opened"}) \cup {"resolved"}
      BY DEF Kinds
    <2>. QED
      BY <2>2, <2>3
  <1>2. IsFiniteSet(Pairs)
    BY <1>1, FS_Product, PipelineAssumption
  <1>3. IsFiniteSet(All)
    <2>. DEFINE f == [p \in Pairs |-> Rec(p)]
    <2>1. f \in Surjection(Pairs, All)
      BY DEF Surjection
    <2>. HIDE DEF f, All
    <2>. QED
      BY <1>2, <2>1, FS_Surjection
  <1>4. Changes(found) \subseteq [kind : Kinds, fp : Fingerprints]
    BY DEF Changes, Kinds
  <1>5. Changes(found) \subseteq All
    <2>1. ASSUME NEW c \in Changes(found) PROVE c \in All
      <3>1. c.kind \in Kinds /\ c.fp \in Fingerprints /\ c = [kind |-> c.kind, fp |-> c.fp]
        BY <1>4
      <3>2. <<c.kind, c.fp>> \in Pairs /\ Rec(<<c.kind, c.fp>>) = c
        BY <3>1
      <3>. QED
        BY <3>2
    <2>. QED
      BY <2>1
  <1>. QED
    BY <1>3, <1>4, <1>5, FS_Subset

----------------------------------------------------------------------------
\* Every step of the pipeline is a step of the dispatcher or leaves it alone.
LEMMA StepImplements ==
    ASSUME PTypeOK, [PNext]_pvars
    PROVE  [Next]_vars
  <1>1. ASSUME NEW s \in Scans, NEW found \in SUBSET Fingerprints, Reconcile(s, found)
        PROVE  UNCHANGED vars
    BY <1>1 DEF Reconcile, dispatcher
  <1>2. ASSUME NEW s \in Scans, NEW e \in outbox[s], HandOver(s, e)
        PROVE  Next
    <2>1. e \in Transition
      BY DEF PTypeOK
    <2>2. e.kind \in Kinds /\ e.fp \in Fingerprints
      BY <2>1 DEF Transition
    <2>3. Enqueue(e.kind, e.fp) \/ EnqueueDropped(e.kind, e.fp)
      BY <1>2 DEF HandOver
    <2>. QED
      BY <2>2, <2>3 DEF Next
  <1>3. ASSUME WindowTimer PROVE Next
    BY <1>3 DEF WindowTimer, Next
  <1>4. ASSUME NEW s \in sends, Attempt(s) PROVE Next
    <2>1. SendStep(s)
      BY <1>4 DEF Attempt, SendStep
    <2>. QED
      BY <2>1 DEF Next
  <1>5. ASSUME Shutdown \/ Fatal PROVE UNCHANGED vars
    BY <1>5 DEF Shutdown, Fatal, dispatcher
  <1>6. ASSUME MainCloses \/ MainReturns PROVE Next
    BY <1>6 DEF MainCloses, MainReturns, Next
  <1>7. ASSUME UNCHANGED pvars PROVE UNCHANGED vars
    BY <1>7 DEF pvars, dispatcher
  <1>. QED
    BY <1>1, <1>2, <1>3, <1>4, <1>5, <1>6, <1>7 DEF PNext

\* A transition that is waiting is in a scan's outbox.
LEMMA InWaiting ==
    ASSUME NEW k
    PROVE  k \in Waiting <=> \E s \in Scans : \E e \in outbox[s] : e.k = k
BY DEF Waiting

\* Initially nothing is stored.
LEMMA PInitHolds == PInit => PIInv
  <1>. SUFFICES ASSUME PInit PROVE PIInv
    OBVIOUS
  <1>1. PTypeOK
    BY DispatcherAssumption DEF PInit, PTypeOK, Transitions
  <1>2. ClosedByMain
    BY DEF PInit, Init, ClosedByMain, closed
  <1>3. ToldAfterwards
    BY DEF PInit, ToldAfterwards
  <1>. QED
    BY <1>1, <1>2, <1>3 DEF PIInv

\* Reconcile puts every transition it stores into the outbox of its scan.
LEMMA ReconcileKeeps ==
    ASSUME PIInv, NEW s \in Scans, NEW found \in SUBSET Fingerprints, Reconcile(s, found)
    PROVE  PIInv'
  <1>. DEFINE cs == Changes(found)
              number == Numbering(cs)
              fresh == stored + 1 .. stored + Cardinality(cs)
  <1>1. IsFiniteSet(cs) /\ cs \subseteq [kind : Kinds, fp : Fingerprints]
    BY ChangesAreFinite DEF PIInv, PTypeOK
  <1>2. stored \in Nat /\ Cardinality(cs) \in Nat /\ stored' = stored + Cardinality(cs)
          /\ stored' \in 0 .. MaxCalls
    BY <1>1, FS_CardinalityType, DispatcherAssumption DEF PIInv, PTypeOK, Reconcile
  <1>3. number \in [cs -> fresh] /\ fresh = {number[c] : c \in cs}
    BY <1>1, <1>2, NumberingIsOnto
  <1>4. outbox' = [outbox EXCEPT ![s] = {[k |-> number[c], kind |-> c.kind, fp |-> c.fp] : c \in cs}]
          /\ outbox[s] = {} /\ open' = found
    BY DEF Reconcile
  <1>. HIDE DEF cs, number
  <1>5. fresh \subseteq Transitions
    BY <1>2, DispatcherAssumption DEF Transitions
  <1>6. outbox' \in [Scans -> SUBSET Transition]
    <2>1. ASSUME NEW c \in cs
          PROVE  [k |-> number[c], kind |-> c.kind, fp |-> c.fp] \in Transition
      BY <1>1, <1>3, <1>5 DEF Transition
    <2>. QED
      BY <1>4, <2>1 DEF PIInv, PTypeOK
  <1>7. UNCHANGED <<vars, kind, main, told, late, copies>>
    BY DEF Reconcile, dispatcher
  <1>8. PTypeOK'
    BY <1>2, <1>4, <1>6, <1>7 DEF PIInv, PTypeOK
  <1>9. ClosedByMain'
    BY <1>7 DEF PIInv, ClosedByMain, closed, vars
  <1>10. ASSUME NEW k \in 1 .. stored', k \notin Waiting'
         PROVE  told'[k] \in 1 .. accepted' \/ k \in late'
    <2>1. \A t \in Scans : \A e \in outbox'[t] : e.k # k
      BY <1>10 DEF Waiting
    <2>2. k \notin fresh
      <3>. SUFFICES ASSUME k \in fresh PROVE FALSE
        OBVIOUS
      <3>1. PICK c \in cs : number[c] = k
        BY <1>3
      <3>2. [k |-> number[c], kind |-> c.kind, fp |-> c.fp] \in outbox'[s]
        BY <1>4 DEF PIInv, PTypeOK
      <3>. QED
        BY <2>1, <3>1, <3>2
    <2>3. k \in 1 .. stored
      BY <1>2, <2>2
    <2>4. k \notin Waiting
      BY <1>4, <2>1, InWaiting DEF PIInv, PTypeOK
    <2>. QED
      BY <1>7, <2>3, <2>4 DEF PIInv, ToldAfterwards, vars
  <1>11. ToldAfterwards'
    BY <1>7, <1>10 DEF PIInv, ToldAfterwards
  <1>. QED
    BY <1>8, <1>9, <1>11 DEF PIInv

\* A transition that is handed over is told by an event of the open window, or the
\* dispatcher was closed.
LEMMA HandOverKeeps ==
    ASSUME PIInv, IInv, NEW s \in Scans, NEW e \in outbox[s], HandOver(s, e)
    PROVE  PIInv'
  <1>1. e \in Transition /\ e.k \in Transitions
    BY DEF PIInv, PTypeOK, Transition
  <1>2. UNCHANGED <<open, stored, main, closer>>
    BY DEF HandOver, Enqueue, EnqueueDropped
  <1>3. outbox' = [outbox EXCEPT ![s] = @ \ {e}]
    BY DEF HandOver
  <1>4. accepted \in Nat /\ accepted' \in Nat /\ accepted <= accepted'
    BY DEF HandOver, Enqueue, EnqueueDropped, IInv, TypeOK
  <1>5. ClosedByMain'
    BY <1>2 DEF PIInv, ClosedByMain, closed
  <1>. DEFINE twins == {g \in pending : Key(g) = <<e.kind, e.fp>>}
              twin == CHOOSE g \in twins : TRUE
  <1>6. /\ \E v \in Nat : told' = [told EXCEPT ![e.k] = v]
        /\ told'[e.k] \in 1 .. accepted' \/ e.k \in late'
        /\ late \subseteq late'
        /\ late' # late => closed
    <2>1. CASE /\ Enqueue(e.kind, e.fp)
               /\ told' = [told EXCEPT ![e.k] = accepted']
               /\ UNCHANGED late
      <3>1. accepted' = accepted + 1
        BY <2>1 DEF Enqueue
      <3>2. told'[e.k] = accepted'
        BY <1>1, <2>1 DEF PIInv, PTypeOK
      <3>3. \E v \in Nat : told' = [told EXCEPT ![e.k] = v]
        BY <1>4, <2>1
      <3>4. told'[e.k] \in 1 .. accepted'
        BY <1>4, <3>1, <3>2
      <3>. QED
        BY <2>1, <3>3, <3>4
    <2>2. CASE /\ EnqueueDropped(e.kind, e.fp)
               /\ told' = [told EXCEPT ![e.k] = IF twins = {} THEN 0 ELSE twin.n]
               /\ late' = IF closed THEN late \cup {e.k} ELSE late
      <3>1. CASE closed
        <4>1. twins = {}
          BY <3>1 DEF IInv, ClosedIsEmpty
        <4>. QED
          BY <2>2, <3>1, <4>1
      <3>2. CASE ~closed
        <4>1. <<e.kind, e.fp>> \in seen
          BY <2>2, <3>2 DEF EnqueueDropped
        <4>2. twins # {}
          BY <4>1 DEF IInv, WindowIsTimed
        <4>3. twin \in pending
          BY <4>2
        <4>. HIDE DEF twin
        <4>4. twin.n \in Numbers(pending)
          BY <4>3 DEF Numbers
        <4>5. twin.n \in 1 .. accepted
          BY <4>4, PipelineAssumption DEF IInv, Conservation
        <4>6. told'[e.k] = twin.n /\ told' = [told EXCEPT ![e.k] = twin.n]
          BY <1>1, <2>2, <4>2 DEF PIInv, PTypeOK
        <4>7. accepted' = accepted /\ late' = late /\ twin.n \in Nat
          BY <1>4, <2>2, <3>2, <4>5 DEF EnqueueDropped
        <4>. QED
          BY <4>5, <4>6, <4>7
      <3>. QED
        BY <3>1, <3>2
    <2>. QED
      BY <2>1, <2>2 DEF HandOver
  <1>7. told' \in [Transitions -> Nat] /\ \A k \in Transitions : k # e.k => told'[k] = told[k]
    BY <1>1, <1>6 DEF PIInv, PTypeOK
  <1>8. outbox' \in [Scans -> SUBSET Transition]
    BY <1>3 DEF PIInv, PTypeOK
  <1>9. PTypeOK'
    BY <1>2, <1>7, <1>8 DEF PIInv, PTypeOK
  <1>10. ASSUME NEW k \in 1 .. stored', k \notin Waiting'
         PROVE  told'[k] \in 1 .. accepted' \/ k \in late'
    <2>1. CASE k = e.k
      BY <1>6, <2>1
    <2>2. CASE k # e.k
      <3>1. \A t \in Scans : \A g \in outbox'[t] : g.k # k
        BY <1>10 DEF Waiting
      <3>2. \A t \in Scans : \A g \in outbox[t] : g.k # k
        BY <1>3, <2>2, <3>1 DEF PIInv, PTypeOK
      <3>3. k \notin Waiting
        BY <3>2, InWaiting
      <3>4. k \in 1 .. stored /\ k \in Transitions
        BY <1>2, DispatcherAssumption DEF PIInv, PTypeOK, Transitions
      <3>5. told[k] \in 1 .. accepted \/ k \in late
        BY <3>3, <3>4 DEF PIInv, ToldAfterwards
      <3>6. told'[k] = told[k]
        BY <1>7, <2>2, <3>4
      <3>. QED
        BY <1>4, <1>6, <3>5, <3>6
    <2>. QED
      BY <2>1, <2>2
  <1>11. late' # {} => main' = "returning"
    BY <1>2, <1>6 DEF PIInv, ToldAfterwards, ClosedByMain
  <1>12. ToldAfterwards'
    BY <1>10, <1>11 DEF ToldAfterwards
  <1>. QED
    BY <1>5, <1>9, <1>12 DEF PIInv

\* The other steps leave the scans' transitions and what was told of them alone.
LEMMA OthersKeep ==
    ASSUME PIInv, IInv,
           \/ WindowTimer
           \/ \E s \in sends : Attempt(s)
           \/ Shutdown \/ Fatal \/ MainCloses \/ MainReturns
           \/ UNCHANGED pvars
    PROVE  PIInv'
  <1>1. UNCHANGED <<scanning, told, late, accepted>>
    BY DEF WindowTimer, TimerFires, Flush, FlushOrphan, Attempt, SendSucceeds, SendFails, Shutdown,
           Fatal, MainCloses, Close, MainReturns, CloseReturns, pvars, dispatcher, vars
  <1>2. main' \in {"serving", "returning", "dead"} /\ (main = "returning" => main' = main)
    BY DEF WindowTimer, Attempt, Shutdown, Fatal, MainCloses, MainReturns, pvars, PIInv, PTypeOK
  <1>3. closed' => main' = "returning"
    BY DEF WindowTimer, TimerFires, Flush, FlushOrphan, Attempt, SendSucceeds, SendFails, Shutdown,
           Fatal, MainCloses, Close, MainReturns, CloseReturns, pvars, dispatcher, vars,
           PIInv, ClosedByMain, closed
  <1>. QED
    BY <1>1, <1>2, <1>3 DEF PIInv, PTypeOK, ClosedByMain, ToldAfterwards, Waiting, scanning

\* PIInv is inductive relative to the dispatcher's invariant.
LEMMA PStepKeeps ==
    ASSUME PIInv, IInv, [PNext]_pvars
    PROVE  PIInv'
BY ReconcileKeeps, HandOverKeeps, OthersKeep DEF PNext

----------------------------------------------------------------------------
\* The shape of the pipeline's state and the dispatcher's invariant together.
LEMMA PInvariance == PSpec => [](PIInv /\ IInv)
  <1>1. PInit => PIInv /\ IInv
    BY PInitHolds, InitHolds DEF PInit
  <1>2. PIInv /\ IInv /\ [PNext]_pvars => (PIInv /\ IInv)'
    BY PStepKeeps, StepImplements, StepKeeps DEF PIInv
  <1>. QED
    BY <1>1, <1>2, PTL DEF PSpec

\* The program's pipeline (BindScheduler, the channels, main) implements the
\* dispatcher's specification, so whatever is proved of the dispatcher alone holds
\* of it.
THEOREM PipelineImplementsDispatcher == PSpec => Spec
  <1>1. PInit => Init
    BY DEF PInit
  <1>2. PIInv /\ [PNext]_pvars => [Next]_vars
    BY StepImplements DEF PIInv
  <1>. QED
    BY <1>1, <1>2, PInvariance, PTL DEF PSpec, Spec

\* A transition that a scan handed over is told by an event of the window that was
\* open then, or main had closed the dispatcher (BindScheduler, Enqueue, main).
THEOREM NothingGoesUntold == PSpec => []ToldAfterwards
  <1>1. PIInv => ToldAfterwards
    BY DEF PIInv
  <1>. QED
    BY <1>1, PInvariance, PTL

----------------------------------------------------------------------------
\* What the receivers can have got: no event that is not accepted yet.
NothingAhead ==
    \A ch \in Channels : \A n \in 1 .. MaxCalls : n > accepted => copies[ch][n] = 0

\* The inductive invariant of the receivers, beside the dispatcher's.
RInv ==
    /\ copies \in [Channels -> [1 .. MaxCalls -> Nat]]
    /\ NothingAhead
    /\ ReceivedFits

\* Every event the dispatcher knows of has a count of its copies.
LEMMA EventsAreCounted ==
    ASSUME IInv
    PROVE  /\ \A e \in pending : e.n \in 1 .. MaxCalls
           /\ \A s \in sends : \A e \in s.frames : e.n \in 1 .. MaxCalls
           /\ \A ch \in Channels : answered[ch] \subseteq 1 .. MaxCalls
  <1>1. 1 .. accepted \subseteq 1 .. MaxCalls
    BY DispatcherAssumption DEF IInv, TypeOK
  <1>2. \A e \in pending : e.n \in 1 .. accepted
    BY PipelineAssumption, InNumbers DEF IInv, Conservation
  <1>3. ASSUME NEW s \in sends, NEW e \in s.frames PROVE e.n \in 1 .. accepted
    <2>1. s.ch \in Channels
      BY DEF IInv, TypeOK, Send
    <2>2. e.n \in Sending(sends, s.ch)
      BY InSending, InNumbers
    <2>. QED
      BY <2>1, <2>2 DEF IInv, Conservation, InFlight
  <1>4. \A ch \in Channels : answered[ch] \subseteq 1 .. accepted
    BY DEF IInv, Conservation
  <1>. QED
    BY <1>1, <1>2, <1>3, <1>4

\* A step that sends nothing and starts digests only of events nobody has got.
LEMMA NothingSentKeeps ==
    ASSUME RInv, IInv, IInv', UNCHANGED <<copies, kind, answered>>, accepted <= accepted',
           \A ch \in Channels : \A e \in pending' : copies[ch][e.n] = 0,
           \A s \in sends' : \/ s \in sends
                             \/ s.attempt = 0 /\ \A ch \in Channels : \A e \in s.frames : copies[ch][e.n] = 0
    PROVE  RInv'
  <1>1. NothingAhead'
    BY DEF RInv, NothingAhead, IInv, TypeOK
  <1>2. ReceivedFits'
    BY DEF RInv, ReceivedFits
  <1>. QED
    BY <1>1, <1>2 DEF RInv

\* A flush turns the window into digests at attempt 0.
LEMMA FlushIsUnsent ==
    ASSUME RInv, IInv, NEW es \in SUBSET Event, FlushLocked(es),
           \A ch \in Channels : \A e \in es : copies[ch][e.n] = 0
    PROVE  /\ pending' = {}
           /\ \A s \in sends' :
                \/ s \in sends
                \/ s.attempt = 0 /\ \A ch \in Channels : \A e \in s.frames : copies[ch][e.n] = 0
  <1>1. pending' = {} /\ Fanout(es)
    BY DEF FlushLocked
  <1>2. \A s \in sends' : s \in sends \/ (s.frames = es /\ s.attempt = 0)
    BY <1>1, FanoutSends, DispatcherAssumption DEF IInv, TypeOK
  <1>. QED
    BY <1>1, <1>2

\* OnResult hands over a transition; a new event has reached nobody.
LEMMA HandOverReceived ==
    ASSUME RInv, IInv, IInv', PTypeOK, NEW s \in Scans, NEW e \in outbox[s], HandOver(s, e)
    PROVE  RInv'
  <1>1. UNCHANGED <<copies, kind>>
    BY DEF HandOver
  <1>2. CASE EnqueueDropped(e.kind, e.fp)
    <2>1. UNCHANGED <<pending, sends, accepted, answered>>
      BY <1>2 DEF EnqueueDropped, window, observers
    <2>2. accepted <= accepted'
      BY <2>1 DEF IInv, TypeOK
    <2>3. \A ch \in Channels : \A g \in pending' : copies[ch][g.n] = 0
      BY <2>1 DEF RInv, ReceivedFits
    <2>. QED
      BY <1>1, <2>1, <2>2, <2>3, NothingSentKeeps
  <1>3. CASE Enqueue(e.kind, e.fp)
    <2>. DEFINE new == [n |-> accepted + 1, kind |-> e.kind, fp |-> e.fp]
                more == pending \cup {new}
    <2>1. accepted' = accepted + 1 /\ UNCHANGED answered
      BY <1>3 DEF Enqueue, observers
    <2>2. accepted \in Nat /\ accepted <= accepted' /\ accepted + 1 \in 1 .. MaxCalls
      BY <2>1, DispatcherAssumption DEF IInv, TypeOK
    <2>3. more \in SUBSET Event
      <3>1. e \in Transition
        BY DEF PTypeOK
      <3>2. new \in Event
        BY <2>2, <3>1 DEF Transition, Event
      <3>. QED
        BY <3>2 DEF IInv, TypeOK
    <2>4. \A ch \in Channels : \A g \in more : copies[ch][g.n] = 0
      <3>1. \A ch \in Channels : \A g \in pending : copies[ch][g.n] = 0
        BY DEF RInv, ReceivedFits
      <3>2. new.n = accepted + 1
        OBVIOUS
      <3>3. \A ch \in Channels : copies[ch][accepted + 1] = 0
        BY <2>2 DEF RInv, NothingAhead
      <3>. HIDE DEF new
      <3>. QED
        BY <3>1, <3>2, <3>3
    <2>5. FlushLocked(more) \/ (pending' = more /\ UNCHANGED sends)
      BY <1>3 DEF Enqueue
    <2>. HIDE DEF more
    <2>6. CASE FlushLocked(more)
      <3>1. /\ pending' = {}
            /\ \A t \in sends' :
                \/ t \in sends
                \/ t.attempt = 0 /\ \A ch \in Channels : \A g \in t.frames : copies[ch][g.n] = 0
        BY <2>3, <2>4, <2>6, FlushIsUnsent
      <3>. QED
        BY <1>1, <2>1, <2>2, <3>1, NothingSentKeeps
    <2>7. CASE pending' = more /\ UNCHANGED sends
      BY <1>1, <2>1, <2>2, <2>4, <2>7, NothingSentKeeps
    <2>. QED
      BY <2>5, <2>6, <2>7
  <1>. QED
    BY <1>2, <1>3 DEF HandOver

\* The timer's flush, the flush of Close and the steps outside the dispatcher.
LEMMA UnsentReceived ==
    ASSUME RInv, IInv, IInv',
           \/ \E s \in Scans : \E found \in SUBSET Fingerprints : Reconcile(s, found)
           \/ WindowTimer \/ Shutdown \/ Fatal \/ MainCloses \/ MainReturns
           \/ UNCHANGED pvars
    PROVE  RInv'
  <1>1. UNCHANGED <<copies, kind, answered, accepted>>
    BY DEF Reconcile, WindowTimer, TimerFires, Flush, FlushOrphan, Shutdown, Fatal, MainCloses, Close,
           MainReturns, CloseReturns, pvars, dispatcher, vars, observers
  <1>2. FlushLocked(pending) \/ UNCHANGED <<pending, sends>>
    BY DEF Reconcile, WindowTimer, TimerFires, Flush, FlushOrphan, Shutdown, Fatal, MainCloses, Close,
           MainReturns, CloseReturns, pvars, dispatcher, vars, window
  <1>3. accepted <= accepted' /\ pending \in SUBSET Event
    BY <1>1 DEF IInv, TypeOK
  <1>4. \A ch \in Channels : \A e \in pending : copies[ch][e.n] = 0
    BY DEF RInv, ReceivedFits
  <1>5. CASE FlushLocked(pending)
    <2>1. /\ pending' = {}
          /\ \A t \in sends' :
              \/ t \in sends
              \/ t.attempt = 0 /\ \A ch \in Channels : \A g \in t.frames : copies[ch][g.n] = 0
      BY <1>3, <1>4, <1>5, FlushIsUnsent
    <2>. QED
      BY <1>1, <1>3, <2>1, NothingSentKeeps
  <1>6. CASE UNCHANGED <<pending, sends>>
    BY <1>1, <1>3, <1>4, <1>6, NothingSentKeeps
  <1>. QED
    BY <1>2, <1>5, <1>6

\* What reaches the receiver is a part of the digest; all of it if an HTTP or file
\* channel says so.
LEMMA ReachedIsPart ==
    ASSUME NEW how, NEW frames, NEW ok \in BOOLEAN, NEW arrived \in Reached(how, frames, ok)
    PROVE  /\ arrived \subseteq frames
           /\ ok /\ how \in {"http", "file"} => arrived = frames
  <1>1. CASE how = "http"
    BY <1>1 DEF Reached, ReachedPost
  <1>2. CASE how = "file"
    BY <1>2 DEF Reached, LinePrefixes
  <1>3. CASE how \notin {"http", "file"}
    <2>1. arrived \in ReachedLines(how, frames, ok)
      BY <1>3 DEF Reached
    <2>. QED
      BY <1>3, <2>1 DEF ReachedLines, LinePrefixes
  <1>. QED
    BY <1>1, <1>2, <1>3

\* One attempt: only the events of its digest gain a copy, and only on its channel.
LEMMA AttemptReceived ==
    ASSUME RInv, IInv, IInv', NEW s \in sends, Attempt(s)
    PROVE  RInv'
  <1>1. PICK ok \in BOOLEAN : \E arrived \in Reached(kind[s.ch], s.frames, ok) :
           /\ IF ok THEN SendSucceeds(s) ELSE SendFails(s)
           /\ copies' = [copies EXCEPT ![s.ch] =
                [n \in DOMAIN @ |-> IF n \in Numbers(arrived) THEN @[n] + 1 ELSE @[n]]]
    BY DEF Attempt
  <1>2. PICK arrived \in Reached(kind[s.ch], s.frames, ok) :
           /\ IF ok THEN SendSucceeds(s) ELSE SendFails(s)
           /\ copies' = [copies EXCEPT ![s.ch] =
                [n \in DOMAIN @ |-> IF n \in Numbers(arrived) THEN @[n] + 1 ELSE @[n]]]
    BY <1>1
  <1>. DEFINE ns == Numbers(arrived)
  <1>3. /\ ns \subseteq Numbers(s.frames)
        /\ ok /\ kind[s.ch] \in {"http", "file"} => ns = Numbers(s.frames)
    BY ReachedIsPart DEF Numbers
  <1>4. UNCHANGED <<kind, pending, accepted>>
    BY <1>2 DEF Attempt, SendSucceeds, SendFails, window
  <1>5. s \in Send /\ s.ch \in Channels /\ s.attempt \in 0 .. Retries - 1
    BY DEF IInv, TypeOK, Send
  <1>6. copies \in [Channels -> [1 .. MaxCalls -> Nat]]
    BY DEF RInv
  <1>. HIDE DEF ns
  <1>7. copies' = [copies EXCEPT ![s.ch] =
                     [n \in 1 .. MaxCalls |-> IF n \in ns THEN copies[s.ch][n] + 1 ELSE copies[s.ch][n]]]
    BY <1>2, <1>5, <1>6 DEF ns
  <1>8. /\ copies' \in [Channels -> [1 .. MaxCalls -> Nat]]
        /\ \A ch \in Channels : \A n \in 1 .. MaxCalls :
             copies'[ch][n] = IF ch = s.ch /\ n \in ns THEN copies[ch][n] + 1 ELSE copies[ch][n]
    <2>. DEFINE line == [n \in 1 .. MaxCalls |->
                           IF n \in ns THEN copies[s.ch][n] + 1 ELSE copies[s.ch][n]]
    <2>1. copies[s.ch] \in [1 .. MaxCalls -> Nat]
      BY <1>5, <1>6
    <2>2. line \in [1 .. MaxCalls -> Nat]
      <3>1. \A n \in 1 .. MaxCalls : copies[s.ch][n] \in Nat
        BY <2>1
      <3>2. \A n \in 1 .. MaxCalls :
              (IF n \in ns THEN copies[s.ch][n] + 1 ELSE copies[s.ch][n]) \in Nat
        BY <3>1
      <3>. QED
        BY <3>2, Zenon
    <2>3. \A n \in 1 .. MaxCalls :
            line[n] = IF n \in ns THEN copies[s.ch][n] + 1 ELSE copies[s.ch][n]
      OBVIOUS
    <2>4. copies' = [copies EXCEPT ![s.ch] = line]
      BY <1>7
    <2>. HIDE DEF line
    <2>5. copies' \in [Channels -> [1 .. MaxCalls -> Nat]]
      BY <1>6, <2>2, <2>4
    <2>6. \A ch \in Channels : copies'[ch] = IF ch = s.ch THEN line ELSE copies[ch]
      BY <1>6, <2>4
    <2>. QED
      BY <2>3, <2>5, <2>6
  <1>9. \A n \in ns : n \in 1 .. accepted /\ n \in Sending(sends, s.ch)
    <2>1. \A n \in ns : n \in Sending(sends, s.ch)
      BY <1>3, InSending
    <2>. QED
      BY <1>5, <2>1 DEF IInv, Conservation, InFlight
  <1>10. NothingAhead'
    <2>1. accepted \in Nat
      BY DEF IInv, TypeOK
    <2>2. \A n \in 1 .. MaxCalls : n > accepted => n \notin ns
      BY <1>9, <2>1
    <2>. QED
      BY <1>4, <1>8, <2>2 DEF RInv, NothingAhead
  <1>11. ASSUME NEW ch \in Channels, NEW e \in pending'
         PROVE  copies'[ch][e.n] = 0
    <2>1. e.n \in 1 .. MaxCalls /\ copies[ch][e.n] = 0
      BY <1>4, <1>11, EventsAreCounted DEF RInv, ReceivedFits
    <2>2. e.n \in Numbers(pending)
      BY <1>4, <1>11, InNumbers
    <2>3. ch = s.ch => e.n \notin ns
      BY <1>9, <2>2 DEF IInv, Conservation, InFlight
    <2>. QED
      BY <1>8, <2>1, <2>3
  <1>12. ASSUME NEW t \in sends', NEW e \in t.frames
         PROVE  copies'[t.ch][e.n] <= t.attempt
    <2>0. \/ t \in sends /\ t # s
          \/ t = [s EXCEPT !.attempt = @ + 1]
      <3>1. sends' \subseteq (sends \ {s}) \cup {[s EXCEPT !.attempt = @ + 1]}
        BY <1>2 DEF SendSucceeds, SendFails
      <3>. QED
        BY <3>1
    <2>1. t.ch \in Channels /\ e.n \in 1 .. MaxCalls
      <3>1. t.ch \in Channels
        BY DEF IInv, TypeOK, Send
      <3>2. t \in sends \/ t.frames = s.frames
        BY <1>5, <2>0 DEF Send
      <3>. QED
        BY <1>12, <3>1, <3>2, EventsAreCounted
    <2>2. CASE t \in sends /\ t # s
      <3>1. copies[t.ch][e.n] <= t.attempt
        BY <2>1, <2>2 DEF RInv, ReceivedFits
      <3>2. e.n \in Numbers(t.frames)
        BY InNumbers
      <3>3. t.ch = s.ch => e.n \notin ns
        BY <1>3, <1>5, <2>2, <3>2 DEF IInv, Conservation
      <3>. QED
        BY <1>8, <2>1, <3>1, <3>3
    <2>3. CASE t = [s EXCEPT !.attempt = @ + 1]
      <3>1. t.ch = s.ch /\ t.frames = s.frames /\ t.attempt = s.attempt + 1
        BY <1>5, <2>3 DEF Send
      <3>2. copies[s.ch][e.n] <= s.attempt
        BY <1>5, <3>1 DEF RInv, ReceivedFits
      <3>3. copies[s.ch][e.n] \in Nat /\ s.attempt \in Nat
        BY <1>5, <1>6, <2>1, DispatcherAssumption
      <3>4. copies'[s.ch][e.n] \in {copies[s.ch][e.n], copies[s.ch][e.n] + 1}
        BY <1>5, <1>8, <2>1
      <3>. QED
        BY <3>1, <3>2, <3>3, <3>4
    <2>. QED
      BY <2>0, <2>2, <2>3
  <1>13. ASSUME NEW ch \in Channels, NEW n \in 1 .. MaxCalls
         PROVE  copies'[ch][n] <= Retries
    <2>1. copies[ch][n] <= Retries /\ copies[ch][n] \in Nat /\ Retries \in Nat
      BY <1>6, DispatcherAssumption DEF RInv, ReceivedFits
    <2>2. CASE ch = s.ch /\ n \in ns
      <3>1. PICK e \in s.frames : e.n = n
        BY <1>3, <2>2, InNumbers
      <3>2. copies[ch][n] <= s.attempt
        BY <2>2, <3>1 DEF RInv, ReceivedFits
      <3>. QED
        BY <1>5, <1>8, <2>1, <2>2, <3>2
    <2>3. CASE ~(ch = s.ch /\ n \in ns)
      BY <1>8, <2>1, <2>3
    <2>. QED
      BY <2>2, <2>3
  <1>14. ASSUME NEW ch \in Channels, kind'[ch] \in {"http", "file"}, NEW n \in answered'[ch]
         PROVE  copies'[ch][n] > 0
    <2>0. n \in answered[ch] \/ (ok /\ ch = s.ch /\ n \in Numbers(s.frames))
      <3>1. answered \in [Channels -> SUBSET Nat]
        BY DEF IInv, TypeOK
      <3>2. CASE ok
        <4>1. answered' = [answered EXCEPT ![s.ch] = @ \cup Numbers(s.frames)]
          BY <1>2, <3>2 DEF SendSucceeds
        <4>. QED
          BY <1>14, <3>1, <3>2, <4>1
      <3>3. CASE ~ok
        BY <1>2, <1>14, <3>3 DEF SendFails
      <3>. QED
        BY <3>2, <3>3
    <2>1. n \in 1 .. MaxCalls /\ copies[ch][n] \in Nat
      <3>1. n \in 1 .. MaxCalls
        BY <2>0, EventsAreCounted, InNumbers
      <3>. QED
        BY <1>6, <3>1
    <2>2. CASE n \in answered[ch]
      <3>1. copies[ch][n] > 0
        BY <1>4, <1>14, <2>2 DEF RInv, ReceivedFits
      <3>. QED
        BY <1>8, <2>1, <3>1
    <2>3. CASE n \notin answered[ch]
      <3>1. ok /\ ch = s.ch /\ n \in Numbers(s.frames)
        BY <2>0, <2>3
      <3>2. n \in ns
        BY <1>3, <1>4, <1>14, <3>1
      <3>. QED
        BY <1>8, <2>1, <3>1, <3>2
    <2>. QED
      BY <2>2, <2>3
  <1>15. ReceivedFits'
    BY <1>8, <1>11, <1>12, <1>13, <1>14 DEF ReceivedFits
  <1>. QED
    BY <1>8, <1>10, <1>15 DEF RInv

\* Whatever the networks lose, cut or answer, and however flushes, retries and the
\* shutdown interleave: no receiver has anything of an open window, an event more
\* often than its digest was tried, or misses one that HTTP or the file answered
\* for (sendWithRetry and the Send of every channel).
THEOREM ReceiversFit == PSpec => []ReceivedFits
  <1>1. PInit => RInv
    <2>. SUFFICES ASSUME PInit PROVE RInv
      OBVIOUS
    <2>1. copies = [ch \in Channels |-> [n \in 1 .. MaxCalls |-> 0]]
      BY DEF PInit
    <2>2. pending = {} /\ sends = {} /\ \A ch \in Channels : answered[ch] = {}
      BY DEF PInit, Init
    <2>3. copies \in [Channels -> [1 .. MaxCalls -> Nat]] /\ NothingAhead
      BY <2>1 DEF NothingAhead
    <2>4. ReceivedFits
      BY <2>1, <2>2, DispatcherAssumption DEF ReceivedFits
    <2>. QED
      BY <2>3, <2>4 DEF RInv
  <1>2. ASSUME PIInv, IInv, IInv', RInv, [PNext]_pvars PROVE RInv'
    <2>1. PTypeOK
      BY <1>2 DEF PIInv
    <2>. QED
      BY <1>2, <2>1, HandOverReceived, UnsentReceived, AttemptReceived DEF PNext
  <1>3. (PIInv /\ IInv) /\ (PIInv /\ IInv)' /\ RInv /\ [PNext]_pvars => RInv'
    BY <1>2
  <1>4. RInv => ReceivedFits
    BY DEF RInv
  <1>. QED
    BY <1>1, <1>3, <1>4, PInvariance, PTL DEF PSpec

=============================================================================
