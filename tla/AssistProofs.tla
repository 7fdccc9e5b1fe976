---------------------------- MODULE AssistProofs ----------------------------
(***************************************************************************)
(* The retry rule, the licence rule and the output guards of AI Assist,    *)
(* for any number of requests, tiers, severities, answers, findings and    *)
(* retries.                                                                *)
(***************************************************************************)
EXTENDS Assist, Induction

\* The sets that the fields of a request range over.
Findings ==
    {NoPacket} \cup {[severity |-> sv, text |-> c.text, evidence |-> c.evidence, complete |-> c.complete] :
                       sv \in Severities, c \in Contents}
Packets == {NoPacket} \cup {NewFindingPacket(f) : f \in Findings}
PlainReplies == {"none", "400", "404", "500", "off", "incomplete", "withheld"}
Shown ==
    {[kind |-> "shown", answer |-> a, shown |-> Guarded(a, p.severity)] : a \in Answers, p \in Packets}
Replies == [kind : PlainReplies] \cup [kind : {"unavailable"}, log : Seq(Responses)] \cup Shown

RequestType ==
    [pc : {"idle", "found", "asking", "backoff", "replied"}, finding : Findings, packet : Packets,
     log : Seq(Responses), gone : BOOLEAN, reply : Replies]

Shape ==
    /\ ai \in {"off", "open", "keyed"}
    /\ maxRetries \in RetryLimits
    /\ tier \in Tiers
    /\ row \in Severities \cup {"none"}
    /\ req \in [Requests -> RequestType]
    /\ during \in [Requests -> [tiers : SUBSET Tiers, severities : SUBSET Severities]]

\* The attempts of a request so far, and those that it reports.
RetryOK(q, limit) ==
    /\ q.pc \notin {"asking", "backoff"} => q.log = <<>>
    /\ Len(q.log) <= limit
    /\ \A i \in 1 .. Len(q.log) : Repeatable(q.log[i])
    /\ q.pc # "replied" => q.reply.kind = "none"
    /\ q.reply.kind = "unavailable" =>
         /\ Len(q.reply.log) <= limit + 1
         /\ \A i \in 1 .. Len(q.reply.log) : i < Len(q.reply.log) => Repeatable(q.reply.log[i])
         /\ ~q.gone => \/ Len(q.reply.log) = limit + 1
                       \/ ~Repeatable(q.reply.log[Len(q.reply.log)])

\* The tiers that a request has seen, and what it did about them.
LicenceOK(q, d, kept, t) ==
    /\ q.pc \notin {"idle", "replied"} => t \in d.tiers
    /\ kept = "keyed" /\ q.pc \in {"asking", "backoff"} => d.tiers \cap Paid # {}
    /\ kept = "keyed" /\ q.reply.kind = "off" => d.tiers \ Paid # {}

\* The inductive invariant.
IInv ==
    /\ Shape
    /\ \A r \in Requests : /\ RetryOK(req[r], maxRetries)
                         /\ LicenceOK(req[r], during[r], ai, tier)

----------------------------------------------------------------------------
\* doRequest calls retryable exactly what may pass and what reports an error.
LEMMA RetryableIsRepeatable ==
    ASSUME NEW resp \in Responses
    PROVE  /\ doRequest(resp) = "retryable" <=> Repeatable(resp)
           /\ doRequest(resp) \in {"retryable", "final", "ok"}
  <1>1. /\ resp.status \in {"none", "below400", "4xx", "5xx"}
        /\ resp.body \in {"none", "cut", "notJSON", "error", "noExplanation", "answer"}
        /\ resp.status = "none" => resp.body = "none"
    BY DEF Responses, NoAnswer, Statuses, BadBodies
  <1>. QED
    BY <1>1 DEF doRequest, Repeatable, MayPass, ReportsError

\* A new state of one request, which changes nothing else, keeps the invariant.
LEMMA OneRequest ==
    ASSUME IInv, NEW r \in Requests, NEW q \in RequestType,
           req' = [req EXCEPT ![r] = q], UNCHANGED <<config, tier, row, during>>,
           RetryOK(q, maxRetries), LicenceOK(q, during[r], ai, tier)
    PROVE  IInv'
  <1>1. Shape'
    BY DEF IInv, Shape, config
  <1>2. ASSUME NEW t \in Requests
        PROVE  RetryOK(req'[t], maxRetries') /\ LicenceOK(req'[t], during'[t], ai', tier')
    <2>1. CASE t = r
      <3>1. req'[t] = q /\ during'[t] = during[r]
        BY <2>1 DEF IInv, Shape
      <3>. QED
        BY <3>1 DEF config
    <2>2. CASE t # r
      <3>1. req'[t] = req[t] /\ during'[t] = during[t]
        BY <2>2 DEF IInv, Shape
      <3>. QED
        BY <3>1 DEF IInv, config
    <2>. QED
      BY <2>1, <2>2
  <1>. QED
    BY <1>1, <1>2 DEF IInv

\* A handler that holds nothing is of the type of requests.
LEMMA NoLocalsType ==
    ASSUME NEW pc \in {"idle", "found", "asking", "backoff", "replied"}, NEW gone \in BOOLEAN,
           NEW reply \in Replies
    PROVE  NoLocals(pc, gone, reply) \in RequestType
  <1>1. NoPacket \in Findings /\ NoPacket \in Packets
    BY DEF Findings, Packets
  <1>2. <<>> \in Seq(Responses)
    OBVIOUS
  <1>. QED
    BY <1>1, <1>2, Zenon DEF NoLocals, RequestType

\* A reply that reports no attempts.
LEMMA PlainAnswerKeeps ==
    ASSUME IInv, NEW r \in Requests, NEW reply \in Replies,
           Answered(r, reply), UNCHANGED <<config, tier, row, during>>,
           reply.kind # "unavailable",
           ai = "keyed" /\ reply.kind = "off" => during[r].tiers \ Paid # {}
    PROVE  IInv'
  <1>. DEFINE q == NoLocals("replied", req[r].gone, reply)
  <1>1. q = [pc |-> "replied", finding |-> NoPacket, packet |-> NoPacket, log |-> <<>>,
             gone |-> req[r].gone, reply |-> reply]
    BY DEF NoLocals
  <1>0. req[r].gone \in BOOLEAN
    BY DEF IInv, Shape, RequestType
  <1>2. q \in RequestType
    BY <1>0, NoLocalsType
  <1>3. maxRetries \in Nat
    BY AssistAssumption DEF IInv, Shape
  <1>4. RetryOK(q, maxRetries)
    BY <1>1, <1>3 DEF RetryOK
  <1>5. LicenceOK(q, during[r], ai, tier)
    BY <1>1 DEF LicenceOK
  <1>6. req' = [req EXCEPT ![r] = q]
    BY DEF Answered
  <1>. HIDE DEF q
  <1>. QED
    BY <1>2, <1>4, <1>5, <1>6, OneRequest

\* A reply that reports the attempts of log.
LEMMA UnavailableKeeps ==
    ASSUME IInv, NEW r \in Requests, NEW log \in Seq(Responses),
           Answered(r, [kind |-> "unavailable", log |-> log]), UNCHANGED <<config, tier, row, during>>,
           Len(log) <= maxRetries + 1,
           \A i \in 1 .. Len(log) : i < Len(log) => Repeatable(log[i]),
           ~req[r].gone => Len(log) = maxRetries + 1 \/ ~Repeatable(log[Len(log)])
    PROVE  IInv'
  <1>. DEFINE reply == [kind |-> "unavailable", log |-> log]
              q == NoLocals("replied", req[r].gone, reply)
  <1>1. q = [pc |-> "replied", finding |-> NoPacket, packet |-> NoPacket, log |-> <<>>,
             gone |-> req[r].gone, reply |-> reply]
    BY DEF NoLocals
  <1>2. reply \in Replies
    BY DEF Replies
  <1>0. req[r].gone \in BOOLEAN
    BY DEF IInv, Shape, RequestType
  <1>3. q \in RequestType
    BY <1>0, <1>2, NoLocalsType
  <1>4. maxRetries \in Nat
    BY AssistAssumption DEF IInv, Shape
  <1>5. RetryOK(q, maxRetries)
    BY <1>1, <1>4 DEF RetryOK
  <1>6. LicenceOK(q, during[r], ai, tier)
    BY <1>1 DEF LicenceOK
  <1>7. req' = [req EXCEPT ![r] = q]
    BY DEF Answered
  <1>. HIDE DEF q
  <1>. QED
    BY <1>3, <1>5, <1>6, <1>7, OneRequest

----------------------------------------------------------------------------
\* The fields of a request.
LEMMA Fields ==
    ASSUME IInv, NEW r \in Requests
    PROVE  /\ req[r] \in RequestType
           /\ req[r].packet \in Packets
           /\ req[r].log \in Seq(Responses)
           /\ maxRetries \in Nat
           /\ RetryOK(req[r], maxRetries)
           /\ LicenceOK(req[r], during[r], ai, tier)
BY AssistAssumption DEF IInv, Shape, RequestType

\* Each action keeps the invariant: a request that is refused, or finds no row.
LEMMA RefuseKeeps ==
    ASSUME IInv, NEW r \in Requests, Refuse(r) \/ NotFound(r)
    PROVE  IInv'
  <1>1. PICK k \in {"400", "404", "500"} : Answered(r, Reply(k))
    BY DEF Refuse, NotFound
  <1>2. Reply(k) \in Replies /\ Reply(k).kind = k
    BY DEF Reply, Replies, PlainReplies
  <1>3. UNCHANGED <<config, tier, row, during>>
    BY DEF Refuse, NotFound
  <1>. QED
    BY <1>1, <1>2, <1>3, PlainAnswerKeeps

\* The licence check: told off with the tier of now among those seen, or let through.
LEMMA AllowKeeps ==
    ASSUME IInv, NEW r \in Requests, Allow(r)
    PROVE  IInv'
  <1>1. UNCHANGED <<config, tier, row, during>> /\ req[r].pc = "found"
    BY DEF Allow
  <1>2. CASE ~aiAllowed /\ Answered(r, Reply("off"))
    <2>1. Reply("off") \in Replies /\ Reply("off").kind = "off"
      BY DEF Reply, Replies, PlainReplies
    <2>2. ai = "keyed" => during[r].tiers \ Paid # {}
      BY <1>1, <1>2, Fields DEF aiAllowed, LicenceOK
    <2>. QED
      BY <1>1, <1>2, <2>1, <2>2, PlainAnswerKeeps
  <1>3. CASE Answered(r, Reply("incomplete"))
    <2>1. Reply("incomplete") \in Replies /\ Reply("incomplete").kind = "incomplete"
      BY DEF Reply, Replies, PlainReplies
    <2>. QED
      BY <1>1, <1>3, <2>1, PlainAnswerKeeps
  <1>4. CASE /\ aiAllowed
             /\ req' = [req EXCEPT ![r].pc = "asking", ![r].finding = NoPacket,
                                   ![r].packet = NewFindingPacket(req[r].finding)]
    <2>. DEFINE p == NewFindingPacket(req[r].finding)
                q == [req[r] EXCEPT !.pc = "asking", !.finding = NoPacket, !.packet = p]
    <2>1. p \in Packets
      BY Fields DEF RequestType, Packets
    <2>2. NoPacket \in Findings
      BY DEF Findings
    <2>. HIDE DEF p
    <2>3. q \in RequestType
      BY Fields, <2>1, <2>2 DEF RequestType
    <2>4. q.pc = "asking" /\ q.log = req[r].log /\ q.reply = req[r].reply /\ q.gone = req[r].gone
      BY Fields DEF RequestType
    <2>5. req' = [req EXCEPT ![r] = q]
      BY <1>4 DEF p
    <2>. HIDE DEF q
    <2>6. RetryOK(q, maxRetries)
      BY <1>1, <2>4, Fields DEF RetryOK
    <2>7. LicenceOK(q, during[r], ai, tier)
      BY <1>1, <1>4, <2>4, Fields DEF LicenceOK, RetryOK, aiAllowed
    <2>. QED
      BY <1>1, <2>3, <2>5, <2>6, <2>7, OneRequest
  <1>. QED
    BY <1>2, <1>3, <1>4 DEF Allow

\* A failed attempt is logged and repeated if it may pass, or reported.
LEMMA AttemptFailsKeeps ==
    ASSUME IInv, NEW r \in Requests, NEW resp \in Responses, AttemptFails(r, resp)
    PROVE  IInv'
  <1>. DEFINE log == Append(req[r].log, resp)
              n == Len(req[r].log)
  <1>1. UNCHANGED <<config, tier, row, during>> /\ req[r].pc = "asking"
    BY DEF AttemptFails
  <1>2. /\ log \in Seq(Responses) /\ Len(log) = n + 1 /\ n \in Nat /\ n <= maxRetries
        /\ \A i \in 1 .. n : log[i] = req[r].log[i] /\ Repeatable(log[i])
        /\ log[n + 1] = resp
    BY Fields DEF RetryOK
  <1>. HIDE DEF log
  <1>3. CASE /\ doRequest(resp) = "retryable"
             /\ attemptsLeft(log)
             /\ req' = [req EXCEPT ![r].pc = "backoff", ![r].log = log]
    <2>. DEFINE q == [req[r] EXCEPT !.pc = "backoff", !.log = log]
    <2>1. q \in RequestType
      BY Fields, <1>2 DEF RequestType
    <2>2. q.pc = "backoff" /\ q.log = log /\ q.reply = req[r].reply /\ q.gone = req[r].gone
      BY Fields DEF RequestType
    <2>3. req' = [req EXCEPT ![r] = q]
      BY <1>3
    <2>. HIDE DEF q
    <2>4. \A i \in 1 .. Len(log) : Repeatable(log[i])
      BY <1>2, <1>3, RetryableIsRepeatable
    <2>5. RetryOK(q, maxRetries)
      BY <1>1, <1>2, <1>3, <2>2, <2>4, Fields DEF RetryOK, attemptsLeft
    <2>6. LicenceOK(q, during[r], ai, tier)
      BY <1>1, <2>2, Fields DEF LicenceOK
    <2>. QED
      BY <1>1, <2>1, <2>3, <2>5, <2>6, OneRequest
  <1>4. CASE /\ doRequest(resp) = "final" \/ ~attemptsLeft(log)
             /\ Answered(r, [kind |-> "unavailable", log |-> log])
    <2>1. Len(log) <= maxRetries + 1
      BY <1>2, Fields
    <2>2. \A i \in 1 .. Len(log) : i < Len(log) => Repeatable(log[i])
      BY <1>2
    <2>3. Len(log) = maxRetries + 1 \/ ~Repeatable(log[Len(log)])
      BY <1>2, <1>4, Fields, RetryableIsRepeatable DEF attemptsLeft
    <2>. QED
      BY <1>1, <1>2, <1>4, <2>1, <2>2, <2>3, UnavailableKeeps
  <1>. QED
    BY <1>3, <1>4 DEF AttemptFails, log

\* Store.Get: the request keeps the row and begins to see tiers and severities.
LEMMA GetKeeps ==
    ASSUME IInv, NEW r \in Requests, NEW c \in Contents, Get(r, c)
    PROVE  IInv'
  <1>. DEFINE f == [severity |-> row, text |-> c.text, evidence |-> c.evidence, complete |-> c.complete]
              q == [req[r] EXCEPT !.pc = "found", !.finding = f]
              d == [tiers |-> {tier}, severities |-> {row}]
  <1>1. /\ req[r].pc = "idle" /\ row \in Severities
        /\ req' = [req EXCEPT ![r] = q] /\ during' = [during EXCEPT ![r] = d]
        /\ UNCHANGED <<config, tier, row>>
    BY DEF Get, IInv, Shape
  <1>2. f \in Findings
    BY <1>1 DEF Findings
  <1>. HIDE DEF f
  <1>3. q \in RequestType
    BY Fields, <1>2 DEF RequestType
  <1>4. q.pc = "found" /\ q.log = req[r].log /\ q.reply = req[r].reply /\ q.gone = req[r].gone
    BY Fields DEF RequestType
  <1>5. d \in [tiers : SUBSET Tiers, severities : SUBSET Severities] /\ d.tiers = {tier}
    BY <1>1 DEF IInv, Shape
  <1>. HIDE DEF q, d
  <1>6. RetryOK(q, maxRetries)
    BY <1>1, <1>4, Fields DEF RetryOK
  <1>7. LicenceOK(q, d, ai, tier)
    BY <1>1, <1>4, <1>5, Fields DEF LicenceOK, RetryOK
  <1>8. Shape'
    BY <1>1, <1>3, <1>5 DEF IInv, Shape, config
  <1>9. ASSUME NEW t \in Requests
        PROVE  RetryOK(req'[t], maxRetries') /\ LicenceOK(req'[t], during'[t], ai', tier')
    <2>1. CASE t = r
      <3>1. req'[t] = q /\ during'[t] = d
        BY <1>1, <2>1 DEF IInv, Shape
      <3>. QED
        BY <1>1, <1>6, <1>7, <3>1 DEF config
    <2>2. CASE t # r
      <3>1. req'[t] = req[t] /\ during'[t] = during[t]
        BY <1>1, <2>2 DEF IInv, Shape
      <3>. QED
        BY <1>1, <3>1 DEF IInv, config
    <2>. QED
      BY <2>1, <2>2
  <1>. QED
    BY <1>8, <1>9 DEF IInv

\* An answer of the required form is shown as the guards leave it, or withheld.
LEMMA AttemptAnswersKeeps ==
    ASSUME IInv, NEW r \in Requests, NEW answer \in Answers, AttemptAnswers(r, answer)
    PROVE  IInv'
  <1>. DEFINE exp == Guarded(answer, req[r].packet.severity)
              shown == [kind |-> "shown", answer |-> answer, shown |-> exp]
  <1>1. UNCHANGED <<config, tier, row, during>>
    BY DEF AttemptAnswers
  <1>2. CASE Answered(r, Reply("withheld"))
    <2>1. Reply("withheld") \in Replies /\ Reply("withheld").kind = "withheld"
      BY DEF Reply, Replies, PlainReplies
    <2>. QED
      BY <1>1, <1>2, <2>1, PlainAnswerKeeps
  <1>3. CASE Answered(r, shown)
    <2>1. shown \in Shown
      BY Fields DEF Shown
    <2>2. shown \in Replies /\ shown.kind = "shown"
      BY <2>1 DEF Replies
    <2>. HIDE DEF shown
    <2>. QED
      BY <1>1, <1>3, <2>2, PlainAnswerKeeps
  <1>. QED
    BY <1>2, <1>3 DEF AttemptAnswers

\* The next attempt begins, or the browser closes the connection: the log stays.
LEMMA RetryLeaveKeeps ==
    ASSUME IInv, NEW r \in Requests, Retry(r) \/ Leave(r)
    PROVE  IInv'
  <1>1. PICK pc \in {"found", "asking", "backoff"}, gone \in BOOLEAN :
          /\ req' = [req EXCEPT ![r] = [req[r] EXCEPT !.pc = pc, !.gone = gone]]
          /\ pc \in {"asking", "backoff"} <=> req[r].pc \in {"asking", "backoff"}
          /\ req[r].pc \in {"found", "asking", "backoff"}
    <2>1. CASE Retry(r)
      <3>1. /\ req[r].pc = "backoff" /\ req[r].gone \in BOOLEAN
            /\ req' = [req EXCEPT ![r] = [req[r] EXCEPT !.pc = "asking", !.gone = req[r].gone]]
        BY <2>1, Fields DEF Retry, RequestType
      <3>. QED
        BY <3>1
    <2>2. CASE Leave(r)
      <3>1. /\ req[r].pc \in {"found", "asking", "backoff"}
            /\ req' = [req EXCEPT ![r] = [req[r] EXCEPT !.pc = req[r].pc, !.gone = TRUE]]
        BY <2>2, Fields DEF Leave, Active, RequestType
      <3>. QED
        BY <3>1
    <2>. QED
      BY <2>1, <2>2
  <1>. DEFINE q == [req[r] EXCEPT !.pc = pc, !.gone = gone]
  <1>2. q \in RequestType
    BY Fields DEF RequestType
  <1>3. q.pc = pc /\ q.log = req[r].log /\ q.reply = req[r].reply
    BY Fields DEF RequestType
  <1>4. req' = [req EXCEPT ![r] = q] /\ UNCHANGED <<config, tier, row, during>>
    BY <1>1 DEF Retry, Leave
  <1>. HIDE DEF q
  <1>5. RetryOK(q, maxRetries)
    BY <1>1, <1>3, Fields DEF RetryOK
  <1>6. LicenceOK(q, during[r], ai, tier)
    BY <1>1, <1>3, Fields DEF LicenceOK, RetryOK
  <1>. QED
    BY <1>2, <1>4, <1>5, <1>6, OneRequest

\* The caller has gone: the attempts so far are reported.
LEMMA GiveUpKeeps ==
    ASSUME IInv, NEW r \in Requests, GiveUp(r)
    PROVE  IInv'
  <1>1. /\ UNCHANGED <<config, tier, row, during>> /\ req[r].gone
        /\ Answered(r, [kind |-> "unavailable", log |-> req[r].log])
    BY DEF GiveUp
  <1>2. /\ Len(req[r].log) <= maxRetries + 1
        /\ \A i \in 1 .. Len(req[r].log) : Repeatable(req[r].log[i])
    BY Fields DEF RetryOK
  <1>. QED
    BY <1>1, <1>2, Fields, UnavailableKeeps

\* A scan or a new licence key: the running requests see it.
LEMMA EnvironmentKeeps ==
    ASSUME IInv,
           (\E sv \in Severities : Rescan(sv)) \/ (\E t \in Tiers : SetLicense(t))
    PROVE  IInv'
  <1>1. UNCHANGED <<config, req>>
    BY DEF Rescan, SetLicense
  <1>2. Shape'
    BY <1>1 DEF Rescan, SetLicense, IInv, Shape, config
  <1>3. ASSUME NEW r \in Requests
        PROVE  /\ during[r].tiers \subseteq during'[r].tiers
               /\ Active(r) /\ tier' # tier => tier' \in during'[r].tiers
    BY DEF Rescan, SetLicense, IInv, Shape
  <1>4. ASSUME NEW r \in Requests
        PROVE  RetryOK(req'[r], maxRetries') /\ LicenceOK(req'[r], during'[r], ai', tier')
    <2>1. LicenceOK(req[r], during'[r], ai, tier')
      BY <1>3, Fields DEF LicenceOK, Active
    <2>. QED
      BY <1>1, <2>1, Fields DEF config
  <1>. QED
    BY <1>2, <1>4 DEF IInv

----------------------------------------------------------------------------
\* The invariant holds when the server starts.
LEMMA InitHolds == Init => IInv
  <1>. SUFFICES ASSUME Init PROVE IInv
    OBVIOUS
  <1>1. NoReply \in Replies /\ NoReply.kind = "none"
    BY DEF NoReply, Replies, PlainReplies
  <1>. DEFINE q == NoLocals("idle", FALSE, NoReply)
  <1>2. q \in RequestType
    BY <1>1, NoLocalsType
  <1>3. q.pc = "idle" /\ q.log = <<>> /\ q.reply = NoReply
    BY DEF NoLocals
  <1>4. req = [r \in Requests |-> q] /\ maxRetries \in Nat
    BY AssistAssumption DEF Init
  <1>. HIDE DEF q
  <1>5. Shape
    BY <1>2, <1>4 DEF Init, Shape, NewAIAssist
  <1>6. ASSUME NEW r \in Requests
        PROVE  RetryOK(req[r], maxRetries) /\ LicenceOK(req[r], during[r], ai, tier)
    BY <1>1, <1>3, <1>4 DEF RetryOK, LicenceOK
  <1>. QED
    BY <1>5, <1>6 DEF IInv

\* Every step keeps the invariant.
LEMMA StepKeeps == IInv /\ [Next]_vars => IInv'
  <1>. SUFFICES ASSUME IInv, [Next]_vars PROVE IInv'
    OBVIOUS
  <1>1. CASE \E r \in Requests : RequestStep(r) \/ Leave(r)
    <2>1. PICK r \in Requests : RequestStep(r) \/ Leave(r)
      BY <1>1
    <2>. QED
      BY <2>1, RefuseKeeps, GetKeeps, AllowKeeps, AttemptFailsKeeps, AttemptAnswersKeeps,
         RetryLeaveKeeps, GiveUpKeeps DEF RequestStep
  <1>2. CASE (\E sv \in Severities : Rescan(sv)) \/ (\E t \in Tiers : SetLicense(t))
    BY <1>2, EnvironmentKeeps
  <1>3. CASE UNCHANGED vars
    BY <1>3 DEF vars, config, IInv, Shape
  <1>. QED
    BY <1>1, <1>2, <1>3 DEF Next

\* The invariant holds of every behaviour.
LEMMA Invariance == Spec => []IInv
BY InitHolds, StepKeeps, PTL DEF Spec

\* The state of every request stays of its type.
THEOREM TypeCorrect == Spec => []TypeOK
  <1>1. ASSUME IInv PROVE TypeOK
    <2>1. ASSUME NEW r \in Requests
          PROVE  req[r].reply.kind \in {"none", "400", "404", "500", "off", "incomplete",
                                        "unavailable", "withheld", "shown"}
      <3>1. req[r].reply \in Replies
        BY <1>1 DEF IInv, Shape, RequestType
      <3>. QED
        BY <3>1 DEF Replies, PlainReplies, Shown
    <2>2. ASSUME NEW r \in Requests
          PROVE  /\ during[r].tiers \subseteq Tiers
                 /\ during[r].severities \subseteq Severities
      BY <1>1 DEF IInv, Shape
    <2>3. ASSUME NEW r \in Requests
          PROVE  /\ req[r].pc \in {"idle", "found", "asking", "backoff", "replied"}
                 /\ req[r].log \in Seq(Responses)
                 /\ req[r].gone \in BOOLEAN
      BY <1>1 DEF IInv, Shape, RequestType
    <2>. QED
      BY <1>1, <2>1, <2>2, <2>3 DEF IInv, Shape, TypeOK
  <1>. QED
    BY Invariance, <1>1, PTL

\* Explain repeats only what may pass, at most maxRetries times, and gives up on a
\* caller that stayed only when nothing was left to try.
THEOREM RetriesAreJustified == Spec => []RetriesOnlyWhatMayPass
  <1>1. ASSUME IInv PROVE RetriesOnlyWhatMayPass
    <2>1. ASSUME NEW r \in Requests, req[r].reply.kind = "unavailable"
          PROVE  /\ Len(req[r].reply.log) <= maxRetries + 1
                 /\ \A i \in 1 .. Len(req[r].reply.log) :
                      i < Len(req[r].reply.log) => Repeatable(req[r].reply.log[i])
                 /\ ~req[r].gone => \/ Len(req[r].reply.log) = maxRetries + 1
                                    \/ ~Repeatable(req[r].reply.log[Len(req[r].reply.log)])
      BY <1>1, <2>1, Fields DEF RetryOK
    <2>2. ASSUME NEW r \in Requests
          PROVE  /\ Len(req[r].log) <= maxRetries + 1
                 /\ \A i \in 1 .. Len(req[r].log) : Repeatable(req[r].log[i])
      BY <1>1, Fields DEF RetryOK
    <2>. QED
      BY <2>1, <2>2 DEF RetriesOnlyWhatMayPass, Tried
  <1>. QED
    BY Invariance, <1>1, PTL

\* An endpoint with an API key is asked, and refused, by the licence that was in
\* force at some moment of the request.
THEOREM LicenceIsFollowed == Spec => []KeyedFollowsLicence
  <1>1. ASSUME IInv PROVE KeyedFollowsLicence
    BY <1>1 DEF IInv, LicenceOK, KeyedFollowsLicence
  <1>. QED
    BY Invariance, <1>1, PTL

----------------------------------------------------------------------------
\* Loops of the guards, by induction over the positions that they have passed.

\* What a loop of the guards keeps: only items at the positions keep, and nothing
\* only if there is no such position.
LEMMA KeptItemsFacts ==
    ASSUME NEW S, NEW s \in Seq(S), NEW keep
    PROVE  /\ KeptItems(s, keep) \in Seq(S)
           /\ \A j \in 1 .. Len(KeptItems(s, keep)) :
                \E i \in 1 .. Len(s) : i \in keep /\ KeptItems(s, keep)[j] = s[i]
           /\ KeptItems(s, keep) = <<>> => \A i \in 1 .. Len(s) : i \notin keep
  <1>. DEFINE V == Seq(S)
              g == [i \in 1 .. Len(s) |-> [x \in V |-> IF i \in keep THEN Append(x, s[i]) ELSE x]]
  <1>1. g \in [1 .. Len(s) -> [V -> V]] /\ <<>> \in V /\ Len(s) \in Nat
    OBVIOUS
  <1>2. PICK f \in [0 .. Len(s) -> V] : f[0] = <<>> /\ \A i \in 1 .. Len(s) : f[i] = g[i][f[i - 1]]
    <2>. HIDE DEF V, g
    <2>1. LoopStates(V, <<>>, Len(s), g) # {}
      BY <1>1, FiniteRecursion
    <2>. QED
      BY <2>1, Zenon DEF LoopStates
  <1>3. ASSUME NEW i \in 1 .. Len(s)
        PROVE  f[i] = IF i \in keep THEN Append(f[i - 1], s[i]) ELSE f[i - 1]
    <2>1. i - 1 \in 0 .. Len(s)
      OBVIOUS
    <2>2. f[i - 1] \in V
      BY <1>2, <2>1
    <2>. QED
      BY <1>2, <2>2
  <1>4. f = [i \in 0 .. Len(s) |->
               IF i = 0 THEN <<>> ELSE IF i \in keep THEN Append(f[i - 1], s[i]) ELSE f[i - 1]]
    <2>. DEFINE R(i) == IF i = 0 THEN <<>> ELSE IF i \in keep THEN Append(f[i - 1], s[i]) ELSE f[i - 1]
    <2>1. ASSUME NEW i \in 0 .. Len(s) PROVE f[i] = R(i)
      <3>1. CASE i = 0
        BY <1>2, <3>1
      <3>2. CASE i # 0
        <4>1. i \in 1 .. Len(s)
          BY <3>2
        <4>. QED
          BY <1>3, <3>2, <4>1, Zenon
      <3>. QED
        BY <3>1, <3>2
    <2>. HIDE DEF R
    <2>2. f = [i \in 0 .. Len(s) |-> R(i)]
      BY <1>2, <2>1
    <2>. QED
      BY <2>2 DEF R
  <1>5. PICK h : /\ h = [i \in 0 .. Len(s) |->
                       IF i = 0 THEN <<>> ELSE IF i \in keep THEN Append(h[i - 1], s[i]) ELSE h[i - 1]]
                 /\ KeptItems(s, keep) = h[Len(s)]
    BY <1>4, Zenon DEF KeptItems
  <1>6. /\ h[0] = <<>>
        /\ \A i \in 1 .. Len(s) : h[i] = IF i \in keep THEN Append(h[i - 1], s[i]) ELSE h[i - 1]
    <2>1. 0 \in 0 .. Len(s) /\ \A i \in 1 .. Len(s) : i \in 0 .. Len(s) /\ i # 0
      OBVIOUS
    <2>. QED
      BY <1>5, <2>1, Zenon
  <1>. DEFINE Fits(n) ==
         /\ h[n] \in Seq(S)
         /\ \A j \in 1 .. Len(h[n]) : \E i \in 1 .. n : i \in keep /\ h[n][j] = s[i]
         /\ h[n] = <<>> => \A i \in 1 .. n : i \notin keep
  <1>. DEFINE T == {n \in Nat : n <= Len(s) => Fits(n)}
  <1>7. 0 \in T
    <2>1. 1 .. 0 = {} /\ Len(<<>>) = 0 /\ <<>> \in Seq(S)
      OBVIOUS
    <2>2. Fits(0)
      BY <1>6, <2>1, Zenon
    <2>. HIDE DEF Fits
    <2>. QED
      BY <2>2
  <1>8. ASSUME NEW n \in Nat, n \in T PROVE n + 1 \in T
    <2>. SUFFICES ASSUME n + 1 <= Len(s) PROVE Fits(n + 1)
      OBVIOUS
    <2>1. Fits(n) /\ n + 1 \in 1 .. Len(s) /\ (n + 1) - 1 = n /\ s[n + 1] \in S
      BY <1>1, <1>8
    <2>2. PICK x \in Seq(S) : x = h[n]
      BY <2>1
    <2>3. CASE n + 1 \in keep
      <3>0. PICK y \in S : y = s[n + 1]
        BY <2>1
      <3>1. h[n + 1] = Append(x, s[n + 1])
        BY <1>6, <2>1, <2>2, <2>3
      <3>2. Append(x, y) \in Seq(S) /\ Append(x, y) # <<>>
        <4>1. Append(x, y) \in Seq(S) /\ Len(Append(x, y)) = Len(x) + 1
          OBVIOUS
        <4>2. Len(Append(x, y)) # Len(<<>>)
          BY <4>1
        <4>. QED
          BY <4>1, <4>2, Zenon
      <3>3. ASSUME NEW j \in 1 .. Len(Append(x, y))
            PROVE  \E i \in 1 .. n + 1 : i \in keep /\ Append(x, y)[j] = s[i]
        <4>1. CASE j = Len(x) + 1
          <5>1. Append(x, y)[j] = y /\ n + 1 \in 1 .. n + 1
            BY <4>1
          <5>. QED
            BY <2>3, <3>0, <5>1
        <4>2. CASE j # Len(x) + 1
          <5>1. j \in 1 .. Len(x) /\ Append(x, y)[j] = x[j]
            BY <4>2
          <5>2. PICK i \in 1 .. n : i \in keep /\ x[j] = s[i]
            BY <2>1, <2>2, <5>1
          <5>3. i \in 1 .. n + 1
            OBVIOUS
          <5>. QED
            BY <5>1, <5>2, <5>3
        <4>. QED
          BY <4>1, <4>2
      <3>. QED
        BY <3>0, <3>1, <3>2, <3>3
    <2>4. CASE n + 1 \notin keep
      <3>1. h[n + 1] = x
        BY <1>6, <2>1, <2>2, <2>4
      <3>2. \A i \in 1 .. n + 1 : i \in 1 .. n \/ i = n + 1
        OBVIOUS
      <3>3. \A i \in 1 .. n : i \in 1 .. n + 1
        OBVIOUS
      <3>. QED
        BY <2>1, <2>2, <2>4, <3>1, <3>2, <3>3
    <2>. QED
      BY <2>3, <2>4
  <1>9. Fits(Len(s))
    <2>. HIDE DEF Fits
    <2>1. \A n \in Nat : n \in T => n + 1 \in T
      BY <1>8
    <2>2. Nat \subseteq T
      <3>. HIDE DEF T
      <3>. QED
        BY <1>7, <2>1, SetInduction
    <2>. QED
      BY <1>1, <2>2
  <1>. QED
    BY <1>5, <1>9

\* The runes of a text are a number, none for the empty text.
LEMMA RunesFacts ==
    ASSUME NEW S, NEW text \in Seq(S), \A x \in S : x.len \in Nat
    PROVE  Runes(text) \in Nat /\ (text = <<>> => Runes(text) = 0)
  <1>. DEFINE g == [i \in 1 .. Len(text) |-> [x \in Nat |-> x + text[i].len]]
  <1>0. \A i \in 1 .. Len(text) : text[i].len \in Nat
    OBVIOUS
  <1>1. g \in [1 .. Len(text) -> [Nat -> Nat]] /\ 0 \in Nat /\ Len(text) \in Nat
    BY <1>0
  <1>2. PICK f \in [0 .. Len(text) -> Nat] :
          f[0] = 0 /\ \A i \in 1 .. Len(text) : f[i] = g[i][f[i - 1]]
    <2>. HIDE DEF g
    <2>1. LoopStates(Nat, 0, Len(text), g) # {}
      BY <1>1, FiniteRecursion
    <2>. QED
      BY <2>1, Zenon DEF LoopStates
  <1>3. ASSUME NEW i \in 1 .. Len(text) PROVE f[i] = f[i - 1] + text[i].len
    <2>1. i - 1 \in 0 .. Len(text)
      OBVIOUS
    <2>2. f[i - 1] \in Nat
      BY <1>2, <2>1
    <2>. QED
      BY <1>2, <2>2
  <1>4. f = [i \in 0 .. Len(text) |-> IF i = 0 THEN 0 ELSE f[i - 1] + text[i].len]
    <2>. DEFINE R(i) == IF i = 0 THEN 0 ELSE f[i - 1] + text[i].len
    <2>1. ASSUME NEW i \in 0 .. Len(text) PROVE f[i] = R(i)
      <3>1. CASE i = 0
        BY <1>2, <3>1
      <3>2. CASE i # 0
        <4>1. i \in 1 .. Len(text)
          BY <3>2
        <4>. QED
          BY <1>3, <3>2, <4>1, Zenon
      <3>. QED
        BY <3>1, <3>2
    <2>. HIDE DEF R
    <2>2. f = [i \in 0 .. Len(text) |-> R(i)]
      BY <1>2, <2>1
    <2>. QED
      BY <2>2 DEF R
  <1>5. PICK h : /\ h = [i \in 0 .. Len(text) |-> IF i = 0 THEN 0 ELSE h[i - 1] + text[i].len]
                 /\ Runes(text) = h[Len(text)]
    BY <1>4, Zenon DEF Runes
  <1>6. h[0] = 0 /\ \A i \in 1 .. Len(text) : h[i] = h[i - 1] + text[i].len
    <2>1. 0 \in 0 .. Len(text) /\ \A i \in 1 .. Len(text) : i \in 0 .. Len(text) /\ i # 0
      OBVIOUS
    <2>. QED
      BY <1>5, <2>1, Zenon
  <1>. DEFINE T == {n \in Nat : n <= Len(text) => h[n] \in Nat}
  <1>7. 0 \in T
    BY <1>6
  <1>8. ASSUME NEW n \in Nat, n \in T PROVE n + 1 \in T
    <2>. SUFFICES ASSUME n + 1 <= Len(text) PROVE h[n + 1] \in Nat
      OBVIOUS
    <2>1. n + 1 \in 1 .. Len(text) /\ (n + 1) - 1 = n /\ h[n] \in Nat
      BY <1>1, <1>8
    <2>. QED
      BY <1>0, <1>6, <2>1
  <1>9. h[Len(text)] \in Nat
    <2>1. \A n \in Nat : n \in T => n + 1 \in T
      BY <1>8
    <2>2. Nat \subseteq T
      <3>. HIDE DEF T
      <3>. QED
        BY <1>7, <2>1, SetInduction
    <2>. QED
      BY <1>1, <2>2
  <1>10. text = <<>> => Len(text) = 0
    OBVIOUS
  <1>. QED
    BY <1>5, <1>6, <1>9, <1>10

----------------------------------------------------------------------------
\* dropStatusClaims: what is left of a text claims no status.
LEMMA StatusClaimsDropped ==
    ASSUME NEW text \in Seq(Sentences)
    PROVE  /\ dropStatusClaims(text) \in Seq(Sentences)
           /\ \A j \in 1 .. Len(dropStatusClaims(text)) :
                /\ ~dropStatusClaims(text)[j].claim
                /\ \E i \in 1 .. Len(text) : dropStatusClaims(text)[j] = text[i]
  <1>. DEFINE keep == {i \in DOMAIN text : ~text[i].claim}
              out == KeptItems(text, keep)
  <1>1. /\ out \in Seq(Sentences)
        /\ \A j \in 1 .. Len(out) : \E i \in 1 .. Len(text) : i \in keep /\ out[j] = text[i]
    <2>. HIDE DEF keep
    <2>. QED
      BY KeptItemsFacts
  <1>2. dropStatusClaims(text) = out
    BY DEF dropStatusClaims
  <1>. HIDE DEF out
  <1>. QED
    BY <1>1, <1>2

\* dropConflictingSeverity: no sentence that is left conflicts with the engine's
\* severity, or every sentence did and the text is as it was.
LEMMA ConflictsDropped ==
    ASSUME NEW text \in Seq(Sentences), NEW engine
    PROVE  /\ dropConflictingSeverity(text, engine) \in Seq(Sentences)
           /\ \/ \A j \in 1 .. Len(dropConflictingSeverity(text, engine)) :
                   ~Conflicts(dropConflictingSeverity(text, engine)[j], engine)
              \/ \A i \in 1 .. Len(text) : Conflicts(text[i], engine)
  <1>. DEFINE keep == {i \in DOMAIN text : ~Conflicts(text[i], engine)}
              out == KeptItems(text, keep)
  <1>1. /\ out \in Seq(Sentences)
        /\ \A j \in 1 .. Len(out) : \E i \in 1 .. Len(text) : i \in keep /\ out[j] = text[i]
        /\ out = <<>> => \A i \in 1 .. Len(text) : i \notin keep
    <2>. HIDE DEF keep
    <2>. QED
      BY KeptItemsFacts
  <1>2. dropConflictingSeverity(text, engine) = IF out = <<>> THEN text ELSE out
    BY Zenon DEF dropConflictingSeverity
  <1>. HIDE DEF out
  <1>3. CASE out = <<>>
    <2>1. \A i \in 1 .. Len(text) : Conflicts(text[i], engine)
      BY <1>1, <1>3
    <2>. QED
      BY <1>2, <1>3, <2>1
  <1>4. CASE out # <<>>
    <2>1. \A j \in 1 .. Len(out) : ~Conflicts(out[j], engine)
      BY <1>1
    <2>. QED
      BY <1>1, <1>2, <1>4, <2>1
  <1>. QED
    BY <1>3, <1>4

\* applyOutputGuards: what is left of an answer.
LEMMA GuardsHold ==
    ASSUME NEW answer \in Answers, NEW engine
    PROVE  LET g == Guarded(answer, engine) IN
           /\ g.text \in Seq(Sentences)
           /\ g.verify \in Seq(Seq(Sentences))
           /\ \A j \in 1 .. Len(g.text) : ~g.text[j].claim
           /\ \A j \in 1 .. Len(g.verify) :
                g.verify[j] # <<>> /\ \A k \in 1 .. Len(g.verify[j]) : ~g.verify[j][k].claim
           /\ \/ \A j \in 1 .. Len(g.text) : ~Conflicts(g.text[j], engine)
              \/ \A i \in 1 .. Len(answer.text) : Conflicts(answer.text[i], engine)
  <1>1. answer.text \in Seq(Sentences) /\ answer.verify \in Seq(Seq(Sentences))
    BY AssistAssumption
  <1>. DEFINE cut == dropConflictingSeverity(answer.text, engine)
              checks == [i \in DOMAIN answer.verify |-> dropStatusClaims(answer.verify[i])]
              keep == {i \in DOMAIN checks : checks[i] # <<>>}
              left == KeptItems(checks, keep)
              g == Guarded(answer, engine)
  <1>2. g.text = dropStatusClaims(cut) /\ g.verify = left
    BY Zenon DEF Guarded
  <1>3. /\ cut \in Seq(Sentences)
        /\ \/ \A j \in 1 .. Len(cut) : ~Conflicts(cut[j], engine)
           \/ \A i \in 1 .. Len(answer.text) : Conflicts(answer.text[i], engine)
    BY <1>1, ConflictsDropped
  <1>4. /\ DOMAIN checks = 1 .. Len(answer.verify)
        /\ \A i \in 1 .. Len(answer.verify) :
             /\ checks[i] = dropStatusClaims(answer.verify[i])
             /\ answer.verify[i] \in Seq(Sentences)
    BY <1>1
  <1>5. \A i \in 1 .. Len(answer.verify) :
             /\ checks[i] \in Seq(Sentences)
             /\ \A k \in 1 .. Len(checks[i]) : ~checks[i][k].claim
    <2>. HIDE DEF checks
    <2>. QED
      BY <1>4, StatusClaimsDropped
  <1>6. checks \in Seq(Seq(Sentences)) /\ Len(checks) = Len(answer.verify)
    <2>1. Len(answer.verify) \in Nat
      BY <1>1
    <2>2. checks = [i \in 1 .. Len(answer.verify) |-> checks[i]]
      BY <1>4, Zenon
    <2>. HIDE DEF checks
    <2>. QED
      BY <1>4, <1>5, <2>1, <2>2
  <1>7. /\ left \in Seq(Seq(Sentences))
        /\ \A j \in 1 .. Len(left) : \E i \in 1 .. Len(checks) : i \in keep /\ left[j] = checks[i]
    <2>. HIDE DEF checks, keep
    <2>. QED
      BY <1>6, KeptItemsFacts
  <1>8. \A j \in 1 .. Len(left) : left[j] # <<>> /\ \A k \in 1 .. Len(left[j]) : ~left[j][k].claim
    <2>1. \A i \in 1 .. Len(checks) : i \in keep =>
            checks[i] # <<>> /\ \A k \in 1 .. Len(checks[i]) : ~checks[i][k].claim
      <3>. HIDE DEF checks
      <3>. QED
        BY <1>5, <1>6
    <2>. HIDE DEF checks, keep, left
    <2>. QED
      BY <1>7, <2>1, Zenon
  <1>. HIDE DEF cut, left, g
  <1>9. /\ g.text \in Seq(Sentences)
        /\ \A j \in 1 .. Len(g.text) :
             ~g.text[j].claim /\ \E i \in 1 .. Len(cut) : g.text[j] = cut[i]
    BY <1>2, <1>3, StatusClaimsDropped
  <1>10. \/ \A j \in 1 .. Len(g.text) : ~Conflicts(g.text[j], engine)
         \/ \A i \in 1 .. Len(answer.text) : Conflicts(answer.text[i], engine)
    BY <1>3, <1>9, Zenon
  <1>11. /\ g.verify \in Seq(Seq(Sentences))
         /\ \A j \in 1 .. Len(g.verify) :
              g.verify[j] # <<>> /\ \A k \in 1 .. Len(g.verify[j]) : ~g.verify[j][k].claim
    BY <1>2, <1>7, <1>8, Zenon
  <1>. QED
    BY <1>9, <1>10, <1>11, Zenon DEF g

----------------------------------------------------------------------------
\* A reply that shows an explanation shows a grounded one.
GroundedReply(reply, seen) ==
    reply.kind = "shown" =>
        /\ \A t \in {reply.shown.text} \cup {reply.shown.verify[i] : i \in DOMAIN reply.shown.verify} :
             t # <<>> /\ \A i \in DOMAIN t : ~t[i].claim
        /\ Runes(reply.shown.text) >= minGroundedExplanation
        /\ (\E i \in DOMAIN reply.shown.text : WrongOf(reply.shown.text[i], seen)) =>
             \E e \in seen : \A i \in DOMAIN reply.answer.text : WrongOf(reply.answer.text[i], {e})

\* The severity that the guards compare with is one the request has seen.
GroundOK(q, d) ==
    /\ q.pc = "found" => q.finding.severity \in d.severities
    /\ q.pc \in {"asking", "backoff"} => q.packet.severity \in d.severities
    /\ GroundedReply(q.reply, d.severities)

GInv == \A r \in Requests : GroundOK(req[r], during[r])

\* A sentence that is wrong for all the severities seen conflicts with each of them.
LEMMA WrongConflicts ==
    ASSUME NEW s, NEW seen, NEW engine \in seen, WrongOf(s, seen)
    PROVE  Conflicts(s, engine)
  <1>1. /\ s.states # "none" /\ s.states # engine
        /\ {s.states, engine} # {"medium", "moderate"}
        /\ {s.states, engine} # {"info", "informational"}
    BY DEF WrongOf
  <1>2. CASE engine \in {"info", "informational"}
    BY <1>1, <1>2 DEF Conflicts, sameSeverity
  <1>3. CASE engine \in {"medium", "moderate"}
    BY <1>1, <1>3 DEF Conflicts, sameSeverity
  <1>4. CASE engine \notin {"info", "informational"} /\ engine \notin {"medium", "moderate"}
    BY <1>1, <1>4 DEF Conflicts, sameSeverity
  <1>. QED
    BY <1>2, <1>3, <1>4

\* A sentence that conflicts with a severity is wrong for it.
LEMMA ConflictIsWrong ==
    ASSUME NEW s, NEW engine, Conflicts(s, engine)
    PROVE  WrongOf(s, {engine})
  <1>1. s.states # "none" /\ s.states \notin sameSeverity(engine)
    BY DEF Conflicts
  <1>2. CASE engine \in {"info", "informational"}
    BY <1>1, <1>2 DEF WrongOf, sameSeverity
  <1>3. CASE engine \in {"medium", "moderate"}
    BY <1>1, <1>3 DEF WrongOf, sameSeverity
  <1>4. CASE engine \notin {"info", "informational"} /\ engine \notin {"medium", "moderate"}
    BY <1>1, <1>4 DEF WrongOf, sameSeverity
  <1>. QED
    BY <1>2, <1>3, <1>4

\* What the guards leave and do not reject is grounded.
LEMMA GuardedIsGrounded ==
    ASSUME NEW answer \in Answers, NEW seen, NEW engine \in seen,
           ~Rejected(Guarded(answer, engine))
    PROVE  GroundedReply([kind |-> "shown", answer |-> answer, shown |-> Guarded(answer, engine)], seen)
  <1>. DEFINE g == Guarded(answer, engine)
              reply == [kind |-> "shown", answer |-> answer, shown |-> g]
  <1>1. /\ g.text \in Seq(Sentences)
        /\ g.verify \in Seq(Seq(Sentences))
        /\ \A j \in 1 .. Len(g.text) : ~g.text[j].claim
        /\ \A j \in 1 .. Len(g.verify) :
             g.verify[j] # <<>> /\ \A k \in 1 .. Len(g.verify[j]) : ~g.verify[j][k].claim
        /\ \/ \A j \in 1 .. Len(g.text) : ~Conflicts(g.text[j], engine)
           \/ \A i \in 1 .. Len(answer.text) : Conflicts(answer.text[i], engine)
    BY GuardsHold, Zenon
  <1>2. ~(Runes(g.text) < minGroundedExplanation)
    BY DEF Rejected
  <1>3. reply.shown = g /\ reply.answer = answer
    OBVIOUS
  <1>. HIDE DEF g
  <1>4. Runes(g.text) \in Nat /\ (g.text = <<>> => Runes(g.text) = 0)
    <2>1. \A x \in Sentences : x.len \in Nat
      BY DEF Sentences
    <2>. QED
      BY <1>1, <2>1, RunesFacts
  <1>5. Runes(g.text) >= minGroundedExplanation /\ g.text # <<>>
    BY <1>2, <1>4, AssistAssumption
  <1>6. /\ DOMAIN g.text = 1 .. Len(g.text)
        /\ DOMAIN g.verify = 1 .. Len(g.verify)
        /\ DOMAIN answer.text = 1 .. Len(answer.text)
        /\ \A j \in 1 .. Len(g.verify) : DOMAIN g.verify[j] = 1 .. Len(g.verify[j])
    <2>1. answer.text \in Seq(Sentences)
      BY AssistAssumption
    <2>2. \A j \in 1 .. Len(g.verify) : g.verify[j] \in Seq(Sentences)
      BY <1>1
    <2>. QED
      BY <1>1, <2>1, <2>2
  <1>7. \A t \in {g.text} \cup {g.verify[i] : i \in DOMAIN g.verify} :
          t # <<>> /\ \A i \in DOMAIN t : ~t[i].claim
    BY <1>1, <1>5, <1>6, Zenon
  <1>8. ASSUME NEW i \in DOMAIN g.text, WrongOf(g.text[i], seen)
        PROVE  \E e \in seen : \A k \in DOMAIN answer.text : WrongOf(answer.text[k], {e})
    <2>1. Conflicts(g.text[i], engine)
      BY <1>8, WrongConflicts
    <2>2. \A k \in DOMAIN answer.text : Conflicts(answer.text[k], engine)
      BY <1>1, <1>6, <2>1, <1>8, Zenon
    <2>3. \A k \in DOMAIN answer.text : WrongOf(answer.text[k], {engine})
      BY <2>2, ConflictIsWrong
    <2>. QED
      BY <2>3
  <1>. HIDE DEF reply
  <1>9. GroundedReply(reply, seen)
    BY <1>3, <1>5, <1>7, <1>8, Zenon DEF GroundedReply
  <1>. QED
    BY <1>9 DEF reply, g

\* A new state of one request, which changes nothing that the others hold.
LEMMA OneGrounded ==
    ASSUME IInv, GInv, NEW r \in Requests, NEW q,
           req' = [req EXCEPT ![r] = q], UNCHANGED during, GroundOK(q, during[r])
    PROVE  GInv'
  <1>1. ASSUME NEW t \in Requests PROVE GroundOK(req'[t], during'[t])
    <2>1. CASE t = r
      <3>1. req'[t] = q
        BY <2>1 DEF IInv, Shape
      <3>. QED
        BY <2>1, <3>1
    <2>2. CASE t # r
      <3>1. req'[t] = req[t]
        BY <2>2 DEF IInv, Shape
      <3>. QED
        BY <3>1 DEF GInv
    <2>. QED
      BY <2>1, <2>2
  <1>. QED
    BY <1>1 DEF GInv

\* A handler returns with a reply that is grounded.
LEMMA AnsweredGrounded ==
    ASSUME IInv, GInv, NEW r \in Requests, NEW reply,
           Answered(r, reply), UNCHANGED during, GroundedReply(reply, during[r].severities)
    PROVE  GInv'
  <1>. DEFINE q == NoLocals("replied", req[r].gone, reply)
  <1>1. req' = [req EXCEPT ![r] = q]
    BY DEF Answered
  <1>2. q.pc = "replied" /\ q.reply = reply
    BY DEF NoLocals
  <1>. HIDE DEF q
  <1>3. GroundOK(q, during[r])
    BY <1>2 DEF GroundOK
  <1>. QED
    BY <1>1, <1>3, OneGrounded

\* A reply of another kind than "shown" shows nothing.
LEMMA NothingShown ==
    ASSUME NEW reply, NEW seen, reply.kind # "shown"
    PROVE  GroundedReply(reply, seen)
BY DEF GroundedReply

\* Each action keeps it: a request that is refused, finds no row or is given up.
LEMMA PlainGrounded ==
    ASSUME IInv, GInv, NEW r \in Requests, Refuse(r) \/ NotFound(r) \/ GiveUp(r)
    PROVE  GInv'
  <1>1. UNCHANGED during
    BY DEF Refuse, NotFound, GiveUp
  <1>2. PICK reply : Answered(r, reply) /\ reply.kind # "shown"
    <2>1. \A k : Reply(k).kind = k
      BY DEF Reply
    <2>2. CASE Refuse(r) \/ NotFound(r)
      BY <2>1, <2>2 DEF Refuse, NotFound
    <2>3. CASE GiveUp(r)
      BY <2>3 DEF GiveUp
    <2>. QED
      BY <2>2, <2>3
  <1>. QED
    BY <1>1, <1>2, NothingShown, AnsweredGrounded

\* A step of a running request that keeps its reply and its packet.
LEMMA RunningGrounded ==
    ASSUME IInv, GInv, NEW r \in Requests, NEW q,
           req' = [req EXCEPT ![r] = q], UNCHANGED during,
           q.reply = req[r].reply, q.finding = req[r].finding, q.packet = req[r].packet,
           \/ q.pc = req[r].pc
           \/ q.pc \in {"asking", "backoff"} /\ req[r].pc \in {"asking", "backoff"}
    PROVE  GInv'
  <1>1. GroundOK(q, during[r])
    BY DEF GInv, GroundOK
  <1>. QED
    BY <1>1, OneGrounded

\* A failed attempt is repeated with the same packet, or reported.
LEMMA AttemptFailsGrounded ==
    ASSUME IInv, GInv, NEW r \in Requests, NEW resp \in Responses, AttemptFails(r, resp)
    PROVE  GInv'
  <1>. DEFINE log == Append(req[r].log, resp)
  <1>1. UNCHANGED during /\ req[r].pc = "asking"
    BY DEF AttemptFails
  <1>2. CASE req' = [req EXCEPT ![r].pc = "backoff", ![r].log = log]
    <2>. HIDE DEF log
    <2>. DEFINE q == [req[r] EXCEPT !.pc = "backoff", !.log = log]
    <2>1. /\ q.pc = "backoff" /\ q.reply = req[r].reply
          /\ q.finding = req[r].finding /\ q.packet = req[r].packet
      BY Fields DEF RequestType
    <2>2. req' = [req EXCEPT ![r] = q]
      BY <1>2
    <2>. HIDE DEF q
    <2>. QED
      BY <1>1, <2>1, <2>2, RunningGrounded
  <1>3. CASE Answered(r, [kind |-> "unavailable", log |-> log])
    <2>. HIDE DEF log
    <2>1. [kind |-> "unavailable", log |-> log].kind # "shown"
      OBVIOUS
    <2>. QED
      BY <1>1, <1>3, <2>1, NothingShown, AnsweredGrounded
  <1>. QED
    BY <1>2, <1>3, Zenon DEF AttemptFails

\* The next attempt begins, or the browser closes the connection.
LEMMA RetryLeaveGrounded ==
    ASSUME IInv, GInv, NEW r \in Requests, Retry(r) \/ Leave(r)
    PROVE  GInv'
  <1>1. CASE Retry(r)
    <2>. DEFINE q == [req[r] EXCEPT !.pc = "asking"]
    <2>1. /\ q.pc = "asking" /\ q.reply = req[r].reply
          /\ q.finding = req[r].finding /\ q.packet = req[r].packet
      BY Fields DEF RequestType
    <2>2. req' = [req EXCEPT ![r] = q] /\ UNCHANGED during /\ req[r].pc = "backoff"
      BY <1>1 DEF Retry
    <2>. HIDE DEF q
    <2>. QED
      BY <2>1, <2>2, RunningGrounded
  <1>2. CASE Leave(r)
    <2>. DEFINE q == [req[r] EXCEPT !.gone = TRUE]
    <2>1. /\ q.pc = req[r].pc /\ q.reply = req[r].reply
          /\ q.finding = req[r].finding /\ q.packet = req[r].packet
      BY Fields DEF RequestType
    <2>2. req' = [req EXCEPT ![r] = q] /\ UNCHANGED during
      BY <1>2 DEF Leave
    <2>. HIDE DEF q
    <2>. QED
      BY <2>1, <2>2, RunningGrounded
  <1>. QED
    BY <1>1, <1>2

\* Store.Get: the severity that is read is the first one seen.
LEMMA GetGrounded ==
    ASSUME IInv, GInv, NEW r \in Requests, NEW c \in Contents, Get(r, c)
    PROVE  GInv'
  <1>. DEFINE f == [severity |-> row, text |-> c.text, evidence |-> c.evidence, complete |-> c.complete]
              q == [req[r] EXCEPT !.pc = "found", !.finding = f]
              d == [tiers |-> {tier}, severities |-> {row}]
  <1>1. /\ req[r].pc = "idle"
        /\ req' = [req EXCEPT ![r] = q] /\ during' = [during EXCEPT ![r] = d]
    BY DEF Get
  <1>2. f.severity = row /\ d.severities = {row}
    OBVIOUS
  <1>. HIDE DEF f, d
  <1>3. q.pc = "found" /\ q.finding = f /\ q.reply = req[r].reply
    BY Fields DEF RequestType
  <1>4. q.reply.kind # "shown"
    BY <1>1, <1>3, Fields DEF RetryOK
  <1>. HIDE DEF q
  <1>5. GroundOK(q, d)
    BY <1>2, <1>3, <1>4 DEF GroundOK, GroundedReply
  <1>6. ASSUME NEW t \in Requests PROVE GroundOK(req'[t], during'[t])
    <2>1. CASE t = r
      <3>1. req'[t] = q /\ during'[t] = d
        BY <1>1, <2>1 DEF IInv, Shape
      <3>. QED
        BY <1>5, <3>1
    <2>2. CASE t # r
      <3>1. req'[t] = req[t] /\ during'[t] = during[t]
        BY <1>1, <2>2 DEF IInv, Shape
      <3>. QED
        BY <3>1 DEF GInv
    <2>. QED
      BY <2>1, <2>2
  <1>. QED
    BY <1>6 DEF GInv

\* aiAllowed and NewFindingPacket: the packet carries the finding's severity.
LEMMA AllowGrounded ==
    ASSUME IInv, GInv, NEW r \in Requests, Allow(r)
    PROVE  GInv'
  <1>1. UNCHANGED during /\ req[r].pc = "found"
    BY DEF Allow
  <1>2. CASE Answered(r, Reply("off")) \/ Answered(r, Reply("incomplete"))
    <2>1. \A k : Reply(k).kind = k
      BY DEF Reply
    <2>2. PICK reply : Answered(r, reply) /\ reply.kind # "shown"
      BY <1>2, <2>1
    <2>. QED
      BY <1>1, <2>2, NothingShown, AnsweredGrounded
  <1>3. CASE req' = [req EXCEPT ![r].pc = "asking", ![r].finding = NoPacket,
                                ![r].packet = NewFindingPacket(req[r].finding)]
    <2>. DEFINE p == NewFindingPacket(req[r].finding)
                q == [req[r] EXCEPT !.pc = "asking", !.finding = NoPacket, !.packet = p]
    <2>1. p.severity = req[r].finding.severity
      BY Zenon DEF NewFindingPacket
    <2>2. req' = [req EXCEPT ![r] = q]
      BY <1>3
    <2>. HIDE DEF p
    <2>3. q.pc = "asking" /\ q.packet = p /\ q.reply = req[r].reply
      BY Fields DEF RequestType
    <2>. HIDE DEF q
    <2>4. GroundOK(q, during[r])
      BY <1>1, <2>1, <2>3 DEF GInv, GroundOK
    <2>. QED
      BY <1>1, <2>2, <2>4, OneGrounded
  <1>. QED
    BY <1>2, <1>3 DEF Allow

\* An answer is shown as the guards leave it, or withheld.
LEMMA AttemptAnswersGrounded ==
    ASSUME IInv, GInv, NEW r \in Requests, NEW answer \in Answers, AttemptAnswers(r, answer)
    PROVE  GInv'
  <1>. DEFINE engine == req[r].packet.severity
              exp == Guarded(answer, engine)
              shown == [kind |-> "shown", answer |-> answer, shown |-> exp]
  <1>1. UNCHANGED during /\ engine \in during[r].severities
    BY DEF AttemptAnswers, GInv, GroundOK
  <1>2. CASE Answered(r, Reply("withheld"))
    <2>1. Reply("withheld").kind # "shown"
      BY DEF Reply
    <2>. QED
      BY <1>1, <1>2, <2>1, NothingShown, AnsweredGrounded
  <1>3. CASE ~Rejected(exp) /\ Answered(r, shown)
    <2>. HIDE DEF engine
    <2>1. GroundedReply(shown, during[r].severities)
      BY <1>1, <1>3, GuardedIsGrounded
    <2>. HIDE DEF shown
    <2>. QED
      BY <1>1, <1>3, <2>1, AnsweredGrounded
  <1>. QED
    BY <1>2, <1>3, Zenon DEF AttemptAnswers

\* A scan or a licence key: what a running request has seen only grows, and a
\* request that has replied sees nothing more.
LEMMA EnvironmentGrounded ==
    ASSUME IInv, GInv,
           (\E sv \in Severities : Rescan(sv)) \/ (\E t \in Tiers : SetLicense(t))
    PROVE  GInv'
  <1>1. req' = req
    BY DEF Rescan, SetLicense
  <1>2. ASSUME NEW r \in Requests
        PROVE  /\ during[r].severities \subseteq during'[r].severities
               /\ ~Active(r) => during'[r] = during[r]
    BY DEF Rescan, SetLicense, IInv, Shape
  <1>3. ASSUME NEW r \in Requests PROVE GroundOK(req'[r], during'[r])
    <2>1. GroundOK(req[r], during[r])
      BY DEF GInv
    <2>2. CASE Active(r)
      <3>1. req[r].reply.kind # "shown"
        BY <2>2, Fields DEF Active, RetryOK
      <3>. QED
        BY <1>1, <1>2, <2>1, <3>1, NothingShown DEF GroundOK
    <2>3. CASE ~Active(r)
      BY <1>1, <1>2, <2>1, <2>3
    <2>. QED
      BY <2>2, <2>3
  <1>. QED
    BY <1>3 DEF GInv

\* No explanation is shown when the server starts.
LEMMA InitGrounded == Init => GInv
  <1>. SUFFICES ASSUME Init PROVE GInv
    OBVIOUS
  <1>1. ASSUME NEW r \in Requests PROVE req[r].pc = "idle" /\ req[r].reply.kind = "none"
    BY DEF Init, NoLocals, NoReply
  <1>. QED
    BY <1>1 DEF GInv, GroundOK, GroundedReply

\* Every step keeps it.
LEMMA StepGrounded == IInv /\ GInv /\ [Next]_vars => GInv'
  <1>. SUFFICES ASSUME IInv, GInv, [Next]_vars PROVE GInv'
    OBVIOUS
  <1>1. CASE \E r \in Requests : RequestStep(r) \/ Leave(r)
    <2>1. PICK r \in Requests : RequestStep(r) \/ Leave(r)
      BY <1>1
    <2>. QED
      BY <2>1, PlainGrounded, GetGrounded, AllowGrounded, AttemptFailsGrounded,
         AttemptAnswersGrounded, RetryLeaveGrounded DEF RequestStep
  <1>2. CASE (\E sv \in Severities : Rescan(sv)) \/ (\E t \in Tiers : SetLicense(t))
    BY <1>2, EnvironmentGrounded
  <1>3. CASE UNCHANGED vars
    BY <1>3 DEF vars, GInv
  <1>. QED
    BY <1>1, <1>2, <1>3 DEF Next

\* A shown explanation claims no status, is long enough, and states no severity but
\* one the finding had while the request ran, unless every sentence of the model's
\* answer stated a wrong one: for any answers of the sidecar and any scans in between.
THEOREM ShownIsAlwaysGrounded == Spec => []ShownIsGrounded
  <1>1. GInv => ShownIsGrounded
    BY DEF GInv, GroundOK, GroundedReply, ShownIsGrounded
  <1>2. Spec => []GInv
    BY InitGrounded, StepGrounded, Invariance, PTL DEF Spec
  <1>. QED
    BY <1>1, <1>2, PTL

----------------------------------------------------------------------------
\* What SanitizeEvidence leaves, by the depth of its calls.

\* The caps on the keys of a map, for the harmless ones among them.
LEMMA FirstKeysFacts ==
    ASSUME NEW ks \in SUBSET Nat, IsFiniteSet(ks)
    PROVE  /\ firstKeys(ks) = {k \in ks : Cardinality({j \in ks : j <= k}) <= maxEvidenceKeys}
           /\ Cardinality(firstKeys(ks)) <= maxEvidenceKeys
  <1>. DEFINE Less(k) == {j \in ks : j < k}
              UpTo(k) == {j \in ks : j <= k}
  <1>1. ASSUME NEW k \in ks
        PROVE  /\ IsFiniteSet(UpTo(k)) /\ Cardinality(Less(k)) \in Nat
               /\ Cardinality(UpTo(k)) = Cardinality(Less(k)) + 1
    <2>1. UpTo(k) = Less(k) \cup {k}
      <3>1. \A j \in ks : j <= k <=> j < k \/ j = k
        OBVIOUS
      <3>. QED
        BY <3>1
    <2>2. k \notin Less(k) /\ Less(k) \in SUBSET ks
      OBVIOUS
    <2>. HIDE DEF UpTo, Less
    <2>3. IsFiniteSet(Less(k))
      BY <2>2, FS_Subset
    <2>4. Cardinality(Less(k)) \in Nat
      BY <2>3, FS_CardinalityType
    <2>5. IsFiniteSet(Less(k) \cup {k}) /\ Cardinality(Less(k) \cup {k}) = Cardinality(Less(k)) + 1
      BY <2>2, <2>3, FS_AddElement, Zenon
    <2>. QED
      BY <2>1, <2>4, <2>5
  <1>2. maxEvidenceKeys \in Nat
    BY EvidenceAssumption
  <1>3. ASSUME NEW k \in ks
        PROVE  Cardinality(Less(k)) < maxEvidenceKeys <=> Cardinality(UpTo(k)) <= maxEvidenceKeys
    <2>. HIDE DEF UpTo, Less
    <2>. QED
      BY <1>1, <1>2
  <1>4. firstKeys(ks) = {k \in ks : Cardinality(Less(k)) < maxEvidenceKeys}
    BY DEF firstKeys
  <1>5. firstKeys(ks) = {k \in ks : Cardinality(UpTo(k)) <= maxEvidenceKeys}
    <2>. HIDE DEF UpTo, Less
    <2>. QED
      BY <1>3, <1>4
  <1>6. CASE firstKeys(ks) = {}
    <2>1. Cardinality(firstKeys(ks)) = 0
      BY <1>6, FS_EmptySet
    <2>. QED
      BY <1>2, <1>5, <2>1
  <1>7. CASE firstKeys(ks) # {}
    <2>1. firstKeys(ks) \in SUBSET ks
      BY DEF firstKeys
    <2>2. IsFiniteSet(firstKeys(ks))
      BY <2>1, FS_Subset
    <2>3. PICK k \in firstKeys(ks) : \A m \in firstKeys(ks) : m <= k
      BY <1>7, <2>1, <2>2, Greatest
    <2>4. firstKeys(ks) \in SUBSET UpTo(k)
      BY <2>1, <2>3
    <2>5. Cardinality(UpTo(k)) <= maxEvidenceKeys /\ k \in ks
      BY <1>5
    <2>. HIDE DEF UpTo, Less
    <2>6. IsFiniteSet(UpTo(k)) /\ Cardinality(UpTo(k)) \in Nat
      BY <1>1, <2>5
    <2>7. Cardinality(firstKeys(ks)) <= Cardinality(UpTo(k)) /\ Cardinality(firstKeys(ks)) \in Nat
      BY <2>2, <2>4, <2>6, FS_Subset, FS_CardinalityType, Zenon
    <2>8. Cardinality(firstKeys(ks)) <= maxEvidenceKeys
      BY <1>2, <2>5, <2>6, <2>7
    <2>. QED
      BY <1>5, <2>8, Zenon DEF UpTo
  <1>. QED
    BY <1>5, <1>6, <1>7

\* A copy w of v that keeps exactly the steps that the caps leave; and copies with
\* their parts, at the depths of sanitizeValue (a []string has items below the last).
Copy(v, w) == BoundedNode(w) /\ LeafKept(generic(v), w) /\ Steps(w) = KeptSteps(v)
Copy4(v, w) == Copy(v, w) /\ Steps(w) = {}
Copy3(v, w) ==
    /\ BoundedNode(w) /\ LeafKept(generic(v), w)
    /\ Steps(w) = KeptSteps(v) \/ (Steps(w) = {} /\ v.tag # "texts")
    /\ \A k \in Steps(w) : Copy4(Child(v, k), Child(w, k))
Copy2(v, w) == Copy(v, w) /\ \A k \in Steps(w) : Copy3(Child(v, k), Child(w, k))
Copy1(v, w) == Copy(v, w) /\ \A k \in Steps(w) : Copy2(Child(v, k), Child(w, k))
Copy0(v, w) == Copy(v, w) /\ \A k \in Steps(w) : Copy1(Child(v, k), Child(w, k))

\* A text as bound leaves it.
LEMMA BoundFacts ==
    ASSUME NEW t \in TextValues, NEW max \in Nat
    PROVE  /\ bound(t, max) \in {Marker} \cup TextValues
           /\ BoundedText(bound(t, max), max)
           /\ ~t.instr => bound(t, max).tag = "text"
           /\ ~t.instr /\ t.len <= max => bound(t, max) = t
  <1>1. t.tag = "text" /\ t.len \in Nat /\ t.instr \in BOOLEAN /\ Marker.tag = "marker"
    BY DEF TextValues, Marker
  <1>2. CASE t.instr
    <2>1. bound(t, max) = Marker
      BY <1>1, <1>2 DEF bound, neutralizeInstructions, truncateRunes
    <2>. QED
      BY <1>1, <1>2, <2>1 DEF BoundedText
  <1>3. CASE ~t.instr /\ t.len > max
    <2>1. bound(t, max) = [t EXCEPT !.len = max + 1]
      BY <1>1, <1>3 DEF bound, neutralizeInstructions, truncateRunes
    <2>. QED
      BY <1>1, <1>3, <2>1 DEF BoundedText, TextValues
  <1>4. CASE ~t.instr /\ ~(t.len > max)
    <2>1. bound(t, max) = t
      BY <1>1, <1>4 DEF bound, neutralizeInstructions, truncateRunes
    <2>. QED
      BY <1>1, <1>4, <2>1 DEF BoundedText, TextValues
  <1>. QED
    BY <1>1, <1>2, <1>3, <1>4

\* A value and what it stands for: generic(v) is no struct, and has the steps of v.
LEMMA GenericFacts ==
    ASSUME NEW v \in Values
    PROVE  /\ generic(v) \in Values
           /\ generic(v).tag \in {"scalar", "nil", "opaque", "text", "texts", "list", "map"}
           /\ generic(v).tag = "texts" <=> v.tag = "texts"
           /\ generic(generic(v)) = generic(v)
  <1>1. IsValue(v)
    BY EvidenceAssumption
  <1>2. CASE v.tag = "struct"
    <2>1. generic(v) = v.json
      BY <1>2 DEF generic
    <2>2. v.json \in Values /\ v.json.tag \in {"scalar", "nil", "text", "list", "map"}
      BY <1>1, <1>2 DEF IsValue, Scalar, Nil, Opaque, TextValues
    <2>. QED
      BY <1>2, <2>1, <2>2 DEF generic
  <1>3. CASE v.tag # "struct"
    <2>1. generic(v) = v
      BY <1>3 DEF generic
    <2>2. v.tag \in {"scalar", "nil", "opaque", "text", "texts", "list", "map"}
      BY <1>1, <1>3 DEF IsValue, Scalar, Nil, Opaque, TextValues
    <2>. QED
      BY <2>1, <2>2
  <1>. QED
    BY <1>2, <1>3

\* What is no container, as a value and as a copy.
LEMMA NoSteps ==
    ASSUME NEW v, generic(v).tag \notin {"map", "list", "texts"}
    PROVE  Steps(v) = {} /\ KeptSteps(v) = {}
BY DEF Steps, KeptSteps

\* A text item and its copy.
LEMMA TextCopy ==
    ASSUME NEW t \in TextValues
    PROVE  Copy4(t, bound(t, maxEvidenceString))
  <1>. DEFINE w == bound(t, maxEvidenceString)
  <1>1. maxEvidenceString \in Nat
    BY EvidenceAssumption
  <1>2. /\ w \in {Marker} \cup TextValues
        /\ BoundedText(w, maxEvidenceString)
        /\ ~t.instr => w.tag = "text"
        /\ ~t.instr /\ t.len <= maxEvidenceString => w = t
    BY <1>1, BoundFacts
  <1>. HIDE DEF w
  <1>3. t.tag = "text" /\ generic(t) = t
    BY DEF TextValues, generic
  <1>4. w.tag \in {"marker", "text"} /\ generic(w) = w
    BY <1>2 DEF TextValues, Marker, generic
  <1>5. Steps(t) = {} /\ KeptSteps(t) = {} /\ Steps(w) = {}
    BY <1>3, <1>4, NoSteps
  <1>6. BoundedNode(w)
    BY <1>2, <1>4 DEF BoundedNode
  <1>7. LeafKept(t, w)
    BY <1>2, <1>3 DEF LeafKept
  <1>. QED
    BY <1>3, <1>5, <1>6, <1>7 DEF Copy4, Copy, w

\* The positions that firstItems keeps.
LEMMA FirstItemsFacts ==
    ASSUME NEW S, NEW s \in Seq(S)
    PROVE  1 .. Len(firstItems(s)) = {i \in DOMAIN s : i <= maxEvidenceList}
  <1>1. maxEvidenceList \in Nat /\ Len(s) \in Nat /\ DOMAIN s = 1 .. Len(s)
    BY EvidenceAssumption
  <1>2. Len(firstItems(s)) = IF Len(s) > maxEvidenceList THEN maxEvidenceList ELSE Len(s)
    BY <1>1 DEF firstItems
  <1>. QED
    BY <1>1, <1>2

\* The copy of a map, h being the copies of its parts.
LEMMA MapCopy ==
    ASSUME NEW v \in Values, generic(v).tag = "map",
           NEW h, DOMAIN h = keptKeys(DOMAIN generic(v).fields),
           NEW w, w = IF keptKeys(DOMAIN generic(v).fields) = {} THEN Nil ELSE Map(h)
    PROVE  /\ Copy(v, w)
           /\ \A k \in Steps(w) : /\ k \in DOMAIN h /\ Child(w, k) = h[k]
                                   /\ Child(v, k) = generic(v).fields[k] /\ Child(v, k) \in Values
  <1>. DEFINE g == generic(v)
              harmless == {k \in DOMAIN g.fields : ~isSecretKey(k)}
              keys == keptKeys(DOMAIN g.fields)
  <1>1. g \in Values /\ IsValue(g)
    BY GenericFacts, EvidenceAssumption
  <1>2. g.fields \in [DOMAIN g.fields -> Values] /\ DOMAIN g.fields \subseteq Nat /\ IsFiniteSet(DOMAIN g.fields)
    BY <1>1 DEF IsValue, Scalar, Nil, Opaque, TextValues
  <1>3. harmless \in SUBSET Nat /\ IsFiniteSet(harmless) /\ harmless = Steps(v) \ SecretKeys
    <2>1. harmless \in SUBSET DOMAIN g.fields
      OBVIOUS
    <2>2. IsFiniteSet(harmless)
      <3>. HIDE DEF harmless
      <3>. QED
        BY <1>2, <2>1, FS_Subset
    <2>3. Steps(v) = DOMAIN g.fields
      BY DEF Steps
    <2>. QED
      BY <1>2, <2>1, <2>2, <2>3 DEF isSecretKey
  <1>4. keys = firstKeys(harmless)
    BY DEF keptKeys
  <1>5. KeptSteps(v) = {k \in harmless : Cardinality({j \in harmless : j <= k}) <= maxEvidenceKeys}
    BY <1>3 DEF KeptSteps
  <1>. HIDE DEF harmless
  <1>6. keys = KeptSteps(v) /\ Cardinality(keys) <= maxEvidenceKeys
    BY <1>3, <1>4, <1>5, FirstKeysFacts
  <1>7. keys \subseteq DOMAIN g.fields \ SecretKeys
    BY <1>3, <1>5, <1>6 DEF Steps
  <1>8. generic(w) = w /\ w.tag \in {"nil", "map"} /\ Steps(w) = keys
    <2>1. CASE keys = {}
      <3>1. w = Nil
        BY <2>1
      <3>2. generic(w) = w /\ w.tag = "nil"
        BY <3>1 DEF Nil, generic
      <3>. QED
        BY <2>1, <3>2, NoSteps
    <2>2. CASE keys # {}
      <3>1. w = Map(h)
        BY <2>2
      <3>2. generic(w) = w /\ w.tag = "map" /\ w.fields = h
        BY <3>1 DEF Map, generic
      <3>. QED
        BY <3>2 DEF Steps
    <2>. QED
      BY <2>1, <2>2
  <1>9. BoundedNode(w)
    BY <1>6, <1>7, <1>8 DEF BoundedNode, BoundedText
  <1>10. LeafKept(generic(v), w)
    BY DEF LeafKept
  <1>11. ASSUME NEW k \in Steps(w)
         PROVE  /\ k \in DOMAIN h /\ Child(w, k) = h[k]
                /\ Child(v, k) = g.fields[k] /\ Child(v, k) \in Values
    <2>1. k \in keys /\ keys # {}
      BY <1>8
    <2>2. w = Map(h)
      BY <2>1
    <2>3. Child(w, k) = h[k]
      BY <1>8, <2>2 DEF Child, Map
    <2>4. Child(v, k) = g.fields[k]
      BY DEF Child
    <2>. QED
      BY <1>2, <1>7, <2>1, <2>3, <2>4
  <1>. QED
    BY <1>6, <1>8, <1>9, <1>10, <1>11 DEF Copy

\* The copy of a list or of a []string, h being the copies of its items.
LEMMA ListCopy ==
    ASSUME NEW v \in Values, generic(v).tag \in {"list", "texts"},
           NEW h, DOMAIN h = 1 .. Len(firstItems(generic(v).items)),
           NEW w, w = List(h)
    PROVE  /\ Copy(v, w)
           /\ \A k \in Steps(w) :
                /\ k \in DOMAIN h /\ Child(w, k) = h[k]
                /\ Child(v, k) = generic(v).items[k]
                /\ Child(v, k) \in IF generic(v).tag = "list" THEN Values ELSE TextValues
  <1>. DEFINE g == generic(v)
              S == IF g.tag = "list" THEN Values ELSE TextValues
  <1>1. g \in Values /\ IsValue(g)
    BY GenericFacts, EvidenceAssumption
  <1>2. g.items \in Seq(S)
    BY <1>1 DEF IsValue, Scalar, Nil, Opaque, TextValues
  <1>3. DOMAIN h = {i \in DOMAIN g.items : i <= maxEvidenceList}
    <2>. HIDE DEF S
    <2>. QED
      BY <1>2, FirstItemsFacts
  <1>4. KeptSteps(v) = DOMAIN h
    BY <1>3 DEF KeptSteps, Steps
  <1>5. generic(w) = w /\ w.tag = "list" /\ w.items = h
    BY DEF List, generic
  <1>6. Steps(w) = DOMAIN h
    BY <1>5 DEF Steps
  <1>7. DOMAIN h \subseteq 1 .. maxEvidenceList
    <2>1. DOMAIN g.items = 1 .. Len(g.items) /\ Len(g.items) \in Nat
      BY <1>2
    <2>. QED
      BY <1>3, <2>1, EvidenceAssumption
  <1>8. BoundedNode(w)
    BY <1>5, <1>6, <1>7 DEF BoundedNode, BoundedText
  <1>9. LeafKept(generic(v), w)
    BY DEF LeafKept
  <1>10. ASSUME NEW k \in Steps(w)
         PROVE  /\ k \in DOMAIN h /\ Child(w, k) = h[k]
                /\ Child(v, k) = g.items[k] /\ Child(v, k) \in S
    <2>1. k \in DOMAIN h /\ k \in DOMAIN g.items
      BY <1>3, <1>6
    <2>2. Child(w, k) = h[k] /\ Child(v, k) = g.items[k]
      BY <1>5 DEF Child
    <2>. QED
      BY <1>2, <2>1, <2>2
  <1>. QED
    BY <1>4, <1>6, <1>8, <1>9, <1>10 DEF Copy

\* A copy with no parts is one at every depth.
LEMMA EndCopy ==
    ASSUME NEW v, NEW w, Copy4(v, w)
    PROVE  Copy3(v, w) /\ Copy2(v, w)
BY DEF Copy4, Copy3, Copy2, Copy

\* What sanitizeValue makes of a value that is no container, at every depth.
LEMMA LeafCopy ==
    ASSUME NEW v \in Values, generic(v).tag \notin {"map", "list"}
    PROVE  /\ Copy(v, sanitizeLeaf(generic(v)))
           /\ \A k \in Steps(sanitizeLeaf(generic(v))) :
                 Copy4(Child(v, k), Child(sanitizeLeaf(generic(v)), k))
  <1>. DEFINE g == generic(v)
              w == sanitizeLeaf(g)
  <1>1. /\ g \in Values /\ IsValue(g) /\ generic(g) = g
        /\ g.tag \in {"scalar", "nil", "opaque", "text", "texts"}
    BY GenericFacts, EvidenceAssumption
  <1>2. CASE g.tag = "texts"
    <2>. DEFINE h == [i \in 1 .. Len(firstItems(g.items)) |-> bound(g.items[i], maxEvidenceString)]
    <2>1. w = List(h)
      BY <1>2 DEF sanitizeLeaf
    <2>2. /\ DOMAIN h = 1 .. Len(firstItems(g.items))
          /\ \A i \in DOMAIN h : h[i] = bound(g.items[i], maxEvidenceString)
      OBVIOUS
    <2>. HIDE DEF h, w
    <2>3. /\ Copy(v, w)
          /\ \A k \in Steps(w) : /\ k \in DOMAIN h /\ Child(w, k) = h[k]
                                  /\ Child(v, k) = g.items[k] /\ Child(v, k) \in TextValues
      BY <1>2, <2>1, <2>2, ListCopy
    <2>4. ASSUME NEW k \in Steps(w) PROVE Copy4(Child(v, k), Child(w, k))
      BY <2>2, <2>3, TextCopy
    <2>. QED
      BY <2>3, <2>4 DEF w
  <1>3. CASE g.tag = "text"
    <2>1. g \in TextValues
      BY <1>1, <1>3 DEF IsValue, Scalar, Nil, Opaque
    <2>2. w = bound(g, maxEvidenceString)
      BY <1>3 DEF sanitizeLeaf
    <2>3. Copy4(g, w)
      BY <2>1, <2>2, TextCopy
    <2>4. KeptSteps(v) = {}
      BY <1>3, NoSteps
    <2>. HIDE DEF w
    <2>. QED
      BY <1>1, <2>3, <2>4 DEF Copy4, Copy, w
  <1>4. CASE g.tag \in {"scalar", "nil", "opaque"}
    <2>1. w = IF g.tag = "opaque" THEN Marker ELSE g
      BY <1>4 DEF sanitizeLeaf
    <2>2. w.tag \in {"scalar", "nil", "marker"} /\ generic(w) = w
      BY <1>1, <1>4, <2>1 DEF Marker, generic
    <2>. HIDE DEF w
    <2>3. Steps(w) = {} /\ KeptSteps(v) = {}
      BY <1>4, <2>2, NoSteps
    <2>4. BoundedNode(w)
      BY <2>2 DEF BoundedNode, BoundedText
    <2>5. LeafKept(g, w)
      BY <1>4, <2>1 DEF LeafKept
    <2>. QED
      BY <2>3, <2>4, <2>5 DEF Copy, w
  <1>. QED
    BY <1>1, <1>2, <1>3, <1>4

\* sanitizeValue at depth 3, where maps and lists are left out.
LEMMA Value3Copy ==
    ASSUME NEW v \in Values
    PROVE  Copy3(v, sanitizeValue3(v))
  <1>. DEFINE g == generic(v)
              w == sanitizeValue3(v)
  <1>1. w = sanitizeLeaf(g)
    BY DEF sanitizeValue3
  <1>2. CASE g.tag \notin {"map", "list"}
    <2>1. Copy(v, w) /\ \A k \in Steps(w) : Copy4(Child(v, k), Child(w, k))
      BY <1>1, <1>2, LeafCopy
    <2>. HIDE DEF w
    <2>. QED
      BY <2>1 DEF Copy3, Copy, w
  <1>3. CASE g.tag \in {"map", "list"}
    <2>1. w = Marker /\ v.tag # "texts"
      BY <1>1, <1>3, GenericFacts DEF sanitizeLeaf
    <2>2. w.tag = "marker" /\ generic(w) = w
      BY <2>1 DEF Marker, generic
    <2>. HIDE DEF w
    <2>3. Steps(w) = {}
      BY <2>2, NoSteps
    <2>4. BoundedNode(w) /\ LeafKept(g, w)
      BY <1>3, <2>2 DEF BoundedNode, BoundedText, LeafKept
    <2>. QED
      BY <2>1, <2>3, <2>4 DEF Copy3, w
  <1>. QED
    BY <1>2, <1>3

\* sanitizeValue at depth 2.
LEMMA Value2Copy ==
    ASSUME NEW v \in Values
    PROVE  Copy2(v, sanitizeValue2(v))
  <1>. DEFINE g == generic(v)
              w == sanitizeValue2(v)
  <1>1. CASE g.tag = "map"
    <2>. DEFINE keys == keptKeys(DOMAIN g.fields)
                h == [k \in keys |-> sanitizeValue3(g.fields[k])]
    <2>1. w = IF keys = {} THEN Nil ELSE Map(h)
      BY <1>1 DEF sanitizeValue2, sanitizeInner, sanitizeMap
    <2>2. DOMAIN h = keys /\ \A k \in keys : h[k] = sanitizeValue3(g.fields[k])
      OBVIOUS
    <2>. HIDE DEF h, w
    <2>3. /\ Copy(v, w)
          /\ \A k \in Steps(w) : /\ k \in keys /\ Child(w, k) = h[k]
                                  /\ Child(v, k) = g.fields[k] /\ Child(v, k) \in Values
      BY <1>1, <2>1, <2>2, MapCopy
    <2>4. ASSUME NEW k \in Steps(w) PROVE Copy3(Child(v, k), Child(w, k))
      BY <2>2, <2>3, Value3Copy
    <2>. QED
      BY <2>3, <2>4 DEF Copy2, w
  <1>2. CASE g.tag = "list"
    <2>. DEFINE h == [i \in 1 .. Len(firstItems(g.items)) |-> sanitizeValue3(g.items[i])]
    <2>1. w = List(h)
      BY <1>2 DEF sanitizeValue2, sanitizeInner
    <2>2. /\ DOMAIN h = 1 .. Len(firstItems(g.items))
          /\ \A i \in DOMAIN h : h[i] = sanitizeValue3(g.items[i])
      OBVIOUS
    <2>. HIDE DEF h, w
    <2>3. /\ Copy(v, w)
          /\ \A k \in Steps(w) : /\ k \in DOMAIN h /\ Child(w, k) = h[k]
                                  /\ Child(v, k) = g.items[k] /\ Child(v, k) \in Values
      BY <1>2, <2>1, <2>2, ListCopy
    <2>4. ASSUME NEW k \in Steps(w) PROVE Copy3(Child(v, k), Child(w, k))
      BY <2>2, <2>3, Value3Copy
    <2>. QED
      BY <2>3, <2>4 DEF Copy2, w
  <1>3. CASE g.tag \notin {"map", "list"}
    <2>1. w = sanitizeLeaf(g)
      BY <1>3 DEF sanitizeValue2, sanitizeInner
    <2>2. Copy(v, w) /\ \A k \in Steps(w) : Copy4(Child(v, k), Child(w, k))
      BY <1>3, <2>1, LeafCopy
    <2>. HIDE DEF w
    <2>. QED
      BY <2>2, EndCopy DEF Copy2, w
  <1>. QED
    BY <1>1, <1>2, <1>3

\* sanitizeValue at depth 1.
LEMMA Value1Copy ==
    ASSUME NEW v \in Values
    PROVE  Copy1(v, sanitizeValue1(v))
  <1>. DEFINE g == generic(v)
              w == sanitizeValue1(v)
  <1>1. CASE g.tag = "map"
    <2>. DEFINE keys == keptKeys(DOMAIN g.fields)
                h == [k \in keys |-> sanitizeValue2(g.fields[k])]
    <2>1. w = IF keys = {} THEN Nil ELSE Map(h)
      BY <1>1 DEF sanitizeValue1, sanitizeInner, sanitizeMap
    <2>2. DOMAIN h = keys /\ \A k \in keys : h[k] = sanitizeValue2(g.fields[k])
      OBVIOUS
    <2>. HIDE DEF h, w
    <2>3. /\ Copy(v, w)
          /\ \A k \in Steps(w) : /\ k \in keys /\ Child(w, k) = h[k]
                                  /\ Child(v, k) = g.fields[k] /\ Child(v, k) \in Values
      BY <1>1, <2>1, <2>2, MapCopy
    <2>4. ASSUME NEW k \in Steps(w) PROVE Copy2(Child(v, k), Child(w, k))
      BY <2>2, <2>3, Value2Copy
    <2>. QED
      BY <2>3, <2>4 DEF Copy1, w
  <1>2. CASE g.tag = "list"
    <2>. DEFINE h == [i \in 1 .. Len(firstItems(g.items)) |-> sanitizeValue2(g.items[i])]
    <2>1. w = List(h)
      BY <1>2 DEF sanitizeValue1, sanitizeInner
    <2>2. /\ DOMAIN h = 1 .. Len(firstItems(g.items))
          /\ \A i \in DOMAIN h : h[i] = sanitizeValue2(g.items[i])
      OBVIOUS
    <2>. HIDE DEF h, w
    <2>3. /\ Copy(v, w)
          /\ \A k \in Steps(w) : /\ k \in DOMAIN h /\ Child(w, k) = h[k]
                                  /\ Child(v, k) = g.items[k] /\ Child(v, k) \in Values
      BY <1>2, <2>1, <2>2, ListCopy
    <2>4. ASSUME NEW k \in Steps(w) PROVE Copy2(Child(v, k), Child(w, k))
      BY <2>2, <2>3, Value2Copy
    <2>. QED
      BY <2>3, <2>4 DEF Copy1, w
  <1>3. CASE g.tag \notin {"map", "list"}
    <2>1. w = sanitizeLeaf(g)
      BY <1>3 DEF sanitizeValue1, sanitizeInner
    <2>2. Copy(v, w) /\ \A k \in Steps(w) : Copy4(Child(v, k), Child(w, k))
      BY <1>3, <2>1, LeafCopy
    <2>. HIDE DEF w
    <2>. QED
      BY <2>2, EndCopy DEF Copy1, w
  <1>. QED
    BY <1>1, <1>2, <1>3

\* SanitizeEvidence.
LEMMA EvidenceCopy ==
    ASSUME NEW in, Map(in) \in Values
    PROVE  Copy0(Map(in), SanitizeEvidence(in))
  <1>. DEFINE v == Map(in)
              w == SanitizeEvidence(in)
              keys == keptKeys(DOMAIN in)
              h == [k \in keys |-> sanitizeValue1(in[k])]
  <1>1. generic(v) = v /\ v.tag = "map" /\ v.fields = in
    BY DEF Map, generic
  <1>2. w = IF keys = {} THEN Nil ELSE Map(h)
    BY DEF SanitizeEvidence, sanitizeMap
  <1>3. DOMAIN h = keys /\ \A k \in keys : h[k] = sanitizeValue1(in[k])
    OBVIOUS
  <1>. HIDE DEF h, v, w
  <1>4. /\ Copy(v, w)
        /\ \A k \in Steps(w) : /\ k \in keys /\ Child(w, k) = h[k]
                                /\ Child(v, k) = in[k] /\ Child(v, k) \in Values
    BY <1>1, <1>2, <1>3, MapCopy DEF v
  <1>5. ASSUME NEW k \in Steps(w) PROVE Copy1(Child(v, k), Child(w, k))
    BY <1>3, <1>4, Value1Copy
  <1>. QED
    BY <1>4, <1>5 DEF Copy0, v, w

----------------------------------------------------------------------------
\* The nodes of a copy, level by level.
LEMMA LevelsBounded ==
    ASSUME NEW v, NEW w, Copy0(v, w)
    PROVE  BoundedEvidence(w)
  <1>. DEFINE level0 == {w}
              level1 == Parts(level0)
              level2 == Parts(level1)
              level3 == Parts(level2)
              level4 == Parts(level3)
  <1>0. \A x \in level0 : \E u : Copy0(u, x)
    OBVIOUS
  <1>. HIDE DEF level0
  <1>1. \A x \in level1 : \E u : Copy1(u, x)
    BY <1>0 DEF Parts, Copy0
  <1>. HIDE DEF level1
  <1>2. \A x \in level2 : \E u : Copy2(u, x)
    BY <1>1 DEF Parts, Copy1
  <1>. HIDE DEF level2
  <1>3. \A x \in level3 : \E u : Copy3(u, x)
    BY <1>2 DEF Parts, Copy2
  <1>. HIDE DEF level3
  <1>4. \A x \in level4 : \E u : Copy4(u, x)
    BY <1>3 DEF Parts, Copy3
  <1>. HIDE DEF level4
  <1>5. Parts(level4) = {}
    BY <1>4 DEF Parts, Copy4
  <1>6. \A x \in level0 \cup level1 \cup level2 \cup level3 \cup level4 : BoundedNode(x)
    BY <1>0, <1>1, <1>2, <1>3, <1>4 DEF Copy0, Copy1, Copy2, Copy3, Copy4, Copy
  <1>. QED
    BY <1>5, <1>6, Zenon DEF BoundedEvidence, level0, level1, level2, level3, level4

\* A pair one step below others.
LEMMA PairBelow ==
    ASSUME NEW ps, NEW q \in Below(ps)
    PROVE  \E p \in ps : \E k \in Steps(p[2]) : q[1] = Child(p[1], k) /\ q[2] = Child(p[2], k)
BY DEF Below

\* The pairs of an original and its copy, level by level.
LEMMA PairsKept ==
    ASSUME NEW v, NEW w, Copy0(v, w)
    PROVE  KeptEvidence(v, w)
  <1>. DEFINE level0 == {<<v, w>>}
              level1 == Below(level0)
              level2 == Below(level1)
              level3 == Below(level2)
              level4 == Below(level3)
  <1>0. \A p \in level0 : Copy0(p[1], p[2])
    OBVIOUS
  <1>. HIDE DEF level0
  <1>1. ASSUME NEW q \in level1 PROVE Copy1(q[1], q[2])
    <2>1. PICK p \in level0 : \E k \in Steps(p[2]) : q[1] = Child(p[1], k) /\ q[2] = Child(p[2], k)
      BY PairBelow, Zenon
    <2>2. Copy0(p[1], p[2])
      BY <1>0
    <2>. QED
      BY <2>1, <2>2, Zenon DEF Copy0
  <1>. HIDE DEF level1
  <1>2. ASSUME NEW q \in level2 PROVE Copy2(q[1], q[2])
    <2>1. PICK p \in level1 : \E k \in Steps(p[2]) : q[1] = Child(p[1], k) /\ q[2] = Child(p[2], k)
      BY PairBelow, Zenon
    <2>2. Copy1(p[1], p[2])
      BY <1>1
    <2>. QED
      BY <2>1, <2>2, Zenon DEF Copy1
  <1>. HIDE DEF level2
  <1>3. ASSUME NEW q \in level3 PROVE Copy3(q[1], q[2])
    <2>1. PICK p \in level2 : \E k \in Steps(p[2]) : q[1] = Child(p[1], k) /\ q[2] = Child(p[2], k)
      BY PairBelow, Zenon
    <2>2. Copy2(p[1], p[2])
      BY <1>2
    <2>. QED
      BY <2>1, <2>2, Zenon DEF Copy2
  <1>. HIDE DEF level3
  <1>4. ASSUME NEW q \in level4 PROVE Copy4(q[1], q[2])
    <2>1. PICK p \in level3 : \E k \in Steps(p[2]) : q[1] = Child(p[1], k) /\ q[2] = Child(p[2], k)
      BY PairBelow, Zenon
    <2>2. Copy3(p[1], p[2])
      BY <1>3
    <2>. QED
      BY <2>1, <2>2, Zenon DEF Copy3
  <1>. HIDE DEF level4
  <1>5. \A p \in level0 \cup level1 \cup level2 : KeptSteps(p[1]) \subseteq Steps(p[2])
    BY <1>0, <1>1, <1>2 DEF Copy0, Copy1, Copy2, Copy
  <1>6. \A p \in level3 : p[1].tag = "texts" => KeptSteps(p[1]) \subseteq Steps(p[2])
    BY <1>3 DEF Copy3
  <1>7. \A p \in level1 \cup level2 \cup level3 \cup level4 : LeafKept(generic(p[1]), p[2])
    BY <1>1, <1>2, <1>3, <1>4 DEF Copy1, Copy2, Copy3, Copy4, Copy
  <1>. QED
    BY <1>5, <1>6, <1>7, Zenon DEF KeptEvidence, level0, level1, level2, level3, level4

\* The findings that Store.Get returns.
Stored == {[severity |-> sv, text |-> c.text, evidence |-> c.evidence, complete |-> c.complete] :
             sv \in Severities, c \in Contents}

\* The packet of a stored finding.
LEMMA StoredPacket ==
    ASSUME NEW f \in Stored
    PROVE  /\ BoundedText(NewFindingPacket(f).title, maxEvidenceString)
           /\ BoundedText(NewFindingPacket(f).target, maxEvidenceString)
           /\ BoundedText(NewFindingPacket(f).remediation, 2 * maxEvidenceString)
           /\ Copy0(Map(f.evidence), NewFindingPacket(f).evidence)
  <1>1. PICK c \in Contents : f.text = c.text /\ f.evidence = c.evidence
    BY DEF Stored
  <1>2. f.text \in TextValues /\ Map(f.evidence) \in Values
    BY <1>1, AssistAssumption
  <1>3. maxEvidenceString \in Nat /\ 2 * maxEvidenceString \in Nat
    BY EvidenceAssumption
  <1>. DEFINE title == bound(f.text, maxEvidenceString)
              long == bound(f.text, 2 * maxEvidenceString)
              evidence == SanitizeEvidence(f.evidence)
  <1>4. /\ BoundedText(title, maxEvidenceString)
        /\ BoundedText(long, 2 * maxEvidenceString)
        /\ Copy0(Map(f.evidence), evidence)
    BY <1>2, <1>3, BoundFacts, EvidenceCopy
  <1>5. NewFindingPacket(f) = [severity |-> f.severity, title |-> title, target |-> title,
                               remediation |-> long, evidence |-> evidence]
    BY DEF NewFindingPacket
  <1>. HIDE DEF title, long, evidence
  <1>. QED
    BY <1>4, <1>5

\* The invariant of what a request holds: before the licence check a stored
\* finding, and after it the packet of one.
HeldOK(q) ==
    /\ q.pc = "found" => q.finding \in Stored
    /\ q.packet # NoPacket => \E f \in Stored : q.packet = NewFindingPacket(f)

Held == \A r \in Requests : HeldOK(req[r])

\* A step that changes one request.
LEMMA OneHeld ==
    ASSUME IInv, Held, NEW r \in Requests, NEW q, HeldOK(q), req' = [req EXCEPT ![r] = q]
    PROVE  Held'
  <1>1. req \in [Requests -> RequestType]
    BY DEF IInv, Shape
  <1>. QED
    BY <1>1 DEF Held

\* A request that is answered holds nothing.
LEMMA AnsweredHeld ==
    ASSUME IInv, Held, NEW r \in Requests, NEW reply, Answered(r, reply)
    PROVE  Held'
  <1>. DEFINE q == NoLocals("replied", req[r].gone, reply)
  <1>1. q.pc = "replied" /\ q.packet = NoPacket
    BY DEF NoLocals
  <1>2. req' = [req EXCEPT ![r] = q]
    BY DEF Answered
  <1>. HIDE DEF q
  <1>3. HeldOK(q)
    BY <1>1 DEF HeldOK
  <1>. QED
    BY <1>2, <1>3, OneHeld

\* The licence check lets a finding through: its packet is made.
LEMMA AllowHeld ==
    ASSUME IInv, Held, NEW r \in Requests, req[r].pc = "found",
           req' = [req EXCEPT ![r].pc = "asking", ![r].finding = NoPacket,
                              ![r].packet = NewFindingPacket(req[r].finding)]
    PROVE  Held' /\ req'[r].packet = NewFindingPacket(req[r].finding)
  <1>. DEFINE p == NewFindingPacket(req[r].finding)
              q == [req[r] EXCEPT !.pc = "asking", !.finding = NoPacket, !.packet = p]
  <1>1. req[r].finding \in Stored
    BY DEF Held, HeldOK
  <1>2. req' = [req EXCEPT ![r] = q]
    OBVIOUS
  <1>3. \E f \in Stored : p = NewFindingPacket(f)
    BY <1>1
  <1>. HIDE DEF p
  <1>4. q.pc = "asking" /\ q.packet = p
    BY Fields DEF RequestType
  <1>. HIDE DEF q
  <1>5. HeldOK(q)
    BY <1>3, <1>4 DEF HeldOK
  <1>6. req'[r] = q
    BY <1>2 DEF IInv, Shape
  <1>. QED
    BY <1>2, <1>4, <1>5, <1>6, OneHeld DEF p

\* The steps that leave finding and packet of a request as they are.
LEMMA SameHeld ==
    ASSUME IInv, Held, NEW r \in Requests,
           \/ \E resp \in Responses : AttemptFails(r, resp)
           \/ Retry(r) \/ Leave(r)
    PROVE  Held'
  <1>1. ASSUME NEW reply, Answered(r, reply) PROVE Held'
    BY <1>1, AnsweredHeld
  <1>2. ASSUME NEW q, req' = [req EXCEPT ![r] = q], q.finding = req[r].finding,
               q.packet = req[r].packet, q.pc = "found" => req[r].pc = "found"
        PROVE  Held'
    <2>1. HeldOK(q)
      BY <1>2 DEF Held, HeldOK
    <2>. QED
      BY <1>2, <2>1, OneHeld
  <1>3. ASSUME NEW resp \in Responses, AttemptFails(r, resp) PROVE Held'
    <2>. DEFINE log == Append(req[r].log, resp)
                q == [req[r] EXCEPT !.pc = "backoff", !.log = log]
    <2>1. CASE req' = [req EXCEPT ![r].pc = "backoff", ![r].log = log]
      <3>1. req' = [req EXCEPT ![r] = q]
        BY <2>1
      <3>2. q.finding = req[r].finding /\ q.packet = req[r].packet /\ q.pc = "backoff"
        BY Fields DEF RequestType
      <3>. HIDE DEF q
      <3>. QED
        BY <1>2, <3>1, <3>2
    <2>2. CASE Answered(r, [kind |-> "unavailable", log |-> log])
      BY <1>1, <2>2
    <2>. QED
      BY <1>3, <2>1, <2>2 DEF AttemptFails
  <1>4. CASE Retry(r)
    <2>. DEFINE q == [req[r] EXCEPT !.pc = "asking"]
    <2>1. req' = [req EXCEPT ![r] = q]
      BY <1>4 DEF Retry
    <2>2. q.finding = req[r].finding /\ q.packet = req[r].packet /\ q.pc = "asking"
      BY Fields DEF RequestType
    <2>. HIDE DEF q
    <2>. QED
      BY <1>2, <2>1, <2>2
  <1>5. CASE Leave(r)
    <2>. DEFINE q == [req[r] EXCEPT !.gone = TRUE]
    <2>1. req' = [req EXCEPT ![r] = q]
      BY <1>5 DEF Leave
    <2>2. q.finding = req[r].finding /\ q.packet = req[r].packet /\ q.pc = req[r].pc
      BY Fields DEF RequestType
    <2>. HIDE DEF q
    <2>. QED
      BY <1>2, <2>1, <2>2
  <1>. QED
    BY <1>3, <1>4, <1>5

\* Store.Get: the request holds the finding.
LEMMA GetHeld ==
    ASSUME IInv, Held, NEW r \in Requests, NEW c \in Contents, Get(r, c)
    PROVE  Held'
  <1>. DEFINE f == [severity |-> row, text |-> c.text, evidence |-> c.evidence, complete |-> c.complete]
              q == [req[r] EXCEPT !.pc = "found", !.finding = f]
  <1>1. row \in Severities /\ req' = [req EXCEPT ![r] = q]
    BY DEF Get, IInv, Shape
  <1>2. f \in Stored
    BY <1>1 DEF Stored
  <1>. HIDE DEF f
  <1>3. q.pc = "found" /\ q.finding = f /\ q.packet = req[r].packet
    BY Fields DEF RequestType
  <1>. HIDE DEF q
  <1>4. HeldOK(q)
    BY <1>2, <1>3 DEF Held, HeldOK
  <1>. QED
    BY <1>1, <1>4, OneHeld

\* Every step keeps the invariant of what the requests hold.
LEMMA StepHeld == IInv /\ Held /\ [Next]_vars => Held'
  <1>. SUFFICES ASSUME IInv, Held, [Next]_vars PROVE Held'
    OBVIOUS
  <1>1. ASSUME UNCHANGED req PROVE Held'
    BY <1>1 DEF Held
  <1>2. ASSUME NEW r \in Requests, RequestStep(r) \/ Leave(r) PROVE Held'
    <2>1. ASSUME NEW reply, Answered(r, reply) PROVE Held'
      BY <2>1, AnsweredHeld
    <2>2. CASE Refuse(r) \/ NotFound(r) \/ GiveUp(r)
      BY <2>1, <2>2 DEF Refuse, NotFound, GiveUp
    <2>3. ASSUME NEW c \in Contents, Get(r, c) PROVE Held'
      BY <2>3, GetHeld
    <2>4. CASE Allow(r)
      BY <2>1, <2>4, AllowHeld DEF Allow
    <2>5. ASSUME NEW answer \in Answers, AttemptAnswers(r, answer) PROVE Held'
      BY <2>1, <2>5, Zenon DEF AttemptAnswers
    <2>. QED
      BY <1>2, <2>2, <2>3, <2>4, <2>5, SameHeld, Zenon DEF RequestStep
  <1>3. CASE (\E severity \in Severities : Rescan(severity)) \/ (\E t \in Tiers : SetLicense(t)) \/ UNCHANGED vars
    BY <1>1, <1>3 DEF Rescan, SetLicense, vars
  <1>. QED
    BY <1>2, <1>3, Zenon DEF Next

\* Before the first request nothing is held.
LEMMA InitHeld == Init => Held
  <1>. SUFFICES ASSUME Init PROVE Held
    OBVIOUS
  <1>1. \A r \in Requests : req[r].pc = "idle" /\ req[r].packet = NoPacket
    BY DEF Init, NoLocals
  <1>. QED
    BY <1>1 DEF Held, HeldOK

\* Only the licence check makes a request of a finding.
LEMMA OnlyAllowAsks ==
    ASSUME IInv, Held, Next, NEW r \in Requests, req[r].pc = "found", req'[r].pc = "asking"
    PROVE  req'[r].packet = NewFindingPacket(req[r].finding)
  <1>1. req \in [Requests -> RequestType]
    BY DEF IInv, Shape
  <1>2. ASSUME NEW q \in Requests, NEW x, req' = [req EXCEPT ![q] = x]
        PROVE  q = r /\ x.pc = "asking"
    BY <1>1, <1>2
  <1>3. ASSUME NEW q \in Requests, NEW reply, Answered(q, reply) PROVE FALSE
    BY <1>2, <1>3 DEF Answered, NoLocals
  <1>4. ~UNCHANGED req
    OBVIOUS
  <1>5. ASSUME NEW q \in Requests, RequestStep(q) \/ Leave(q) PROVE Allow(r)
    <2>1. q = r
      <3>1. \E x : req' = [req EXCEPT ![q] = x]
        BY <1>3, <1>5, Zenon DEF RequestStep, Refuse, NotFound, Get, Allow, AttemptFails, AttemptAnswers, Retry, GiveUp, Leave
      <3>. QED
        BY <1>2, <3>1
    <2>2. ~Leave(r)
      <3>1. [req[r] EXCEPT !.gone = TRUE].pc = "found"
        BY Fields DEF RequestType
      <3>. QED
        BY <1>2, <3>1 DEF Leave
    <2>3. /\ ~Refuse(r) /\ ~NotFound(r) /\ ~Retry(r) /\ ~GiveUp(r)
          /\ \A c \in Contents : ~Get(r, c)
          /\ \A resp \in Responses : ~AttemptFails(r, resp)
          /\ \A answer \in Answers : ~AttemptAnswers(r, answer)
      BY DEF Refuse, NotFound, Retry, GiveUp, Get, AttemptFails, AttemptAnswers
    <2>. QED
      BY <1>5, <2>1, <2>2, <2>3 DEF RequestStep
  <1>6. Allow(r)
    BY <1>4, <1>5, Zenon DEF Next, Rescan, SetLicense
  <1>. QED
    BY <1>3, <1>6, AllowHeld DEF Allow

\* NewFindingPacket and SanitizeEvidence: what a request sends holds nothing under a
\* secret-like key, no text that reads as an instruction and nothing past the caps,
\* for evidence of any size and depth (internal/aiclient/evidence.go).
THEOREM PacketsAreBounded == Spec => []PacketIsBounded
  <1>1. ASSUME Held PROVE PacketIsBounded
    <2>. SUFFICES ASSUME NEW r \in Requests, req[r].packet # NoPacket
                  PROVE  /\ BoundedText(req[r].packet.title, maxEvidenceString)
                         /\ BoundedText(req[r].packet.target, maxEvidenceString)
                         /\ BoundedText(req[r].packet.remediation, 2 * maxEvidenceString)
                         /\ BoundedEvidence(req[r].packet.evidence)
      BY Zenon DEF PacketIsBounded
    <2>1. PICK f \in Stored : req[r].packet = NewFindingPacket(f)
      BY <1>1 DEF Held, HeldOK
    <2>. QED
      BY <2>1, StoredPacket, LevelsBounded
  <1>. QED
    BY <1>1, InitHeld, InitHolds, StepKeeps, StepHeld, PTL DEF Spec

\* SanitizeEvidence: the packet of a finding keeps every key and position that the
\* caps leave, down to its depth, and the leaves there (internal/aiclient/evidence.go).
THEOREM PacketsKeepTheRest == Spec => PacketKeepsTheRest
  <1>1. ASSUME IInv, Held, Next, NEW r \in Requests, req[r].pc = "found", req'[r].pc = "asking"
        PROVE  KeptEvidence(Map(req[r].finding.evidence), req'[r].packet.evidence)
    <2>1. req[r].finding \in Stored
      BY <1>1 DEF Held, HeldOK
    <2>2. req'[r].packet = NewFindingPacket(req[r].finding)
      BY <1>1, OnlyAllowAsks
    <2>. QED
      BY <2>1, <2>2, StoredPacket, PairsKept
  <1>2. IInv /\ Held /\ [Next]_vars =>
          [\A r \in Requests : req[r].pc = "found" /\ req'[r].pc = "asking" =>
             KeptEvidence(Map(req[r].finding.evidence), req'[r].packet.evidence)]_vars
    BY <1>1
  <1>. QED
    BY <1>2, InitHeld, InitHolds, StepKeeps, StepHeld, PTL DEF Spec, PacketKeepsTheRest

=============================================================================
