------------------------------- MODULE Assist -------------------------------
(***************************************************************************)
(* AI Assist, "explain this finding" (web/ai.go, internal/aiclient): a     *)
(* request reads one finding, checks the licence, posts a packet to the    *)
(* sidecar with retries, and shows what the output guards leave of the     *)
(* answer.  Meanwhile a scan may change the finding and a key the licence. *)
(*                                                                         *)
(* The sidecar is external: it answers anything, late or never.  A text is *)
(* the sequence of its sentences; a sentence is what the guards' patterns  *)
(* find in it (a severity word, a status claim) and its length.  Prompt    *)
(* wording, language and the model's parameters are left out.              *)
(***************************************************************************)
EXTENDS Evidence

CONSTANTS
    Requests,
    Tiers,
    Severities,     \* severities a scan may give the finding
    Answers,        \* bound: texts and lists of checks a model answers with
    Contents,       \* bound: free text and evidence of a finding, and whether it is complete
    RetryLimits,    \* c.maxRetries: 0 by NewAIAssist, 2 by default
    minGroundedExplanation

\* A sentence: the severity word the patterns find in it, or "none".
Sentences == [states : STRING, claim : BOOLEAN, len : Nat]

ASSUME AssistAssumption ==
    /\ RetryLimits \subseteq Nat
    /\ minGroundedExplanation \in Nat \ {0}
    /\ "none" \notin Severities
    /\ Answers \subseteq [text : Seq(Sentences), verify : Seq(Seq(Sentences))]
    /\ \A c \in Contents : c.text \in TextValues /\ Map(c.evidence) \in Values

VARIABLES
    ai,         \* s.AI as NewAIAssist made it: "off", "open" or "keyed"
    maxRetries, \* c.maxRetries
    tier,       \* s.activation
    row,        \* severity of the stored finding, "none" before a scan stored it
    req,        \* per request, the locals of handleExplainFinding and Explain
    during      \* observer: per request, tiers and severities in force since it began

config == <<ai, maxRetries>>
vars == <<config, tier, row, req, during>>

----------------------------------------------------------------------------
Paid == {"pro", "team"}

\* What comes back of a POST: no answer at all, or a status and a body.
Statuses == {"below400", "4xx", "5xx"}
BadBodies == {"cut", "notJSON", "error", "noExplanation"}
NoAnswer == [status |-> "none", body |-> "none"]
Answer == [status |-> "below400", body |-> "answer"]
Responses == {NoAnswer} \cup [status : Statuses, body : BadBodies \cup {"answer"}]

NoPacket == [severity |-> "none"]
NoReply == [kind |-> "none"]
Reply(kind) == [kind |-> kind]

\* A request whose handler holds nothing: not begun, or returned.
NoLocals(pc, gone, reply) ==
    [pc |-> pc, finding |-> NoPacket, packet |-> NoPacket, log |-> <<>>, gone |-> gone, reply |-> reply]

Active(r) == req[r].pc \notin {"idle", "replied"}

----------------------------------------------------------------------------
\* Faulty forms of definitions below, each a slip the code could have made.
aiAllowedByConfig == ai = "open"
sameSeverityAny(engine) == {engine, "critical", "high", "medium", "moderate", "low", "info"}
doRequestAllTransient(resp) ==
    IF resp.status = "below400" /\ resp.body = "answer" THEN "ok" ELSE "retryable"
NewAIAssistUnchecked(url, keyFile) ==
    CASE url = "" -> "off"
      [] url # "" /\ keyFile = "key" -> "keyed"
      [] OTHER -> url
RetryNever(r) ==
    /\ req[r].pc = "backoff"
    /\ req[r].gone
    /\ req' = [req EXCEPT ![r].pc = "asking"]
    /\ UNCHANGED <<config, tier, row, during>>

----------------------------------------------------------------------------
\* NewAIAssist: the flags give no AI Assist, one without or one with an API key;
\* a URL that is not http(s), or a key file that is unreadable or empty, ends main.
NewAIAssist(url, keyFile) ==
    CASE url = "" -> "off"
      [] url = "bad" -> "error"
      [] url = "http" /\ keyFile = "" -> "open"
      [] url = "http" /\ keyFile = "key" -> "keyed"
      [] OTHER -> "error"

\* aiAllowed.
aiAllowed == ai = "open" \/ (ai = "keyed" /\ tier \in Paid)

\* The severity words that say the same as the engine's.
sameSeverity(engine) ==
    CASE engine \in {"info", "informational"} -> {"info", "informational"}
      [] engine \in {"medium", "moderate"} -> {"medium", "moderate"}
      [] OTHER -> {engine}

Conflicts(s, engine) == s.states # "none" /\ s.states \notin sameSeverity(engine)

\* The loop of the guards: it appends the items at the positions of keep.
KeptItems(s, keep) ==
    LET kept[i \in 0 .. Len(s)] ==
          IF i = 0 THEN <<>>
          ELSE IF i \in keep THEN Append(kept[i - 1], s[i])
          ELSE kept[i - 1]
    IN kept[Len(s)]

\* dropConflictingSeverity, which falls back to the text as it was.
dropConflictingSeverity(text, engine) ==
    LET kept == KeptItems(text, {i \in DOMAIN text : ~Conflicts(text[i], engine)}) IN
    IF kept = <<>> THEN text ELSE kept

dropStatusClaims(text) == KeptItems(text, {i \in DOMAIN text : ~text[i].claim})

\* Runes of a text.
Runes(text) ==
    LET sum[i \in 0 .. Len(text)] == IF i = 0 THEN 0 ELSE sum[i - 1] + text[i].len
    IN sum[Len(text)]

\* applyOutputGuards: the explanation and the checks that are left of an answer.
Guarded(answer, engine) ==
    LET checks == [i \in DOMAIN answer.verify |-> dropStatusClaims(answer.verify[i])] IN
    [text   |-> dropStatusClaims(dropConflictingSeverity(answer.text, engine)),
     verify |-> KeptItems(checks, {i \in DOMAIN checks : checks[i] # <<>>})]

Rejected(exp) == Runes(exp.text) < minGroundedExplanation

\* doRequest and isRetryable, in the order of their tests.
doRequest(resp) ==
    CASE resp.status = "none" \/ resp.body = "cut" -> "retryable"
      [] resp.status = "5xx" /\ resp.body # "cut" -> "retryable"
      [] resp.status = "4xx" /\ resp.body # "cut" -> "final"
      [] resp.status = "below400" /\ resp.body = "error" -> "retryable"
      [] resp.status = "below400" /\ resp.body = "answer" -> "ok"
      [] OTHER -> "final"

\* The loop of Explain has an attempt left after those of log.
attemptsLeft(log) == Len(log) <= maxRetries

----------------------------------------------------------------------------
Init ==
    /\ \E url \in {"", "bad", "http"}, keyFile \in {"", "key", "empty"} :
         /\ ai = NewAIAssist(url, keyFile)
         /\ ai # "error"
    /\ maxRetries \in RetryLimits
    /\ tier \in Tiers
    /\ row \in Severities \cup {"none"}
    /\ req = [r \in Requests |-> NoLocals("idle", FALSE, NoReply)]
    /\ during = [r \in Requests |-> [tiers |-> {}, severities |-> {}]]

\* The handler writes its reply and returns; its locals are gone.
Answered(r, reply) ==
    req' = [req EXCEPT ![r] = NoLocals("replied", req[r].gone, reply)]

\* The request, up to Store.Get: refused, not found, or the finding as stored.
Refuse(r) ==
    /\ req[r].pc = "idle"
    /\ \E kind \in {"400", "500"} : Answered(r, Reply(kind))
    /\ UNCHANGED <<config, tier, row, during>>

NotFound(r) ==
    /\ req[r].pc = "idle"
    /\ row = "none"
    /\ Answered(r, Reply("404"))
    /\ UNCHANGED <<config, tier, row, during>>

Get(r, c) ==
    /\ req[r].pc = "idle"
    /\ row # "none"
    /\ req' = [req EXCEPT ![r].pc = "found",
                          ![r].finding = [severity |-> row, text |-> c.text,
                                          evidence |-> c.evidence, complete |-> c.complete]]
    /\ during' = [during EXCEPT ![r] = [tiers |-> {tier}, severities |-> {row}]]
    /\ UNCHANGED <<config, tier, row>>

\* aiAllowed and NewFindingPacket; then Explain makes its first attempt.
Allow(r) ==
    /\ req[r].pc = "found"
    /\ \/ /\ ~aiAllowed
          /\ Answered(r, Reply("off"))
       \/ /\ aiAllowed
          /\ ~req[r].finding.complete
          /\ Answered(r, Reply("incomplete"))
       \/ /\ aiAllowed
          /\ req[r].finding.complete
          /\ req' = [req EXCEPT ![r].pc = "asking", ![r].finding = NoPacket,
                                ![r].packet = NewFindingPacket(req[r].finding)]
    /\ UNCHANGED <<config, tier, row, during>>

\* An attempt of Explain ends without an answer to show.
AttemptFails(r, resp) ==
    LET log == Append(req[r].log, resp) IN
    /\ req[r].pc = "asking"
    /\ doRequest(resp) # "ok"
    /\ \/ /\ doRequest(resp) = "retryable"
          /\ attemptsLeft(log)
          /\ req' = [req EXCEPT ![r].pc = "backoff", ![r].log = log]
       \/ /\ doRequest(resp) = "final" \/ ~attemptsLeft(log)
          /\ Answered(r, [kind |-> "unavailable", log |-> log])
    /\ UNCHANGED <<config, tier, row, during>>

\* An attempt ends with an answer of the required form.
AttemptAnswers(r, answer) ==
    LET exp == Guarded(answer, req[r].packet.severity) IN
    /\ req[r].pc = "asking"
    /\ doRequest(Answer) = "ok"
    /\ \/ /\ Rejected(exp)
          /\ Answered(r, Reply("withheld"))
       \/ /\ ~Rejected(exp)
          /\ Answered(r, [kind |-> "shown", answer |-> answer, shown |-> exp])
    /\ UNCHANGED <<config, tier, row, during>>

\* The backoff is over; or the caller has gone and Explain returns ctx.Err().
Retry(r) ==
    /\ req[r].pc = "backoff"
    /\ req' = [req EXCEPT ![r].pc = "asking"]
    /\ UNCHANGED <<config, tier, row, during>>

GiveUp(r) ==
    /\ req[r].pc = "backoff"
    /\ req[r].gone
    /\ Answered(r, [kind |-> "unavailable", log |-> req[r].log])
    /\ UNCHANGED <<config, tier, row, during>>

\* The browser closes the connection.
Leave(r) ==
    /\ Active(r)
    /\ ~req[r].gone
    /\ req' = [req EXCEPT ![r].gone = TRUE]
    /\ UNCHANGED <<config, tier, row, during>>

----------------------------------------------------------------------------
\* A scan stores the finding, or stores it with another severity.
Rescan(severity) ==
    /\ severity # row
    /\ row' = severity
    /\ during' = [r \in Requests |->
         IF Active(r) THEN [during[r] EXCEPT !.severities = @ \cup {severity}] ELSE during[r]]
    /\ UNCHANGED <<config, tier, req>>

\* handleSetLicense with a key, or with none.
SetLicense(t) ==
    /\ t # tier
    /\ tier' = t
    /\ during' = [r \in Requests |->
         IF Active(r) THEN [during[r] EXCEPT !.tiers = @ \cup {t}] ELSE during[r]]
    /\ UNCHANGED <<config, row, req>>

RequestStep(r) ==
    \/ Refuse(r)
    \/ NotFound(r)
    \/ \E c \in Contents : Get(r, c)
    \/ Allow(r)
    \/ \E resp \in Responses : AttemptFails(r, resp)
    \/ \E answer \in Answers : AttemptAnswers(r, answer)
    \/ Retry(r)
    \/ GiveUp(r)

Next ==
    \/ \E r \in Requests : RequestStep(r) \/ Leave(r)
    \/ \E severity \in Severities : Rescan(severity)
    \/ \E t \in Tiers : SetLicense(t)

Spec == Init /\ [][Next]_vars

\* Handlers run, an attempt ends within c.timeout (it fails unless it is answered
\* before), and the backoff timer fires.
Fairness ==
    \A r \in Requests :
        /\ WF_vars(Allow(r))
        /\ WF_vars(\E resp \in Responses : AttemptFails(r, resp))
        /\ WF_vars(Retry(r))

FairSpec == Spec /\ Fairness

----------------------------------------------------------------------------
\* The shape of the requests' state.
TypeOK ==
    /\ ai \in {"off", "open", "keyed"}
    /\ maxRetries \in RetryLimits
    /\ tier \in Tiers
    /\ row \in Severities \cup {"none"}
    /\ \A r \in Requests :
         /\ req[r].pc \in {"idle", "found", "asking", "backoff", "replied"}
         /\ req[r].log \in Seq(Responses)
         /\ req[r].gone \in BOOLEAN
         /\ req[r].reply.kind \in {"none", "400", "404", "500", "off", "incomplete",
                                   "unavailable", "withheld", "shown"}
         /\ during[r].tiers \subseteq Tiers
         /\ during[r].severities \subseteq Severities

\* A sentence states a severity that none of seen is, or is a synonym of.
WrongOf(s, seen) ==
    s.states # "none" /\ \A e \in seen :
        {s.states, e} \notin {{e}, {"medium", "moderate"}, {"info", "informational"}}

\* An explanation that is shown claims no change of status, in its text or in its
\* checks; it is long enough to be one; and a severity it states is one the finding
\* has had while the request ran, a scan or not, unless every sentence of the model's
\* answer had one that is wrong (then dropConflictingSeverity gives up).
ShownIsGrounded ==
    \A r \in Requests : req[r].reply.kind = "shown" =>
        LET answer == req[r].reply.answer
            shown == req[r].reply.shown
            seen == during[r].severities
            Texts_ == {shown.text} \cup {shown.verify[i] : i \in DOMAIN shown.verify}
        IN /\ \A t \in Texts_ : t # <<>> /\ \A i \in DOMAIN t : ~t[i].claim
           /\ Runes(shown.text) >= minGroundedExplanation
           /\ (\E i \in DOMAIN shown.text : WrongOf(shown.text[i], seen)) =>
                \E e \in seen : \A i \in DOMAIN answer.text : WrongOf(answer.text[i], {e})

\* An endpoint with an API key is asked only by a request during which a Pro or
\* Team licence was in force, and a request is told that the licence is missing
\* only if it was at some moment of the request: the check is of now, not of start-up.
KeyedFollowsLicence ==
    \A r \in Requests : ai = "keyed" =>
        /\ req[r].pc \in {"asking", "backoff"} => during[r].tiers \cap Paid # {}
        /\ req[r].reply.kind = "off" => during[r].tiers \ Paid # {}

\* A failure that the comments of aiclient call retryable: the transport failed
\* before or within the answer, or the answer is an HTTP 5xx.
MayPass(resp) == resp.status \in {"none", "5xx"} \/ resp.body = "cut"

\* "Some OpenAI-compatible servers answer 200 with an error body": doRequest calls
\* that retryable too, although those comments name no such failure and such a body
\* may say "context length exceeded", which the same request cannot pass.
ReportsError(resp) == resp.status = "below400" /\ resp.body = "error"

Repeatable(resp) == MayPass(resp) \/ ReportsError(resp)

\* What a request has tried, while it runs and when it is given up.
Tried(r) == IF req[r].reply.kind = "unavailable" THEN req[r].reply.log ELSE req[r].log

\* Explain repeats only what may pass, with the exception of ReportsError: every attempt that was
\* followed by another had no complete answer, an HTTP 5xx, or a body that reports an
\* error, never a complete 4xx or an answer of the wrong form; there are at most
\* maxRetries of them; and a request whose caller stayed is given up only when
\* nothing was left to try.
RetriesOnlyWhatMayPass ==
    \A r \in Requests :
        LET unavailable == req[r].reply.kind = "unavailable"
            log == Tried(r)
        IN /\ Len(log) <= maxRetries + 1
           /\ \A i \in 1 .. Len(log) : i < Len(log) \/ ~unavailable => Repeatable(log[i])
           /\ unavailable /\ ~req[r].gone => Len(log) = maxRetries + 1 \/ ~Repeatable(log[Len(log)])

\* What is sent of a finding holds no instruction-like or overlong text; of its
\* evidence nothing under a secret-like key at any level, no map or list past the
\* caps, and nothing nested deeper than three levels (a []string is a leaf there).
PacketIsBounded ==
    \A r \in Requests : LET packet == req[r].packet IN
        packet # NoPacket =>
            /\ BoundedText(packet.title, maxEvidenceString)
            /\ BoundedText(packet.target, maxEvidenceString)
            /\ BoundedText(packet.remediation, 2 * maxEvidenceString)
            /\ BoundedEvidence(packet.evidence)

\* Nothing else is lost: when a finding becomes a packet, every step that the caps
\* leave is in the copy, down to the third level and in a []string there, and the
\* leaves at its end are kept; the secret-like keys beside it take no place of the caps.
PacketKeepsTheRest ==
    [][\A r \in Requests : req[r].pc = "found" /\ req'[r].pc = "asking" =>
          KeptEvidence(Map(req[r].finding.evidence), req'[r].packet.evidence)]_vars

\* Every request is answered, whatever the sidecar does and also when the caller
\* leaves between two attempts.
EveryRequestAnswered == \A r \in Requests : Active(r) ~> req[r].pc = "replied"

=============================================================================
