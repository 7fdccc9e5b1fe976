------------------------------ MODULE Pipeline ------------------------------
(***************************************************************************)
(* From a scan to the receivers: the dispatcher (module Dispatcher) fed by *)
(* scans through notify.BindScheduler, its digests put on the wire by the  *)
(* channels (notify/channels.go), and the life of main around it, which    *)
(* closes the dispatcher when the server returns, not when the scheduler   *)
(* has stopped.                                                            *)
(*                                                                         *)
(* A scan's Collect and Reconcile (modules Reconcile and Scheduler) are    *)
(* one step here, which changes what is stored as open and leaves the scan *)
(* with the events of its result.  Scans after an upload run under a       *)
(* background context, so scans may end at any time until the process does.*)
(***************************************************************************)
EXTENDS Dispatcher, Sequences

CONSTANTS
    Scans,      \* scans that hold a worker slot at once
    Settings    \* channel flags the program may be started with

----------------------------------------------------------------------------
\* build refuses flags that contradict each other, and the program does not start.
\* A destination's format is "" where its address is not given; a file is "" (not
\* given), "readable" or "unreadable".  Which networks the external syslog sink
\* takes is as the flags' help says.
Refused(c) ==
    \/ c.evidence \notin {"redacted", "none"}
    \/ c.webhook # "" /\ (c.secretFile = "unreadable" \/ c.webhook \notin {"v1", "v2"})
    \/ c.syslog = "kv" /\ c.network \notin {"udp", "tcp"}
    \/ c.syslog \in {"json", "cef"} /\
         \/ c.network \notin {"udp", "tcp", "tls"}
         \/ c.network = "tls" /\ c.syslogCAFile = "unreadable"
    \/ c.syslog \notin {"", "kv", "json", "cef"}
    \/ c.hec # "" /\ (c.tokenFile # "readable" \/ c.hec # "url" \/ c.hecCAFile = "unreadable")

\* How each channel of the flags c puts a digest on the wire, in the order in
\* which build appends them.
build(c) ==
    LET One(given, how) == IF given THEN <<how>> ELSE <<>> IN
    One(c.webhook # "", "http")
      \o One(c.syslog # "", IF c.network = "udp" THEN "udp" ELSE "tcp")
      \o One(c.exportFile, "file")
      \o One(c.hec # "", "http")

\* Settings that start the program with the channels of the dispatcher.
Started == {c \in Settings : ~Refused(c) /\ DOMAIN build(c) = Channels}

ASSUME PipelineAssumption ==
    /\ Channels # {}
    /\ Started # {}
    /\ IsFiniteSet(Fingerprints)

VARIABLES
    kind,       \* of every channel: "http", "tcp", "udp" or "file"
    open,       \* fingerprints stored as open
    stored,     \* transitions stored so far
    outbox,     \* per scan, the transitions OnResult has yet to hand over
    main,       \* "serving", "returning" (ListenAndServe returned) or "dead" (fatal)
    told,       \* observer: per transition, the event that tells it, or 0
    late,       \* observer: transitions handed to a closed dispatcher
    copies      \* observer: per channel and event, how often the receiver got it

dispatcher == vars
scanning == <<open, stored, outbox>>
pvars == <<dispatcher, kind, scanning, main, told, late, copies>>

----------------------------------------------------------------------------
Transitions == 1 .. MaxCalls

Waiting == UNION {{e.k : e \in outbox[s]} : s \in Scans}

\* main has not returned and os.Exit was not called.
Alive == main # "dead" /\ closer # "returned"

PInit ==
    /\ Init
    /\ kind \in {build(c) : c \in Started}
    /\ open \in SUBSET Fingerprints
    /\ stored = 0
    /\ outbox = [s \in Scans |-> {}]
    /\ main = "serving"
    /\ told = [k \in Transitions |-> 0]
    /\ late = {}
    /\ copies = [ch \in Channels |-> [n \in 1 .. MaxCalls |-> 0]]

----------------------------------------------------------------------------
\* Faulty forms of definitions below, each a slip the code could have made.
ReachedPostIgnoresStatus(frames, ok) == {{}, frames}
MainClosesWhenTold ==
    /\ main = "returning"
    /\ \A ch \in Channels : failed[ch] = {}
    /\ Close
    /\ UNCHANGED <<kind, scanning, main, told, late, copies>>
WindowTimerMissed ==
    /\ Alive
    /\ FlushOrphan
    /\ UNCHANGED <<kind, scanning, main, told, late, copies>>

----------------------------------------------------------------------------
\* The result of a scan that observed the findings found: NewlyOpen and Resolved.
Changes(found) ==
    [kind : {"opened"}, fp : found \ open] \cup [kind : {"resolved"}, fp : open \ found]

\* The numbers that the transitions cs get as they are stored.
Numbering(cs) ==
    LET numbers == stored + 1 .. stored + Cardinality(cs) IN
    CHOOSE f \in [cs -> numbers] : numbers = {f[c] : c \in cs}

\* Collect and Reconcile of a scan, up to the call of OnResult.
Reconcile(s, found) ==
    LET changes == Changes(found)
        number == Numbering(changes)
    IN
    /\ Alive
    /\ outbox[s] = {}
    /\ changes # {}
    /\ stored + Cardinality(changes) <= MaxCalls
    /\ open' = found
    /\ stored' = stored + Cardinality(changes)
    /\ outbox' = [outbox EXCEPT ![s] =
                    {[k |-> number[c], kind |-> c.kind, fp |-> c.fp] : c \in changes}]
    /\ UNCHANGED <<dispatcher, kind, main, told, late, copies>>

\* One call of Enqueue in the loops of BindScheduler: opened findings first.
HandOver(s, e) ==
    LET twins == {g \in pending : Key(g) = <<e.kind, e.fp>>} IN
    /\ Alive
    /\ e \in outbox[s]
    /\ \A c \in outbox[s] : ~Before(c, e)
    /\ outbox' = [outbox EXCEPT ![s] = @ \ {e}]
    /\ \/ /\ Enqueue(e.kind, e.fp)
          /\ told' = [told EXCEPT ![e.k] = accepted']
          /\ UNCHANGED late
       \/ /\ EnqueueDropped(e.kind, e.fp)
          /\ told' = [told EXCEPT ![e.k] = IF twins = {} THEN 0 ELSE (CHOOSE g \in twins : TRUE).n]
          /\ late' = IF closed THEN late \cup {e.k} ELSE late
    /\ UNCHANGED <<kind, open, stored, main, copies>>

\* The timer of the window, and the Flush it calls.
WindowTimer ==
    /\ Alive
    /\ TimerFires \/ Flush \/ FlushOrphan
    /\ UNCHANGED <<kind, scanning, main, told, late, copies>>

----------------------------------------------------------------------------
\* The frames that surely come before e in a digest.
Preceding(frames, e) ==
    {g \in frames : Before(g, e) \/ (e.kind = "resolved" /\ g.kind = "resolved" /\ g.n < e.n)}

LinePrefixes(frames) == {p \in SUBSET frames : \A e \in p : Preceding(frames, e) \subseteq p}

\* The frames that may have reached the receiver when Send returns.  A webhook has
\* one body: a 2xx says that it arrived, an error leaves it open.
ReachedPost(frames, ok) == IF ok THEN {frames} ELSE {{}, frames}

\* The syslog channel writes line by line and stops at the first error; what was
\* written may be lost on the way, over TCP from the end, over UDP anywhere.
ReachedLines(network, frames, ok) ==
    LET written == IF ok THEN {frames} ELSE LinePrefixes(frames) \ {frames} IN
    IF network = "udp" THEN UNION {SUBSET p : p \in written} ELSE UNION {LinePrefixes(p) : p \in written}

\* The file sink (not in this repository) appends lines and reports what it could not.
Reached(how, frames, ok) ==
    CASE how = "http" -> ReachedPost(frames, ok)
      [] how = "file" -> IF ok THEN {frames} ELSE LinePrefixes(frames)
      [] OTHER -> ReachedLines(how, frames, ok)

\* One attempt of sendWithRetry, with what it put on the wire.
Attempt(s) ==
    /\ Alive
    /\ \E ok \in BOOLEAN : \E arrived \in Reached(kind[s.ch], s.frames, ok) :
         /\ IF ok THEN SendSucceeds(s) ELSE SendFails(s)
         /\ copies' = [copies EXCEPT ![s.ch] =
              [n \in DOMAIN @ |-> IF n \in Numbers(arrived) THEN @[n] + 1 ELSE @[n]]]
    /\ UNCHANGED <<kind, scanning, main, told, late>>

----------------------------------------------------------------------------
\* A signal: the goroutine calls Shutdown, at which ListenAndServe returns.
Shutdown ==
    /\ main = "serving"
    /\ main' = "returning"
    /\ UNCHANGED <<dispatcher, kind, scanning, told, late, copies>>

\* ListenAndServe fails otherwise: os.Exit, with no deferred call.
Fatal ==
    /\ main = "serving"
    /\ main' = "dead"
    /\ UNCHANGED <<dispatcher, kind, scanning, told, late, copies>>

\* The deferred Close of main; the goroutine may still be in Shutdown or in Stop.
MainCloses ==
    /\ main = "returning"
    /\ Close
    /\ UNCHANGED <<kind, scanning, main, told, late, copies>>

\* main returns and the process ends.
MainReturns ==
    /\ CloseReturns
    /\ UNCHANGED <<kind, scanning, main, told, late, copies>>

PNext ==
    \/ \E s \in Scans :
         \/ \E found \in SUBSET Fingerprints : Reconcile(s, found)
         \/ \E e \in outbox[s] : HandOver(s, e)
    \/ WindowTimer
    \/ \E s \in sends : Attempt(s)
    \/ Shutdown \/ Fatal \/ MainCloses \/ MainReturns

PSpec == PInit /\ [][PNext]_pvars

\* OnResult runs on, timers fire, an attempt ends within its 15 s, main's deferred
\* calls run.  Nothing obliges a scan to end or a signal to come.
PFairness ==
    /\ \A s \in Scans : WF_pvars(\E e \in outbox[s] : HandOver(s, e))
    /\ WF_pvars(WindowTimer)
    /\ WF_pvars(\E s \in sends : Attempt(s))
    /\ WF_pvars(MainCloses)
    /\ WF_pvars(MainReturns)

FairPSpec == PSpec /\ PFairness

----------------------------------------------------------------------------
\* A transition that a scan stored and handed over is told by an event that was in
\* the open window then, so that it leaves after the transition, or by none only
\* because main had closed the dispatcher before its scan got there: deduplication
\* never counts on a digest that has already left.
ToldAfterwards ==
    /\ \A k \in 1 .. stored : k \notin Waiting => told[k] \in 1 .. accepted \/ k \in late
    /\ late # {} => main = "returning"

\* What the receivers have: nothing of a window still open, an event at most once
\* per attempt of its digest, so at most Retries times, and every
\* event of a digest that HTTP or the file answered for; over syslog not even that.
ReceivedFits ==
    \A ch \in Channels :
        /\ \A e \in pending : copies[ch][e.n] = 0
        /\ \A s \in sends : s.ch = ch => \A e \in s.frames : copies[ch][e.n] <= s.attempt
        /\ \A n \in DOMAIN copies[ch] : copies[ch][n] <= Retries
        /\ kind[ch] \in {"http", "file"} => \A n \in answered[ch] : copies[ch][n] > 0

Unsettled == Waiting # {} \/ pending # {} \/ sends # {}

\* While main serves, everything that scans stored is in time handed over and
\* answered or reported on every channel.
StoredSettles == Unsettled ~> (~Unsettled \/ main # "serving")

\* A shutdown ends: main does not wait for scans, and the digests it waits for
\* have a bounded number of attempts.
ShutdownEnds == main = "returning" ~> closer = "returned"

=============================================================================
