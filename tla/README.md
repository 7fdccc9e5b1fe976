# DmarcWatch: TLA+ models, checks and proofs

DmarcWatch is one Go process: a dashboard and its HTTP API (`web/`), a scan
scheduler (`sched/`), a collector that turns uploaded DMARC reports into
findings (`dmarcwatch/`, `dmarcrep/`), a reconcile engine that keeps the
findings table (`store/`), and a dispatcher that notifies channels (`notify/`).
This directory models the parts that keep state and run concurrently.

## 1. Inventory

| Component | State | Operations | Talks to |
|---|---|---|---|
| Reconcile engine (`store/reconcile.go`) | none of its own; snapshot `byFP` per call | `Reconcile` | store calls, one statement each |
| Findings store (`store/sqlite.go`) | table `findings`, table `targets` | `ListByTarget`, `Get`, `Upsert`, `SaveTarget`, `DeleteTarget`, ... | SQLite |
| Status requests (`web/server.go` `handleFindingStatus`) | the row it read | `Get`, then `Upsert` | findings store |
| Scheduler (`sched/scheduler.go`) | registry of targets, worker slots, per-target failures and gates | `Start`, `AddTarget`, `RemoveTarget`, `ScanNow`, `Stop`, the module loop, `scanOne` | collector, engine, `OnResult` |
| Dispatcher (`notify/notify.go`) | window (`pending`, `seen`, `timer`), `closed`, send goroutines | `Enqueue`, `Flush`, `Close`, `sendWithRetry` | channels |
| Channels (`notify/channels.go`, `hfs.go`, `cmd/dmarcwatch/channels.go`) | none; built from flags at start-up | `build`, `Send` | network |
| `main` (`cmd/dmarcwatch/main.go`) | server, signal context, deferred calls | start, shutdown, fatal end | everything |
| Target and license requests (`web/server.go`, `license/`) | registry, `targets` table, license file, `activation` | add, remove, set license, restart | scheduler, store, file |
| Report store and upload (`dmarcwatch/sqlite.go`, `console.go`) | tables `dmarc_reports`, `dmarc_rows` | `PutReport`, `Overview`, `Prune`, `handleUpload` | scheduler (`OnIngest`) |
| Collector rules (`dmarcwatch/dmarcwatch.go`) | none | `Collect`, `ValidateTarget` | report store |
| Report parser (`dmarcrep/`) | none | `ParseFile` | - |
| AI assist (`web/ai.go`, `internal/aiclient/`) | `s.AI`, fixed at start-up; a request's packet and attempts | explain one finding | findings store, activation, sidecar over HTTP |
| Domain verification (`verify/`) | challenges | not wired into this program | - |

How they interact: a scan (a goroutine of a sweep, of `AddTarget` or of
`ScanNow`) takes a worker slot, calls `Collect`, then `Reconcile`, then
`OnResult`, which enqueues every newly open and every resolved finding. An
upload stores reports and starts `ScanNow` in the background. Status requests
write the same findings table as scans do. Nothing serialises two scans of the
same target, or a scan and a status request.

What is hard here, and what makes each part correct:

- *Engine and table*: overlapping scans and requests write back whole rows from
  old snapshots; a scan may fail or the process die between two statements. A
  row must keep its identity, a resolution must rest on absences, a suppression
  is the user's, and what is announced must be what is stored.
- *Dispatcher*: a timer may fire just before its window is flushed by somebody
  else; sends retry for a long time; Close races all of this. No event may be
  lost or sent in two digests, and Close must return with nothing left.
- *Scheduler*: three kinds of scans compete for slots; cancellation races
  `AddTarget` and `ScanNow`. A slot is given back exactly as often as it is
  taken, the backoff rule holds, no scan and no target starves, and Stop ends.
- *Targets and license*: check-then-act on the tier limit, two copies of the
  target list and of the license that a restart makes visible, and a start that
  goes on without them when it cannot read them.
- *Scans to receivers*: `main` closes the dispatcher before the scheduler has
  stopped, deduplication may only drop what a later digest still tells, and a
  retry repeats a digest of which any part has arrived.
- *AI assist*: a request lasts minutes while licence and finding change; an
  attempt may fail in ways that are worth a retry and in ways that are not; what
  is sent must be filtered on every path through the evidence, and what is shown
  must survive two guards of which the first can fall back.
- *Reports*: an overview is computed by several statements without a
  transaction; an upload may fail half way.

`PROJECT.json` lists the hazards line by line.

## 2. Modules

| Module | Models |
|---|---|
| `Reconcile` | engine, findings table, scans and status requests for one (module, target), one action per store call |
| `FindingLedger` | abstract promise of the engine to its listener: changes alternate, each is announced once, before the next |
| `ReconcileSerial` | `Reconcile` with one goroutine at a time, and its refinement mapping to `FindingLedger` |
| `Dispatcher` | the notification dispatcher |
| `Pipeline` | extends `Dispatcher`: scans that hand over their events, the channels on the wire, `main` from start-up flags to its deferred `Close` |
| `Scheduler` | the scan scheduler |
| `Targets` | add, remove and license requests, tier limits, the `targets` table, the license file, restart |
| `Collector` | the queries of `Overview` and the rules of `Collect`, as operators over the two report tables |
| `Reports` | uploads, the report tables, and collects that prune and read them; extends `Collector` |
| `Evidence` | the filter of what AI assist sends, as operators over tagged values |
| `Assist` | an explanation request with retries and guards, racing scans and license requests; extends `Evidence` |
| `MCReconcile`, `MCPipeline`, `MCScheduler`, `MCTargets`, `MCReports`, `MCAssist` | instances for TLC |
| `Induction` | induction and recursion over the natural numbers, stated over sets, for the proofs |
| `ReconcileProofs`, `DispatcherProofs`, `PipelineProofs`, `SchedulerProofs`, `TargetsProofs`, `ReportsProofs`, `AssistProofs` | theorems and proofs |

Each module with checks has a section of *faulty forms*: variants of its
definitions, each a slip the code could have made, that show which property
would notice it.

### Reconcile

A row keeps `id`, `status`, `resolvedAt` and `streak`; title, severity,
evidence and `last_seen` are overwritten by every upsert and decide nothing,
`first_seen` is written exactly when `id` is. Status `"none"` is the absence of
a row. `Upsert` is the SQL statement: on conflict everything but `id` and
`first_seen` is replaced. `world` is what a `Collect` started now would return;
it may change at any time. A scan is `Collect`, `ListByTarget`, `UpsertFresh`
per reported finding, `UpsertAbsent` per open finding that was not reported,
`OnResult`; `StoreError` and `Crash` can cut it short. A request is `StatusGet`
and `StatusUpsert` (or `StatusError`). `told` and `misses` are observers: the
last event handed to `OnResult`, and the number of consecutive collects that
missed a finding. Findings that fail `ValidateForIngest` are left out: the
collector always fills the required fields and they never reach the table.
DmarcWatch itself sets `ResolveAfter` to 1; the passing runs use 2, where the
streak matters, and the violations use 1.

### Dispatcher

Main registers one module, so a window is one digest. Events are numbered as
they are accepted. A timer is none, armed, or fired (its `Flush` waits for the
mutex). When `flushLocked` drops a timer that has fired, that `Flush` still
comes: it is an *orphan* and flushes the window it finds. A send goroutine is
`[ch, frames, attempt]`. An attempt that fails may have delivered nothing, a
part, or everything. `answered` and `failed` are observers.

### Pipeline

`Pipeline` has the dispatcher's variables and actions and gives them their
surroundings. A scan's `Collect` and `Reconcile` are one step that changes the
set of open findings and leaves the transitions in the scan's `outbox`
(`Reconcile`; its inside is module `Reconcile`); `BindScheduler` hands them over
one by one, opened before resolved, each a call of `Enqueue` (`HandOver`). Scans
after an upload run under a background context, so they may end until the
process does.

The channels are those that `build` makes of the flags; flags that contradict
each other stop the program (`Refused`). An attempt of `sendWithRetry` (`Attempt`)
chooses what has reached the receiver when `Send` returns: over HTTP the whole
body, or, after an error, the whole body or nothing; over syslog a prefix of the
lines, because `Send` stops at the first error, of which TCP may lose a tail and
UDP any part, also when `Send` returned nil. The sinks of hexward-core are not in
this repository; they are taken to behave as their transport does. `main` serves,
gets a signal (`Shutdown`: `ListenAndServe` returns at once), closes the
dispatcher and ends; or `ListenAndServe` fails and `fatal` ends the process
without any deferred call. `told`, `late` and `copies` are observers: the event
that tells a transition, the transitions that came to a closed dispatcher, and
how often a receiver got an event.

### Scheduler

`sem` is the slot channel of `scanOne`: a scan sends to it (`Acquire`) or gives up
without a slot (`GiveUp`), and every return after that takes a slot out again, which
is the deferred receive (`Returns`). Between the two it collects, which may fail or
see its context end (`CollectFails`), and reconciles, which knows no context
(`ReconcileEnds`); the inside of both is module `Reconcile`. Time is counted in ticks of the backoff gates and a sweep may begin
at any time, which covers every interval and jitter. `AddTarget` is three steps
(critical section, context test, spawn) because the last two are outside the
lock. `Jobs` bounds the goroutines alive at once and `MaxFailures` the failure
count.

### Targets

Each call of a request on the registry, the table, the license file or the
activation is an action. `Canonical` is `ValidateTarget`. The table keeps the
first raw input of a domain (`ON CONFLICT DO NOTHING`), so the text shown after
a restart may differ from the one typed last; the domain does not. `Limit` is
the number behind a tier's limit, with `Cardinality(Domains)` for "unlimited";
tier `"other"` is a signed key of an unknown tier, which is not in the product's
table and gets the generic free limits. The open-source build, which has no
issuer key, is the instance in which every key grants `"invalid"`.

A restart (`Restart`) may end a `WriteFile` half way. It adds every saved input
again, but only if `ListSavedTargets` returns no error: otherwise `main` goes on
with an empty registry and says nothing. `NewServer` likewise takes the empty key
when the license file cannot be read. Each of the two happens or not, at every
restart.

Four observers follow what the code makes of this. `apart` gives, per domain, the
reason why registry and table may differ: requests on it overlapped, its save or
its delete failed, or the last start could not list the table. `fileApart` does the
same for the tier in force and the license file: a request wrote over the key of
another that was not yet in force, a write cut the file short, or the last start
could not read it. A later request that runs
alone, or a restart that can read, takes the reason back. `RestartRestores` and
`LicenseSurvivesRestart` say what each reason allows, so a difference is never
just excused: a domain whose delete failed is not watched until the next start, one
that could not be listed is still in the table whatever is done to the others. Only
an add and a remove of the very same domain that overlap, or a license request that
writes the file between the write and the activation of another, leaves either
outcome. So two sentences of the code hold with exceptions only: `store/targets.go`
says that a restart restores the targets "exactly", which a start that cannot list
them does not; and `web/server_test.go` that a key "must be persisted for the next
restart", which two requests that cross undo.
`revived` (domains that only a restart brought back, which checks no limit) and
`top` (the highest limit so far) serve `LimitOvershoot`.

### Collector and Reports

`tables` holds the stored reports and how often the records of each are in
`dmarc_rows`. `PutReport` is one transaction, `Prune` two statements whose
errors `Collect` drops, `Overview` six statements (the first one ends it when
there is no data, the second fails when the data has gone since). An upload is
the sequence of the members of its files; a member that does not parse, or of a
domain that is not a target, is skipped alone. The set of targets is fixed:
`Targets` changes it. Time is in days, and percentages are compared exactly,
where the code compares floats. `owed` and the field `known` of a collect are
observers of which stored reports a collect has read.

`ORDER BY end_at DESC LIMIT 1` returns any of the latest reports. A torn
overview can still be wrong about what is not bound to one source (a drop of
alignment, the policy): the next collect corrects it.

### Evidence and Assist

A value of the evidence is a tagged record, text is its length and whether it
reads as an instruction, and a key is a number in sorted order. `sanitizeValue`
recurses to a fixed depth of three and is written out, one operator per depth, so
that no recursion is needed. `Values` is a set of values that holds the parts of
each of its members; that is all the model knows of the evidence.

The rule that the copy must meet is stated on its own, level by level:
`BoundedEvidence` goes down through the parts of what is sent, `KeptEvidence`
through the pairs of an original and its copy along the steps that the caps leave.

A request is `Get` (with `Refuse` and `NotFound`), `Allow` (licence and packet),
attempts (`AttemptFails`, `AttemptAnswers`) with `Retry` or `GiveUp` between them;
`Leave` is the caller who goes. The sidecar is external: it answers anything,
late or never. An answer is the sequence of its sentences, and a sentence is what
the guards' patterns find in it: a severity word, a status claim, and its length.
The patterns themselves, the prompt, the language and the request's parameters
are left out, as are the fields of a finding that are sent as they are (check,
fingerprint, status). When every sentence of an answer conflicts with the severity
that was sent, `dropConflictingSeverity` returns it as it was; its comment says so,
and `ShownIsGrounded` makes that exception, for an answer all of whose sentences are
wrong for one severity that the finding had. `MayPass` is what the client's comments
call retryable: no answer, a body cut short, or a 5xx. `doRequest` also retries an
answer below 400 whose body reports an error (`ReportsError`);
`RetriesOnlyWhatMayPass` names that exception. The comments do not: by them
(`client.go:119-120`, `388-392`) only connection errors and 5xx are retried, and
`client.go:302-305` gives "context length exceeded" as such a body, which the same
request cannot pass. `during` is an observer of the tiers and
severities in force since the request began.

## 3. Runs

| Run | Result | What it shows |
|---|---|---|
| `reconcile_serial` | pass | one goroutine at a time: events say what the table says, under the id of that row alone; resolution after `ResolveAfter` absences; only users end a suppression; `FindingLedger` is implemented |
| `reconcile_overlap` | pass | two scans, a request and a fault interleaved: identity is kept, resolutions are settled, the table finally agrees with the collector |
| `lost_suppression` | violation | a scan writes an old row over a suppression |
| `foreign_id` | violation | two scans insert the same finding; one announces an id nobody has |
| `lost_event` | violation | a store error after a first upsert: stored, never announced |
| `pipeline` | pass | windows, timers, retries, lost lines and answers, Close before the scheduler stops: events are conserved, every stored transition is told or came after Close, everything settles, a shutdown ends |
| `scheduler` | pass | slots are neither lost nor given back twice, every waiting scan is served, the target is scanned again and again, the backoff rule, no sweep left after `Stop`, `Stop` returns |
| `stop_scans` | violation | a `ScanNow` scan outlives `Stop`, or `AddTarget` tests the context before `Stop` and starts its scan after it |
| `targets` | pass | registry and table differ on a domain only for a reason of its own and in the way it says, restarts that cannot list the table included; the limit is overshot only by requests that overlap |
| `license` | pass | two license requests in every overlap: between requests the tier in force is the file's, but for a cut file, an unread one and requests that cross |
| `assist` | pass | what is sent is bounded and has all that the caps leave, what is shown is grounded, the licence is the request's, retries repeat only transport failures, 5xx and error bodies, every request is answered |
| `reports` | pass | retained reports are counted once, the totals a collect reads are those of the stored reports, an ended upload's reports are read by a collect, a torn overview invents nothing about a source |

Bounds. `reconcile_serial`: two findings (ids and announcements of one must not
be mixed with the other's), one scan, one user, four changes of the collector's
answer (absent twice, back, absent twice), two requests. `reconcile_overlap`:
one finding, two scans, three changes, one request, one fault: every overlap of
two snapshots with a request is there; more findings only multiply independent
copies. `pipeline`: one finding, which opens and resolves in turn, two scans whose
hand-overs interleave, `MaxBatch` 2, two attempts, three transitions: a full
window, a window that a late `Flush` finds, a call after Close, and a digest of
two lines; one channel of every kind that the flags can build (every combination
of right and wrong flags is tried). Goroutines of different channels share no
state; that a flush starts one for each channel is proved for any number of
channels (`EventsAreConserved`). `assist`: one request (requests share only the
row and the licence, which change freely), a Free and a Pro licence, two
severities, no retry (as `NewAIAssist` sets it) and one (for the client's default
of two), answers of up to three sentences with every mix of severity, claim and
length, and evidence with caps of two at every level: secret-like keys before and
among the others, more keys and items than the caps, four levels, structs (of maps,
lists and texts), lists of strings and values that do not marshal. `scheduler`:
one target, two goroutines for one slot, one `AddTarget`, one `ScanNow`, a
backoff that reaches its cap (2, then 3). The slot queue does not
look at targets, so starvation is a matter of scans: `KeepsScanning` asks that every
single scan that waits is served, whichever of the three callers keeps taking the
slot, and starvation is possible in this instance. With only weak fairness of taking
the slot TLC finds the scans of `AddTarget` taking it over and over while a sweep's
waits for ever. `targets`: three domains and two
requests, so that a limit of 1 can be overshot to 2 and not to 3; one license
request at a time with a paid key, a forged one and none, which expire; any
number of restarts, each of which can or cannot read table and file. Its `VIEW` leaves
out `fileApart`, on which no step and none of its properties but the type depends.
`license`: two license requests at once with two paid keys, a forged one and none;
the domains are cut down to one, since the license depends on none. `reports`: four reports (one on the edge of the retention
period, one resent with other numbers under the same key, one of a domain that
is no target), a member that is no report, one upload after another, two
collects, the last day of the oldest report and a later one, one fault.

The run `pipeline` does not check deadlock, since the process ends there.

Fairness. *Reconcile*: a scan that has begun goes on and new ones begin (the
module loop never ends); a request that net/http has started runs to its end.
Changes, requests and faults are not fair: they may stop. *Pipeline*: `OnResult` runs
on, timers fire, the mutex is handed on, some attempt ends (each does within its
15 s context) as long as one is running, and main's deferred calls run. No scan
has to end and no signal has to come. *Assist*: handlers run, an attempt ends
within the client's timeout, the backoff timer fires; no answer has to come. *Scheduler*: timers fire, `Collect` ends
(its queries are bounded), a goroutine blocked on the slot channel is served in
turn (Go queues channel senders), and the loop's `select` eventually sees a
cancelled context, since the other case needs the interval to pass again.

## 4. Proofs

TLAPS checks, for every value of the constants:

- `Induction`: the library states induction and recursive definitions with an
  operator as a parameter, which the provers cannot instantiate. Here they are
  derived from the well-foundedness of `<` (`WFMin`) and stated over sets: a
  non-empty set of numbers has a least member (`Least`), a bounded one a greatest
  (`Greatest`), a set that has 0 and the successors of its members has every number
  (`SetInduction`), and a recursive definition denotes a function (`Recursion`,
  `FiniteRecursion`).
- `ReconcileProofs`, first half, any overlap: `TypeCorrect`, `ResolvedRowsAreSettled`, `IdsAreDistinct`,
  `IdentityIsKept`. (`IdsAreDistinct` is what makes an announced id that of one row
  only, in `ToldIdsAreStored`.) The invariant `ResolvedIsSettled` is not inductive: a scan
  or a request may hold an old row and write it back. The inductive invariant
  `IInv` adds that what a scan or a request holds is a copy of a row that still
  exists, and a request writes only statuses a user may set (`CopiesHaveRows`);
  that what a scan has left to write was reported or was resolvable in its
  snapshot (`TodoIsKnown`); and that ids are below `nextId` (`IdsAreOld`), so
  that an insert never takes one. The only assumption is `ConstantsAssumption`.
- `ReconcileProofs`, second half: the engine with scans and requests one at a time. With
  faults: `SuppressedStaysSilent`, `ToldIdsAreStored` and the action property
  `SuppressionIsKept`. The inductive invariant `SInv` adds to `IInv` that the
  snapshot of a scan is the table for all it has yet to write
  (`SnapshotIsCurrent`), that the events it holds are what the table says now
  (`EventsAreStored`), that a request holds its row as stored but for the status
  (`EditIsCurrent`), and that whatever was told has a row under that id
  (`ToldHasRow`); these are the facts that two overlapping goroutines break
  (`lost_suppression`, `foreign_id`). Under `MaxFaults = 0`: `ToldIsStored`,
  `ResolvedWereMissing` and the refinement `EngineImplementsLedger`. `FInv` adds
  that every opening and resolution was told or is held by a scan that will tell
  it (`ToldOrOwed`), and that the streak of a row is covered by the misses
  observed (`StreakIsCovered`). The hypothesis cannot be dropped: `lost_event`
  shows that one store error breaks the announcement, and a scan cut short after a
  `Collect` that saw the finding ends its misses but not the stored streak. Each action is one step of
  the ledger or a stutter (`LedgerStep`). The specification leaves out fairness,
  so the refinement is of safety.
- `DispatcherProofs`: `TypeCorrect`, `WindowsAreTimed`, `EventsAreConserved`,
  `CloseHasDrained`. The inductive invariant adds that the window is finite,
  that no more events were accepted than calls made, and that a closed
  dispatcher has an empty window (which is what makes late flushes harmless).
  `FanoutSends` and `FlushConserves` carry the argument: a flush moves exactly
  the window into one digest per channel. The assumption is
  `DispatcherAssumption`.
- `PipelineProofs`: `PipelineImplementsDispatcher` (`PSpec => Spec`) and
  `NothingGoesUntold`. A step of the pipeline is a step of the dispatcher or
  leaves it alone, given that scans hand over findings of the program
  (`PTypeOK`), so the dispatcher's theorems hold under `main`. `ToldAfterwards` is
  inductive together with the dispatcher's `IInv` and `ClosedByMain`: a key is
  only dropped while its twin is in the open window (`WindowIsTimed`), whose number
  was accepted (`Conservation`), or after Close. `NumberingIsOnto` shows that
  every stored transition is in an outbox. `ReceiversFit` has the invariant
  `RInv`: beside `ReceivedFits`, the counts are typed and nothing has arrived of an
  event that is not yet accepted (`NothingAhead`), so that a new digest starts from
  zero copies and each of its attempts adds at most one. The assumptions are
  `DispatcherAssumption` and `PipelineAssumption`.
- `SchedulerProofs`: `TypeCorrect`, `SlotsAreConserved`, `BackoffIsBounded`,
  `StopEndsSweeps`. `BackoffFits` and `SweepsEndWithStop` are inductive beside
  `TypeOK`; the conservation of slots needs that the scans under way are finitely many
  (`SlotsHeld`), whatever the number of goroutines, so that one more or one less of
  them changes their number by one. With the type of `sem` it bounds the pool. `DoubledIsCappedPower` shows that the doubling loop of
  `backoffFor`, which stops at the cap, computes the capped power of two, an induction
  over numbers made with `Induction`. `SchedulerAssumption` says that
  there is a target, that the origins `"sweep"` and `"add"` are not names of
  calls, and that the failure bound is at least one.
- `TargetsProofs`: `TypeCorrect`, `RestartIsExplained`, `LicenseIsExplained`,
  `OvershootIsBounded`. The two halves
  of the state have an inductive invariant each. `TInv` adds that a saved
  input reads as its domain (`SavedIsCanonical`), that a request knows its
  domain (`RequestsKnow`), and that a domain on which no requests overlapped has at most one
  request between registry and table, which agrees with the registry, and none but
  what its reason explains once that has ended (`OneByOne`, `Explained`). `LInv` adds
  for the license file that, unless requests crossed, it is explained in the same way
  (`FileExplained`), or holds the one key that is written and not yet in force, or was
  cut after the last write (`LicenseOneByOne`).
  `OInv`, for the overshoot, counts requests: whatever limit k may yet come into
  force, the domains added and the requests whose count is below k come to less
  than k plus all the requests (`RoomForAll`), and a request past its check counted
  less than some limit that was in force (`AllowedBelowTop`). A domain that is
  added moves its request from one count to the other. Once `top` was unlimited
  there is nothing left to count. The assumption is
  `TargetsAssumption`, which asks for at least one request.
- `ReportsProofs`: `TypeCorrect`, `ReportsCountedOnce`, `RescanIsKept`,
  `SourceFindingsAlwaysHold`, `TotalsAlwaysExact`.
  `TablesInv` adds that a collect's `now` is never in the future (`Timely`: a
  prune never touches what is retained today, although collects that began on
  different days prune in any order) and where a collect stands (`ScanShape`).
  `RescanInv` adds that an upload stores reports of targets only
  (`UploadShape`), which is why the rescan of all targets covers them, and that
  only stored reports are owed (`OwedIsStored`), which is why a collect that
  finds no data owes nothing. For the two action properties `OverviewShape` adds
  that an overview has its fields and a number as its history, and
  `OnlyReadsAdvance` that nothing but its own statement takes it further. The
  findings about sources are those of the last statement's tables, with the history
  of the first statement's; a shorter history makes fewer sources new, so none is
  invented unless the history grew shorter meanwhile, which only a prune does.
  For the totals, the library's sum is a fold, a recursive function over the
  subsets: it is built size by size (`SumExists`), there is no other (`SumUnique`),
  and so a sum depends on its summands only (`SameSum`). Within a window
  `CountedOnce` makes the rows those of the stored reports, with multiplicity one
  (`WindowRows`). The exception for a collect that runs for a year is needed, since
  another one's prune would then reach its window. The assumptions are `CollectorAssumption` and
  `ReportsAssumption`.
- `AssistProofs`: `TypeCorrect`, `RetriesAreJustified`, `LicenceIsFollowed`,
  `ShownIsAlwaysGrounded`, `PacketsAreBounded`, `PacketsKeepTheRest`. The inductive invariant adds that a request in flight
  has logged at most `maxRetries` attempts, all of which are repeatable (`RetryOK`), and
  that it has seen the tier in force now (`LicenceOK`), which is what the check of
  `aiAllowed` reads. `RetryableIsRepeatable` shows that `doRequest` calls retryable
  exactly what may pass and error bodies. For the guards, `GInv` adds that the severity in the
  finding and in the packet is one the request has seen, so that a sentence which
  is wrong for all of those conflicts with the one the guard compares with
  (`WrongConflicts`). What a guard's loop keeps (`KeptItemsFacts`) and that the
  runes of a text are a number (`RunesFacts`) are inductions over the positions of
  a text, made with `Induction`. For the
  packet, one lemma per depth (`Value3Copy`, `Value2Copy`, `Value1Copy`,
  `EvidenceCopy`) shows that `sanitizeValue` there returns a bounded copy that keeps
  what the caps leave; `LevelsBounded` and `PairsKept` carry that to the levels of
  the rule. That the first keys in sorted order are at most as many as the cap and
  are the ones counted by the rule (`FirstKeysFacts`) takes the greatest of them. The
  invariant `Held` says that a request holds a finding of the program, so that its
  evidence is made of `Values`, and a packet that was made of one. The assumptions
  are `EvidenceAssumption` and `AssistAssumption`, which give evidence and answers
  their form.

Every invariant and every action property of the passing runs is proved. Only
model-checked is liveness (`EventuallyAgrees`, `StoredSettles`, `ShutdownEnds`,
`EveryRequestAnswered`, `KeepsScanning`, `StopTerminates`), which rests on fairness
and so on ENABLED, out of the prover's reach; and the refinement of `FindingLedger`
is proved for safety, which is all that it states.

## 5. Not modelled

- Message texts (`notify/format.go`, the rendering of syslog lines, `hfsbridge/`),
  the decoding of report files, the prompt of AI assist and the static user
  interface are pure functions or I/O, and the first-run script is not part of
  the program. `SlackChannel` and `TelegramChannel` are built by no flag.
- `verify/` and its stores are not wired into the program: `main` never sets
  `Server.Verify` and no collector here asks for a verified domain, so it has no
  behaviour to be checked against.
- `PruneResolvedBefore` has no caller, and the in-memory stores serve tests only.
- `MinSeverity` is empty in this program. Several registered modules would only
  add independent copies.
- The order of events within a digest (opened first, then resolved, as `notify/hfs.go`
  documents; each carries its finding's own times and status) and the order in which
  digests of different windows arrive: each is sent by a
  goroutine of its own and stamped, and the code promises nothing about it.

## 6. Plan

All parts with state of their own are modelled. What is left:

1. Torn overviews: which findings about a whole domain a tear can invent, and
   that one more collect always corrects them.
2. Liveness proofs, once the prover supports ENABLED: the well-founded arguments are
   short (attempts left, statements left), their fairness is stated.
