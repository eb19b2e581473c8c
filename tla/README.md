# Network Drift Observatory in TLA+

The observatory compares committed network intent with observations from
independent sources, keeps a ledger of drift findings, and must never claim more
than its evidence supports. This directory holds TLA+ models of the parts that
carry state, the TLC runs that check them on small instances, and TLAPS proofs of
the properties that should hold for every instance. Paths below are relative to
the repository; `ledger.cpp` is `src/ledger.cpp`, and so on.

## Inventory

| component | state | operations | interacts with | what is hard, and what makes it correct |
|---|---|---|---|---|
| Ledger: intent, findings, groups (`ledger.cpp`, `finding.cpp`) | baselines, findings with lifecycle state, suppression and acknowledgement, resolution streaks, root-cause groups, timelines, revision | CommitIntent, ApplyEvaluation, RefreshGroups, Suppress / Clear, Acknowledge / Clear, ExpireSuppressions, RecordEvent, Restore... | driven by the engine under its mutex; read by query and report; written by persistence | many legal orders of a dozen operations. Live findings speak about the committed generation; groups and findings agree; suppressions have a reason and end as documented; the envelope (`RuntimeLimits`) holds; refusals change nothing |
| Ledger: retained observations (`ledger.cpp`) | a window of snapshots per (target, source) | RecordObservation, InvalidateRetainedEvidence, RestoreObservation | fed by ingestion, read by evaluation | delivery out of order and repeated, eviction, restarts. The window is ordered, has one newest claim that only moves forward, and prefers live to recovered evidence |
| Engine (`engine.cpp`) | started / stopping / cancelled flags, epoch and incarnation, policy, count of active evaluations | Start, Stop, RotateIncarnation, Request / ClearCancellation, SetPolicy, PublishIntent, IngestObservation, EvaluateAt, Save, Load | calls comparison without its mutex on worker threads | everything that happens between the two critical sections of an evaluation. Nothing stale, partial or cancelled is published; Stop drains and returns |
| Comparison (`comparison.cpp`, `drift.cpp`) | none | CompareTarget, Explain | input copied by the engine, output to ApplyEvaluation | a long decision procedure: compliance only from fresh, covering evidence; regrouping by applied generation |
| Freshness (`freshness.cpp`) | none | EvaluateFreshness | called while the engine builds its input | clock skew, epoch fencing, overflow of time differences |
| Policy (`policy.cpp`) | none (installed in the engine) | FindSuppression, severity, TTL, volatility, JSON | engine, comparison, ledger | first match, expiry |
| Server (`server.cpp`) | sessions and their threads, per-source fence, statistics | accept, hello, snapshot, intent, stop, reap | calls the engine from session threads | fence and ingestion are separate critical sections; stop against accept, reaping and statistics. The fence only moves forward; one sequence number is one snapshot; accepted means recorded |
| Client, collector (`client.cpp`, `tools/ndo_collector.cpp`) | connection, sequence | connect, hello, publish, close | server, over frames of `wire.cpp` | late and lost acknowledgements, a restart with the same or a new incarnation |
| Persistence (`persistence.cpp`) | the ledger file | SaveLedgerFile, LoadLedgerFile, Encode / DecodeLedger | engine, command line tool | crash between temporary file and rename; several processes on one path; what is not saved; files refused on load |
| Command line tool (`tools/ndo_cli.cpp`) | none of its own; the state file | one command per invocation: load, run, save, exit code | persistence, engine | the exit code is the only thing that tells what became durable |
| Query, report (`query.cpp`, `report.cpp`) | none | filters, orders, pages, JSON reports | copies of the ledger | pages of a ledger that changes between them |
| Documents (`interchange.cpp`, `intent.cpp`, `observation.cpp`) | none | encode, decode, validate, digest | client, server, ledger file | a codec pair that must not lose, invent or refuse anything; identities that cover the whole content |
| Values, JSON, time (`value.cpp`, `json.cpp`, `time.cpp`) | none | relation of values, bounds, writer, parser, calendar | everything | number types, limits, nesting |
| Hashing, identity, status, limits | none | digests, identity texts, constants | everything | per-input functions |

`PROJECT.json` lists the components with what is and is not modelled, and the
hazards (what a test would hardly reach) with the properties aimed at them.

## Modules

### EvidenceWindow

One window of `FindingLedger::windows_`; windows of different (target, source)
pairs never touch, so one stands for all. A snapshot is its epoch, incarnation,
sequence and a model value for its content digest. `RecordObservation` is the
whole function: admission against the newest record (`Admission`), insertion at
the lower bound (`IsLowerBound`), eviction (`IsVictim`). `Save` and `Load` keep
the window as the ledger file does: everything comes back as recovered evidence.

### FindingLedger

Baselines, findings, groups, the suppression counter, the lengths of the
timelines and the ledger file. One action per operation of the class, atomic
because the engine holds its mutex around each:

* `CommitIntent` with `RebaseFindingsForTarget`;
* `ApplyEvaluation`: phase one is `Accepted` (the generation fence) and
  `FitsEnvelope`; phase two is `Evolved` (created, drafted again, not drafted)
  followed by the group refresh (`Formed`, `Produced`, `Assigned`), the erasure of
  left groups (`Dropped`) and the expiry of suppressions. The code works target by
  target; what it does to one depends on the others only through the size of the
  two tables, which `Blocked`, `Touched` and `ApplyPart` account for when the group
  table overflows in the middle;
* `Suppress`, `ClearSuppression`, `Acknowledge`, `ClearAcknowledgement`,
  `ExpireSuppressions`, `RecordEvent`;
* `Save` and `Load`: the file holds everything but the resolution streaks and the
  suppression counter, which a load recomputes its own way.

An outcome is any that `CompareTarget` can produce (`Evaluations`): it need not be
computed against the present ledger, because the engine applies outcomes that were
computed earlier. `AgreesWithDocument` keeps drafts of accepted targets to what
their document declares. Times are per operation and not ordered, as the clock is
read before the mutex is taken. Values, evidence, severities and texts are left
out; whether a draft differs materially from the stored finding is a choice of
the environment (`Material`). Identities are records instead of SHA-256 digests.

### FindingLifecycle

What the ledger promises about findings, with groups, suppressions,
acknowledgements, envelopes and timelines left out: generations, which findings are
live and how the others were closed, and how many evaluations have agreed with
intent since a finding was last seen. FindingLedger implements it. The mapping
(`Lifecycle` in FindingLedger) reads a missing baseline as generation 0, Open,
Acknowledged and Suppressed as live, the streak as the confirmations given, and the
ledger file as the saved state. `ImplementsLifecycle` is the abstract specification
as a property of the detailed one: every operation is a step of the lifecycle or
changes nothing it sees.

### Freshness, Policy, Comparison

`EvaluateFreshness` with the width of its arithmetic, the lookups of a policy, and
`CompareTarget` as operators: views ranked by priority, field by field and object
by object decisions, unmanaged and absent objects, conflicts between sources, and
the regrouping by applied generation. The state of Comparison is the input the engine copies (baseline,
retained observations, policy, clock), and its actions are the operations that
change that input, reduced to their effect here. `OutcomeFitsLedger` ties it to
FindingLedger, whose environment takes any outcome that satisfies `Comparable`: the
property says that what CompareTarget produces does.

### LedgerFile, CommandLine

LedgerFile is SaveLedgerFile and LoadLedgerFile system call by system call, on a
file system with two names (the path and `<path>.tmp`) and nodes: a process that has
opened a node goes on writing to it after another one has truncated or renamed it.
A ledger is the sequence of its changes; the header names its digest. CommandLine is
`main` of `ndo_cli.cpp` around it: load, one of the commands, save, exit code, with
crashes and failed writes at every point, and with files that are there and cannot be
opened (`Probe`). `exclusive` says whether the invocations of a behaviour overlap;
`confirmed`, a history variable, is what exit codes have promised and no process that
could not open the file has replaced.

### ServerLifecycle

The threads of ObservationServer: the caller of Start, Stop and ServeSingleSession,
the accept loop, one thread per session, and a caller of Stats. `sessions_mutex_` is
held for single steps, because nothing blocks inside its critical sections;
`stats_mutex_` is a variable, because Stats waits for the other mutex while holding
it. ServeSingleSession binds a listener when there is none (`BindSingleSession`).
Sessions only read here; what they do with frames is Transport.

### Query

A reader pages through findings or through the timeline while the ledger changes
between pages, and reports are computed at any time. A change is what an operation of
the ledger does to one finding and to the timeline: the entries it appends, and the
trimming where the operation ends with it. `Load` replaces all of it by one of the saved
ledgers. Filters that test one more field of a finding are represented by those that
are there.

### Numbers, Values, Json, Calendar, Interchange, Documents

Numbers is the relation of numbers of different types (`RelateNumerics`), Values the
tagged tree with its bounds and `RelateValues`. In the run the 64-bit types and the
mantissa of doubles are scaled down, so that integers beside, above and between
doubles occur. Json is the writer and the parser over tokens, the parser as a
machine with a stack and all its limits; white space and escapes are left out.
Calendar is the civil calendar, unscaled, in the run with a short day and a short
second.
Interchange holds the encoders, decoders, validation and digests of the three
documents and of baselines. Documents is the way of one document: validated and
written (or handed over by a program), perhaps changed at one token, parsed,
decoded, retained, saved inside the ledger file beside other records (`elsewhere` is the
number of their nodes) and loaded again. The constants of LedgerPayloadLimits (`BaseNodes`,
`RecordNodes`, `ManyNodes`, `ManyFields`, `SizeMax`) are scaled down with the limits. The
operators from `AsWritten` on belong to the properties: they say of a draft, without
writing or parsing it, which bound it exceeds. Json and Values
use RECURSIVE operators, so nothing about them is proved; Numbers and Calendar have
none, and the proofs are about them with the widths of the program.

### Observatory

The engine's flags, authority, policy, baselines and the evaluation each thread is
in. One action is one critical section, or one look of a worker at the flags:
`EvaluateAt` copies the input, `ReadPolicy` is the second critical section of
`EvaluateInternal`, `EvaluateTarget` is a worker at one target, `Publish` the last
critical section. `Load` decodes the file outside the mutex (`LoadLedgerFile`) and
then replaces the ledger. `seen` is a history variable: what happened since an
evaluation copied its input; no guard reads it. `require_started` is taken to be
true (the default), one call of Stop and one of Load are in progress at a time,
and operations that only return an error are not steps.

### Transport

The publishers of `client.cpp`, driven as `ndo_collector.cpp` drives them, the
sessions of `server.cpp`, and what a session does to the observatory: registered
sources, the newest retained snapshot of a source, and whether the observatory is
started. A behaviour is the lifetime of one server, on an observatory whose ledger is
empty or was loaded before (`retained`). A connection is two FIFO channels and is used once. A session handles one
frame at a time; because HandleHello and HandleSnapshot take `fence_mutex_` and the
observatory's mutex one after the other, each is two actions (`HandleHello` and
`RegisterSource`, `HandleSnapshot` and `IngestObservation`) and sessions of one
source race in between. Connect and Publish are two actions each as well, sending
and reading, with a timeout in place of the reading. A publisher may reconnect while
connected, close, or die and come back with the same options; closing loses the
answers it has not read, and the session may lose what it has not read. A Publish
that times out leaves the connection in use, as in the code: `inStep`, a history
variable, says that it has not happened on this connection. Sessions and sources
outside the model only take up room (`MaxOthers`). Answers that a reset connection
destroys after they were delivered to the publisher's host are not lost here;
losing them only turns an answer into a timeout.

How they fit: Documents says what of a document reaches the server; Transport in
which order snapshots reach `RecordObservation`, and it keeps of the window what its
admission looks at; EvidenceWindow says which evidence the next evaluation copies,
Comparison what comes out of it; Observatory decides whether and when that outcome
reaches `ApplyEvaluation`; FindingLedger says what it does there, FindingLifecycle
what that amounts to; LedgerFile and CommandLine say what of it is on disk, Query
what a reader is shown. Observatory's `Accepted` is the same fence as
FindingLedger's.

The definitions marked `Mutant:` or `Variant:` are not part of the models. Each is a plausible
slip in the code it stands beside; replacing the definition it is named after by
it must make a run fail (`PROJECT.json`, "mutants").

## Runs

Bounds are the constants of each `.cfg`. None of the models has a counter without
a bound; timelines count up to one past their bound, streaks stop because a
finding resolves.

| run | bounds, and why they are enough | shows |
|---|---|---|
| evidence_window | 2 epochs, 2 incarnations, 3 sequences, 2 contents, window of 2: every order of keys; overfull at 3, where eviction can choose | order; one newest record; the newest never regresses, and a late or repeated delivery never becomes or changes it; live evidence outlasts recovered |
| ledger_lifecycle | 1 location, 3 classes (one regrouped into another), 2 generations, policy suppression until time 1 or none, operator suppressions with every expiry, tables of 2 findings, 1 group, 1 suppression: reclassification, supersession, reopening, stale outcomes, full tables, evaluations abandoned at the group limit | Suppressed has a reason; a closed finding comes back only as Open under the current generation; a finding under an operator suppression without expiry stays Suppressed while it is live, and the suppression on record after that, until ClearSuppression or Suppress; a refused operation leaves no trace, unless the group table was full |
| ledger_recovery | 1 location, 2 classes, 2 generations, 2 confirmations, timelines of length 1, a table of 2 findings, room for every group (17 for 1 target), an older file at any time | live findings track the baseline; groups and findings agree; the ledger implements the lifecycle, through restarts |
| observatory | 1 evaluating thread, 1 target, 2 generations of 2 contents, 2 incarnations, save and load, fairness | Stop drains; an overtaken incarnation writes nothing; partial outcomes are published only after a flag was reset; what is written was compared with the committed document unless a ledger was loaded meanwhile; Stop returns unless Start intervenes |
| transport | 3 processes of one source: one restarted with a new incarnation, one of a later epoch; 2 connections, so that a process races its own abandoned session or another process; 2 frames or answers under way, enough for one late answer; 2 sequence numbers, the first with 2 contents; started on an empty ledger or on one that has either content of the first | no session ahead of the fence; the fence never goes back; one sequence number is one snapshot among those the server let through, through the race of fence and ingestion; an accepting acknowledgement, on a connection without timeouts, means the snapshot sent is recorded |
| comparison | 2 retained observations of 2 sources from four families (one object in every kind of report, two objects with applied generations, a second source, dated snapshots), 5 baselines, 6 policies, time arithmetic of width 3 so that differences leave it | compliant only if the newest claim of a source is current, covers, shows what is required and does not report what is forbidden, and nobody current contradicts; missing only on evidence of absence; outcomes are those FindingLedger expects; the most specific rule decides; stale stays stale |
| command_line | 2 processes, 3 invocations, 2 epochs, 2 changes, files of 3 blocks of which 1 may be payload, so that a ledger is saved that no load accepts: two saves interleave block by block, a third process reads what they left or cannot open it | a load takes only what some save encoded; without overlap, an exit code other than 1 means the changes are in the file, until a process that could not open it replaces it |
| server_lifecycle | 3 connections against 1 place, 1 restart: the table is full, reaped by Stats and by the accept loop, and filled again; a single session served from the running listener or from one bound for it | the slot of a session is still there when its thread is started; after Stop nothing runs but what Stats is joining, and the counters add up; Stop and Stats return |
| query | 3 findings (two at one place), 2 severities, 2 times, pages of 1 and of the largest size, timeline of 2, 2 changes of a ledger that starts empty or loaded; 3 files to load, one with a gap in its timeline, one beyond the bound | pages of an unchanging ledger repeat nothing and add up to the result, unless a page end wraps around; in an order that never changes nothing is missed unless a ledger was loaded; the timeline comes once and in order, and all of it unless trimmed, reloaded or wrapped; reports and queries agree |
| documents | 19 drafts: 6 whose text may be changed at one token, to any of 15 others, inserted or removed at any place; 8 that are beyond one bound each (leaf, members, depth, nodes and length, of the parser or of the ledger file); 4 that are read as something else (a map with the one member `$bytes`, times before 1970); a ledger file with few, many or too many other nodes | documents arrive as they were written, or are refused for exactly the named reasons; what is retained survives a restart, or is refused for exactly the named reasons; a declared identity covers the whole content; nothing an accepted text says is dropped, but for four named exceptions; the relation of values is equality of meaning |

ledger_lifecycle compares states by a VIEW that leaves out timelines, status and
revision, on which none of its properties depends. SYMMETRY is over contents and
processes, which no definition distinguishes; the runs with liveness properties use
neither. CHECK_DEADLOCK is off where the system may rightly stop: documents that
arrived or were refused, comparison at the end of its clock, readers that are done, a
server nobody starts again, invocations that all ended.

Observatory has one evaluating thread in its runs. Evaluations interact only through
the flags, the baselines and the counter, and the safety properties of that run are
also proved, for any number of threads and targets.

### Disagreements between code and text

Two runs check what a comment says, and TLC shows a behaviour of the code that does
otherwise. `PROJECT.json`, "findings", quotes the lines.

| run | behaviour |
|---|---|
| own_file_loads | some events are appended to a timeline without, or after, its trim; the saved file is then one the decoder refuses |
| digest_names_policy | policy and digest come from different critical sections |

Six more configurations end in a counterexample. The passing runs check what
remains true, with the exempted case spelled out in the formula:

* `Ledger_RefusedAsAWhole.cfg` (module MCFindingLedger): the group limit is met after
  findings were changed (`ledger.cpp:837` against README.md:424-425), so what came before
  the first group without room stays. RefusedUnlessGroupsFull is what remains true: the
  finding table, the suppressions and intent are refused as a whole. For the group table
  RefusedAsAWholeWithRoom proves the claim of every configuration with enough room, the
  default one (`limits.hpp:44,74`) among them.
* `Ledger_GroupOfFindingExists.cfg` (module MCFindingLedger): a group produced again
  under the same identity is erased after the refresh (`ledger.cpp:791` against
  README.md:221-222).
* `CommandLine_CrashKeepsLedger.cfg` (module MCCommandLine): two processes that save
  to one path share `<path>.tmp`, and one may rename what the other is still writing
  (`persistence.cpp:1359` against README.md:412-413). LoadedWasSaved is what remains
  true: the digest keeps the mixture from being loaded.
* `Comparison_ForbiddenShownAbsent.cfg` (module MCComparison): a target is compliant
  although a forbidden object is of Unknown presence, declared unobserved or not
  reported by a source that may not assert absence (`comparison.cpp:553-570` against
  "Never read as Absent", `observation.hpp:38`); also when another current source
  reports it present while the primary one cannot say. CompliantOnlyIfShown asks for
  required objects and fields what the comment says, and of forbidden objects only that
  the primary source does not report them.
* `Documents_InversePair.cfg` (module MCDocuments): documents that pass Validate are
  refused when they are parsed, or read as something else (`json.cpp:380-383` and
  README.md:264-266; Documents below). ArrivesUnchanged is what remains true.
* `Documents_OwnRecordLoads.cfg` (module MCDocuments): a document the ledger retained and
  saved keeps the file from being loaded (`persistence.cpp:1028-1030`; Documents below).
  SurvivesRestart is what remains true.

Other differences were met while reading; the models behave as the code does.

Ledger and evidence:

* RecordObservation compares an arriving snapshot with the newest record only, so a
  repeat of an older retained one is stored again ("not stored twice",
  `ledger.hpp:150-151`). NewestNeverRegresses says what remains true. The call flags
  `superseded_older` by sequence alone, also for the first snapshot of a restarted
  collector, which becomes the newest (`ledger.cpp:354-355`).
* "An operator suppression ends only when it is cleared or expires" (README.md:209-211),
  but a finding under one that is closed and drifts again is Open, with the suppression
  still recorded (`ledger.cpp:607-608`). OperatorSuppressionKept says what remains true
  (the record stays, and the state while the finding is live), ClosedReopensCurrent that
  the reopened finding is Open.
* `suppressions_active_` does not count policy suppressions when they are created,
  but counts them down when they are cleared or expire, and counts them when they
  are restored.
* Regrouping reclassifies every deviation of the target once some object reports an
  applied generation, whether or not the deviating objects are the ones that did
  (`comparison.cpp:705-716`; README.md:226-229 speaks of "every object that deviates").
* The minimum severity of a severity rule is compared with the choice so far, so that
  the order of rules matters (`policy.cpp`, SeverityFor).

Engine:

* A cancellation request that is cleared, or a Stop followed by a Start, before an
  evaluation looks at the flags again is forgotten (`engine.hpp:136-137`,
  `docs/CONCURRENCY-AUDIT.md:75`). PartialNotPublished is what remains true.
* A Load under a running evaluation, followed by a commit of another document with
  the same generation, passes the fence (`docs/CONCURRENCY-AUDIT.md:82-83`).
  StaleOnlyAfterLoad is what remains true.
* A diagnostic counter is incremented without the mutex (`engine.cpp:224`).

Transport:

* After a Publish that timed out, the next Publish on the connection reads the late
  acknowledgement and reports it as its own; Publish compares neither sequence nor
  snapshot ("read one acknowledgement per frame", `client.hpp:8`). AcceptedIsRecorded
  says what remains true: connections without timeouts.
* The fence moves before the observatory is asked. A greeting that RegisterSource
  then refuses (`server.cpp:447`) has already fenced the older incarnation, and a
  snapshot of the older incarnation that passed the fence before is still recorded
  after the newer one greeted.
* A new server has no fences, also when its observatory has loaded observations
  (`ndo_cli.cpp:559-569,842-843`). Other content under the sequence number of the loaded
  newest record passes the fence and moves it, and is refused by the ledger
  (`ledger.cpp:344-352`). SequenceNamesOneSnapshot is about what the server itself let
  through.
* `kMaxPipelinedFrames` and `SessionContext::in_flight` are declared and not used.
* `stats_.active_sessions` is never incremented, so `high_water_sessions` never
  exceeds 1 (`server.cpp:211`).
* A session thread takes `stats_mutex_` to finish, against
  `docs/CONCURRENCY-AUDIT.md:95-96`. StatsReturns shows why nothing comes of it: Stats
  joins before it takes that mutex.
* Stop may return while a thread that Stats is joining still runs; after an exception
  in the accept loop, Start without Stop would assign to a joinable thread (Start is
  modelled for a joined one); with `serve --once` the accept loop and
  ServeSingleSession accept from the same listener; the handles of Socket and
  Listener are read and closed by different threads without a lock.

Persistence and command line:

* An existing file that cannot be opened counts as no file (`ndo_cli.cpp:560-561`): the
  command runs on an empty ledger, which the save then writes over the file, and exits
  with 0. ConfirmedIsDurable counts changes as confirmed until that happens.
* Commands that only read rewrite the file as well; `explain` ignores a failed save; `intent-commit --evaluate` exits with 1 when the evaluation
  is refused, and saves the intent. Exit code 2 comes from the drafts of the
  evaluation, not from the live findings.
* `max_record_payload_bytes` (64 MiB) is below `max_ledger_bytes` (512 MiB), and a save
  looks at the latter only: a ledger in between is saved, with exit code 0, and refused
  by the next load. It is still in the file, which is all ConfirmedIsDurable says.

Query and report:

* `begin + limit` wraps around for limits near the largest `size_t`, and the page is
  empty (`query.cpp:221`). What remains true is that nothing comes back twice or
  wrongly; an empty page is then no sign of the end.
* A Load between two pages (`engine.cpp:609-642`) replaces findings and timeline, and the
  reader is not told. NothingMissed and TimelineComplete exempt readers it happened to.
* Reports include retired findings by default and queries do not; `matching_findings`
  counts the reported ones only; the evidence class of a report is read in a second
  critical section (`report.cpp:236`); "canonical JSON" (`report.hpp:77`) is the pretty
  form.

Documents:

* Writer and parser are a "true inverse pair" (`json.cpp:380-383`), and an invalid
  document is refused, "never a repair" (README.md:261-266). Validate and ParseJson have
  different bounds, though. Validate counts depth and nodes of one value, ParseJson of the
  whole document (`max_value_nodes` is 4096 by default, far below what
  `max_objects_per_target` allows), and a byte string is twice as long in the text, so
  that it is refused beyond half of `max_leaf_bytes`; maps with more than
  `max_fields_per_object` members and documents beyond the length limit are refused as
  well. ArrivesUnchanged names these reasons and says that there is no other.
* A map that a program built with the one member `$bytes` is read as a byte string, or
  refused when its text is not one.
* LedgerPayloadLimits raises the limits "just far enough that the runtime never refuses a
  ledger it wrote itself" (`persistence.cpp:1028-1056`), but keeps `max_leaf_bytes`, so that
  a byte string above half of it, submitted by a program, is saved and not read; adds
  eight levels, one too few for a byte string at the last level of a value; bounds the
  members of maps, which Validate does not; and computes the nodes from findings, timeline
  and targets, so that observations have to live on what the others leave. SurvivesRestart
  names these reasons and says that there is no other.
* A lifetime above INT64_MAX is read as 0, and of several objects or fields of one
  name only the first is kept (`json_help.hpp:192-194`, `interchange.cpp:297,592`);
  TryParseTime takes day 31 in every month and second 60 (`time.cpp:122`), so that
  02-31 becomes a date in March. With the times before 1970 these are the exceptions in
  NothingSaidIsDropped.
* Names of enumerators are compared up to an embedded NUL.
* For times before 1970 past the first second of their day FormatTime names the day after
  (`time.cpp:81-85` against `time.hpp:61`): such a time arrives, and comes back from the
  ledger file, a day late, and a snapshot that declares its identity is then refused.
  ArrivesUnchanged and SurvivesRestart say so, and TimesAsText for every time.

## Fairness

Observatory: `WF_vars(Evaluating(th))`, since a thread in EvaluateAt is never blocked
for good: its workers take no lock, the mutex is never held across a wait (the wait
of Stop releases it) and the loop over targets is finite. `WF_vars(StopReturn)`:
`--active_evaluations_` is followed by `notify_all` under the mutex, so a waiting Stop
wakes up. Nothing is assumed of callers: Start, evaluations, cancellations need never
happen. That is why StopReturns says "unless started again".

ServerLifecycle: strong fairness for the steps of Stop, of the accept loop, of Stats
and of every session thread, as a mutex that is released again and again is acquired
in the end by a thread that waits for it. Nothing is assumed of peers or of the idle
timeout; StopReturns relies only on the shutdown of the sockets to unblock a read.

The other modules state no liveness: publishers give up, sessions expire, readers and
operators may stop at any point.

## Proofs

The theorems are listed in `PROJECT.json` as well, with the property each states. A
run says it for one instance, the theorem for every value of the constants; the
assumptions on constants are the named ASSUMEs of the modules, which the runs
evaluate.

| Module | Theorems | Inductive invariant |
|---|---|---|
| `EvidenceWindow_proofs` | WindowTypeCorrect, WindowStaysOrdered, NewestStaysUnique, NewestMonotone, RecoveredGoesFirst | both windows sorted, epochs and incarnations each non-decreasing, the last record strictly last |
| `FindingLedger_proofs` | LedgerInvariant, LiveFindingsAreCurrent, SuppressionIsRecorded, ReopensCurrent, OperatorDecides, LedgerImplementsLifecycle, LifecycleStaysCurrent, GroupsAgree, RefusedWithoutTrace, RefusedAsAWholeWithRoom, GroupsAgreeWithRoom | Table, Membership and Sized, of the ledger and of its file; LifecycleInv of the lifecycle |
| `Comparison_proofs` | ComparisonInvariant, WaitingDoesNotRefresh, MissingIsEvidenced, ComplianceIsShown, LedgerIsHandedEvaluations, RulesDecide, RulesOnlyNarrow; DaysAreGregorian, TimesAsText, NumbersByMeaning | OneClaim: a source has one newest observation |
| `Observatory_proofs` | RuntimeTypeCorrect, ActiveIsExact, RotationFences, GenerationFenceSuffices, PartialNeedsRearm, StopWaitsForAll | RotationShows, GenerationNamesDocument, SkipShows |
| `Transport_proofs` | TransportTypeCorrect, FenceAlwaysDominates, FenceNeverGoesBack, OneSnapshotPerSequence, AcknowledgedIsRecorded | FenceInvariant, SequenceInvariant, LinkInvariant |
| `ServerLifecycle_proofs` | ServerInvariant, SlotIsThere, StopLeavesNothing | Phases, Places, Setup, Single, Balance |
| `CommandLine_proofs` | StateFileInvariant, OnlySavedIsLoaded, ConfirmedSurvives | NodesGenuine and Holds; Kept and Carries |
| `Query_proofs` | QueryInvariant, NoFindingIsMissed, PagesMakeTheResult, TimelineIsComplete, ReportsAgree | TimelineOK, TimelineWalk, FindingsWalk, QuietWalk |

**EvidenceWindow.** For all bounds and contents; assumed is that the bounds are
positive. Sorted alone is not inductive: the fence compares epoch and incarnation
separately with the newest record only, and only because both are monotone along the
window does an admitted snapshot land where the order and the fence agree. The proof
goes through lemmas on InsertAt and RemoveAt, admission, insertion at the lower bound,
and removal of a record that is not the last. NewestMonotone: a snapshot that does
not sort after the newest record is inserted before it, and the record that is evicted
is never the last one. RecoveredGoesFirst follows the live
record that is lost to its place in the overfull window: that place is the victim's,
and the victim is recovered if any candidate is.

**FindingLedger.** For any targets, locations, classes, policies and bounds. `Table`
says that a live finding is of the committed generation of its target or of none, that
a suppressed one has a record of its suppression, and that a closed one is in no group.
A restart goes back to the ledger file, so the invariant says it of the file as well.
Every operation is first reduced to one of three effects (the lemmas EvaluateStep,
OperateStep, ExpireStep, CommitStep): it changes no finding's standing (`Quiet`), it
commits and rebases one target (`Recommitted`), or it evaluates a set of accepted
targets (`Evaluated`, which covers an evaluation that is abandoned half way, as the set
may be any part of the accepted ones). The invariant, the two action properties and the
refinement of FindingLifecycle are then each a case split over these three, saving and
loading. ReopensCurrent and OperatorDecides are about every step but a Load, which may
go back to a file that was saved before a finding was closed or suppressed.
RefusedWithoutTrace follows the status of every operation; it needs that the tables are
finite sets (`FiniteTables` of the findings, FInv of the groups).
GroupsAgree has RefusedAsAWhole as a hypothesis. The code does not give
it at the limit of the group table (`Ledger_RefusedAsAWhole.cfg` shows the trace), and
it is exactly what is missing: with it, groups and findings agree.

RefusedAsAWholeWithRoom says when the code does give it: when `max_groups` is more than
8 * (`max_targets` + 1). A bucket is a generation and one of eight causes. Live findings
of a target are of its committed generation, or of none; those of none are one
IntentMissing finding, which forms no group; so a target has one group per cause and a
target without intent has none. The invariant `Sized` says so, of the stored groups, and
that there are at most `max_targets` baselines; an injection into targets and ranks of
causes (GroupsFit) turns it into a number, for the table at any moment of the refresh
(NoneBlocked). With the default limits, 4096 and 100000, there is room, and
GroupsAgreeWithRoom has no hypothesis left.

LifecycleStaysCurrent uses the steps of the abstract lifecycle alone: a live finding
is about the committed generation of its target after any of them. With
LedgerImplementsLifecycle it is a second way to LiveFindingsAreCurrent, which shows
that the abstraction keeps what matters.

**Comparison.** For any policy, intent, snapshots, number of sources and width of the
clock. ComparisonAssumption is what the types of the program say of snapshots and of
the members of policies, and ObservatoryPolicy::Validate of the skew. The order of the views is shown
to be strict and total for views of different sources; that there is one view per
source is the invariant OneClaim, which holds because the ledger refuses a snapshot at
the position of the newest one. So there is a primary view, and if any view is usable it
is, with the best rank among those. `VerdictMeaning` says in one formula when
EvaluateFreshness lets evidence count; WaitingDoesNotRefresh is arithmetic on it. A
draft is then followed back through Regroup to the class of its location
(MissingIsEvidenced), and the absence of drafts to what the primary view reports
(ComplianceIsShown). The latter has the hypothesis FewSources: no more sources report
on a target than kMaxConflictSources. The code compares only the first eight views and
says so in the trace, so beyond it a target can be compliant although a ninth source
disagrees. LedgerIsHandedEvaluations closes the gap between two modules: whatever
CompareTarget produces satisfies what FindingLedger assumes of an outcome.

The lookups of a policy are folds over lists of rules. The library's induction
theorems cannot be instantiated here, so the proof goes around them: a fold is shown
to be the last of a sequence of partial results (the lemmas of the section on folds),
and a claim about every partial result is proved by looking at the first one that
would break it. RulesDecide and RulesOnlyNarrow are the two claims: the scans keep the
best rule so far, and the field rules the narrowest view so far. With them
ComplianceIsShown covers fields that rules apply to.

**Times and numbers** (the last sections of `Comparison_proofs`). Calendar and Numbers
instantiated with the nanoseconds, seconds and 64-bit types of the program, not with
those of the run. DaysAreGregorian goes through the era, the year of the era and the
day of the year that the two functions compute with; it is linear arithmetic once the
quotients have names. TimesAsText adds the time of day and the limits of the parser.
NumbersByMeaning is a case split over the pairs of types, where the conversions of
doubles are the interesting ones. IsTime and IsNumber are the types of the program:
any int64; any int64, any uint64, and any whole number of halves as a double, of which
the doubles that matter beside an integer are some.

**Observatory.** For any sets of threads, targets, policies, documents and bounds;
assumed are finiteness of the set of threads and at least one policy. The properties
speak about the step that ends an evaluation; the invariant says what holds of
evaluations in flight until then: a rotation that was seen left a greater incarnation
behind (RotationShows), without a Load an equal generation is the equal document
(GenerationNamesDocument), and a skipped target means that a flag is still up
(SkipShows).

**Transport.** For any sets of publishers and sources and any number of connections,
epochs, incarnations and frames in flight. FenceMonotone needs FenceDominates:
FenceSnapshot would let a snapshot of a later epoch and an earlier incarnation take the
fence over, and only because a session greeted with the snapshot's authority, and the
fence has been at least as new ever since, does that branch never run. Conversely
FenceDominates is preserved because the fence moves forward; the two are proved in one
induction. OneSnapshotPerSequence needs what the fence remembers: every snapshot that
passed it and is not ingested yet is either older than the mark or the one the mark
names (SequenceInvariant); a loaded record is none of these. AcknowledgedIsRecorded needs what is on the wire: on a
connection where every Publish has had its answer, frames and answers on it are at
most one snapshot and its acknowledgement, at each stage of the session
(LinkInvariant), and an accepting one is sent only after ingestion.

**ServerLifecycle.** For any number of connections, places in the table and restarts.
Places says who has a session at each stage of its thread (the table, or one of the
three that join threads); Balance counts the sessions accepted against those closed
and those still owed a close. Both properties are about one moment and follow from
where everything is at that moment.

**CommandLine.** For any number of processes, changes and any size of the ledger;
assumed is that there are finitely many processes, so that a free node can be found.
OnlySavedIsLoaded is about processes that overlap as they like: a header in a node,
at whatever place it was written, is the header of an encoding that a save was given
(NodesGenuine), so a file that passes the digest is that encoding. ConfirmedSurvives is
about invocations that do not overlap, the only case in which it holds: Carries says
where the confirmed changes are at each step of load, command and save, and that the
old file stays in place until the rename; a process that could not open the file carries
nothing, and its rename ends what was confirmed.

**Query.** For any findings, targets, limits, bounds and width of std::size_t; assumed
is that identities, targets, objects, severities and times are numbers. What carries the
proof is the number of findings that come before one (`RankIn`): in any arrangement
std::sort may leave, the i-th finding has i - 1 before it (SortedPlaces), because every
order is total (OrderIsTotal) and an arrangement has each finding once. NoFindingIsMissed:
a finding that has not come back has at least `offset` others before it (FindingsWalk).
A change may add some before it but takes none away, as findings are never erased and
the three orders compare nothing a change may touch (RankGrows); a page takes the places
from `offset` on. A Load takes findings away, so the invariant is about readers that none
happened to, whatever ledger they started on. PagesMakeTheResult: what came back has the ranks 0, 1, 2 and so on
(QuietWalk), so it is an injection into a result of the same size. TimelineIsComplete
needs that the timeline ascends and holds no number beyond the last one given out
(TimelineOK; a recovery leaves gaps), and that what came back is its beginning until
something is trimmed or loaded. A page end that wrapped around
gives an empty page and the reader stops: PagesMakeTheResult and TimelineIsComplete
say that what it has is still right, NoFindingIsMissed is about readers to which it
did not happen.

Only model-checked:

* liveness (StopReturns of Observatory and of ServerLifecycle, StatsReturns): fairness
  and ENABLED are out of the prover's reach;
* IdentityCoversContent, NothingSaidIsDropped, RelationIsMeaning, ArrivesUnchanged and
  SurvivesRestart of Documents: trees, tokens and their codecs are RECURSIVE operators
  in Values and Json. What they rest on at the leaves, times and numbers, is proved;
* what becomes of the ledger when the group table does overflow, beyond what holds of
  every evaluation (`Evaluated`).

## Not modelled

* SHA-256, CRC-32, hexadecimal and UTF-8: a digest stands for the content it is
  computed from.
* White space, escapes and canonical text of JSON; the header and checksum of frames;
  the socket layer. The transport is built on Windows only.
* Reasons, rationales, traces, explanations, report texts and printing; parsing of
  arguments.
* The JSON form, digest and validation of policies, and the records of findings,
  groups and timeline in the ledger file: like the codecs in Interchange, without
  anything new to ask of them but what FindingLedger's `Decodable` asks.
* Intent frames and heartbeats of a session: one engine call, or an answer.
* Field paths of more than one segment in documents (Comparison has them).
* Data races on a diagnostic counter and on socket handles: no modelled state depends
  on the first, and what the second does is up to the system.

## Plan

In this order:

1. A property for the acknowledgement that comes after a timeout, and intent frames in
   Transport; Transport's `newest` shown to be what EvidenceWindow's admission keeps.
2. The codecs of policies and of finding records, if Interchange turns out to be worth
   extending.
