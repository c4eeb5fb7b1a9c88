# A TLA+ model of gsm-system

gsm-system is a Go server that runs a small GSM cell: it starts and stops five
native programs (OpenBTS and the transceiver it forks, sipauthserve, smqueue and
asterisk), keeps their configuration, collects their logs and offers an HTTP
API; a workflow and a tool publish its image. This directory models the parts of
it that keep state, checks them with TLC on small instances, and proves the main
results about the cell lifecycle, its status and the shutdown of the server, the
SMS window, the preset store, the subscriber registry, the log of OpenBTS and
the publication of releases with TLAPS for every value of the constants.

`PROJECT.json` lists the components, the runs, the source lines that each
definition models, the hazards the properties are for, and the theorems.

## 1. Inventory

| Component | State | Operations | What is hard |
|---|---|---|---|
| Cell lifecycle, `internal/gsm/manager.go` | `mu`, handles of the children, `startedAt`, `lastStart`; outside it the processes, `OpenBTS.db`, the NAT table, `last_start.json` | `Start`, `Stop`, `WithStoppedCell` | many return paths under one mutex; children that exit at any moment; a forked transceiver that outlives its parent; `ps` that fails; cancellation |
| Radio configuration, `internal/gsm/db.go` | the eight keys in `OpenBTS.db` | `UpdateConfig`, `GetAllConfig`, `applyConfigLocked` | a change under a running cell; a commit that is reported as a timeout |
| Status, `IsRunning` | none; a sample of `ps` and the handles | one probe | the sample is older than the lock |
| Server process, `cmd/server/main.go` | listeners, request context | bind, serve, signal, drain, deferred `Stop`, exit | the shutdown runs next to handlers that are still starting a cell |
| SMS session, `internal/gsm/sms_session.go` | `smsSession`: start and end cursor, state | begin, commit, end, clear, `ReadCurrentSMS` | the log rotates under a reader; cuts inside a line |
| Log collector, `internal/logsink` | `smqueue.log`, `OpenBTS.log`, each with a backup | receive, rotate, append, cap | several file system calls for one line, failing or cut off between |
| Readiness, `internal/gsm/process_log.go` | the end of the output so far | `Write` | a marker split over reads |
| Preset store, `internal/gsm/presets.go` | `items`, `loadErr`; `presets.json` | load, `Create`, `Update`, `Delete`, persist | crash between rename and directory sync; migration; the limit |
| Subscriber registry, `internal/subscriber/store.go` | two tables of Asterisk's database, OpenBTS' TMSI table | `Bind`, `Unbind`, `Get`, `List` | native programs write the same tables; two databases |
| HTTP API, `internal/api` | none of its own | handlers that call the above; the numbers and parties that lists show | answers put together from observations of different age |
| SMS parser, `internal/parser/sms.go` | none | `ParseSmqueueLog` | lines of concurrent messages in any order; tags used again after a restart; retries; a window that begins anywhere |
| Call history, `internal/telephony` | none | `HistoryInLocation` | a byte window into a CSV file that Asterisk appends to; newlines in quoted fields |
| Handset parsers, active calls, SDR detection, web interface, configuration file | none | pure functions, read-only queries | text formats |
| Release workflow, `.github/workflows/release.yml`, `scripts/release/registry` | version tags, GitHub releases, Docker Hub tags | source, preflight, publish | runs that are cut off and resumed; outputs of a preflight that are stale in a re-run; builds that differ |
| Release tool, `scripts/release/main.go` | the server's container and tags, Docker Hub | publish, verify | another operator or a deployment between two commands |

How they interact: HTTP handlers call `Manager`, the preset store and the
subscriber store concurrently. `Manager.mu` serialises everything that changes
the cell; `smsMu` protects only the session, so that reads do not wait for a
start; the preset store and the subscriber store have a mutex each. The native
programs share with the server the process table, the databases and, through a
syslog socket, the collector's log files. `main` cancels all requests on a
signal and then stops the cell itself.

What makes each part correct: a failed start leaves nothing of its own and
touches nothing else; a running cell keeps the configuration and the SMS session
it was launched with; one process per name; `Stop` stops everything; every call
returns and the process exits without leaving a cell behind. A read of the SMS
window returns complete lines of the current session, all of them or a suffix it
admits to, and the messages parsed from it are each shown once, with no
other message's content, in an order that later reads keep. A window of the call
records shows exactly the calls whose records begin in it. The OpenBTS log keeps
its end within the limit, and a child is ready exactly when it has said so, as
long as its output can be written. An
acknowledged preset change survives a power loss and the file is never replaced
by something the program did not understand. No request gives two subscribers
one number, none is refused whose change took effect, the TMSI cache follows the
registry, and what the lists show of identities is current. A pushed version is immutable and gets published, whole;
the stable tag never goes back.

## 2. Modules

| Module | Models | Extends |
|---|---|---|
| `Cell` | `gsm.Manager`, its callers and the native processes | |
| `CellStatus` | `IsRunning` beside them | `Cell` |
| `Server` | `run` of the server process around them | `Cell` |
| `SmsLog` | the collector, the session boundary and the bounded read | |
| `SmsParser` | `ParseSmqueueLog`, on the logs smqueue writes | |
| `PresetMap` | what the preset store promises (abstract) | |
| `PresetStore` | `PresetStore`, shown to implement `PresetMap` | instance of `PresetMap` |
| `Subscriber` | `Bind` and `Unbind` beside native writers | |
| `Identity` | the numbers and SMS parties the API shows from the registry | `Subscriber` |
| `CallHistory` | the bounded read of Asterisk's call records | |
| `ProcessLog` | the writer of the OpenBTS log and the marker of readiness | |
| `Release` | the release workflow and the registry inspection | |
| `ServerRelease` | the release tool, beside a deployment | `Release` |
| `CellProofs` | theorems about `Cell`, in layers | `Cell` |
| `PresetProofs` | theorems about `PresetStore` | `PresetStore` |
| `ServerProofs` | theorems about `Server` and `CellStatus` | `Server`, `CellStatus`, `CellProofs` |
| `SmsLogProofs` | theorems about `SmsLog` | `SmsLog` |
| `SubscriberProofs` | theorems about `Subscriber` and `Identity` | `Identity` |
| `ReleaseProofs` | theorems about `Release` and `ServerRelease` | `ServerRelease` |
| `SmsParserProofs` | theorems about `SmsParser`, and lemmas about induction | `SmsParser` |
| `ReaderProofs` | theorems about `CallHistory` and `ProcessLog` | `SmsParserProofs`, `CallHistory`, `ProcessLog` |
| `MCCell`, `MCCellStatus`, `MCServer`, `MCSmsLog`, `MCPresetStore` | model values and sets for TLC | the module they are named after |
| `MCSubscriber` | the same, for both modules about the registry | `Identity` |
| `MCReaders` | the three readers of native files; a behaviour follows one of them | `SmsParser`, `CallHistory`, `ProcessLog` |
| `MCRelease` | the two ways to publish; a behaviour follows one of them | `ServerRelease` |

Operators whose comment says "Mutant of X" are X with one plausible mistake. No
specification uses them; each one, put in the place of X, makes TLC find the
property violated that `PROJECT.json` pairs it with, which shows that the
property depends on that piece of code.

### Cell

A process is an instance `[call, name]`: the number of the `Start` call that
launched it and its name; call 0 marks processes the manager did not launch.
`live` are the instances the kernel runs, `open` the managed ones whose `done`
channel has not been closed, which lags behind the exit (`Crash`, then `Reap`).
`Fork` lets OpenBTS start its transceiver at any time, in its own process group,
so that a group kill reaches it even when OpenBTS is gone. A kill of a set
(`Kill`) removes it except for names in `Stubborn`, which may survive.

`Start` is cut where another goroutine, a process or a failure can come
between: lock, admission (context, running check, session cleared), preparation
(interface, directories, device, NAT rule), configuration, session, one step for
each service, the settling wait, OpenBTS, readiness, `tmsis clear`, profile and
commit; every error goes to `rollback`, which undoes the owned children one by
one in reverse order before the deferred functions run. An external command that
takes effect and still reports an error is a disjunct of its own. `Stop` is the
reverse list of handles, the main handle, the five kills by name and the final
check. `ps` answers with the truth or, where `PsMayFail`, with "not running".
Validation before the lock and the TMSI table are left out, and what a child
writes is `ProcessLog`'s. Data
is reduced to what the properties tell apart: a radio configuration is one
value for the eight keys.

### CellStatus

A probe takes five samples without a lock, then `TryLock`: if that fails the
answer is "transitioning", else the probe holds `Manager.mu` itself while it
corrects the sample with the handles. Each report records whether the system was
calm: nothing running and no start or stop under way.

### Server

`phase` follows `run`: boot, serving, draining after a signal, stopping while
main's deferred `Stop` runs, exited. Before main stops the cell every request
has been cancelled, but it may still be anywhere in `Start`, because `Shutdown`
waits only for a bounded time. After the exit only the native processes move.
A request that reaches its handler after the cancellation has a context that is
done from the start; it behaves as one that came just before, so no `StartCall`
happens outside `serving`. `Server` is put together from the actions of `Cell`,
so that it has no behaviour of the manager that `Cell` does not have.

### SmsLog

A file is a sequence of units, the body of a line or a newline, so that cuts,
marks and reads may fall inside a line. The collector's calls (size check,
remove, rename, open, write) and the reader's two opens are separate steps.
`history` and the lengths of it that the session and the read remember are
observers for stating what an exact answer would be. Files are append-only and
an open file outlives its name, so everything after the opens is one step.
`ReuseInodes` says whether the file system gives freed inode numbers out again.

### SmsParser

The variables are smqueue (external): the log it writes line by line, the tags
in use since its last restart, and the delivering thread of the legacy format.
The parser is a set of operators over a log, one for each function of the
source, applied in the properties to every suffix of the log, since a window may
begin anywhere. A line is its kind and its message; a field of a parsed SMS is
the message whose value it holds, so that a wrong pairing is visible. Number and
IMSI of a party are one field, and the headers after a delivery marker are part
of its line. A generation begins where the parser sees a restart line.

`FieldsAreOwn` has a condition. A legacy text does not name its message, so the
parser takes the texts between request and delivery on trust: the only one, or,
where a `got` or a restart cuts the block, the last one before the cut.
`Local` excludes the deliveries in which another message's text stands exactly
there; for these the parser does show it. Texts after a cut, which belong to
somebody else, and several texts without a cut, of which none is taken, are
within the property.

### CallHistory

The file is a sequence of characters, because the code decides by quotes and
newlines: a quote, a newline, a comma, a digit, anything else but blanks. Records have
three columns for the code's eighteen. Asterisk (external) appends a record,
quoting its strings and doubling their quotes, at once or in parts. The reader
is a set of operators: the window, the check of its last byte, the first safe
boundary by the parity of quotes up to the end, the automaton of `encoding/csv`
(external), the skipped blank record and the check of the columns. The
properties apply it to every size of the window.

### ProcessLog

A file is the interval of the bytes it holds, numbered as they reached the log,
so that a gap or a lost byte is visible. A write is cut into pieces of at most
the limit; each piece removes the backup, renames and appends, with failures and
the end of the server between: a failed write may have put any part of its piece
into the file, all of it if only the close failed. A new child opens the log
again, which caps the log and then the backup that an older, unbounded version
left, each to its last bytes; either may fail (`FailedOpen`). Where the log was
oversize, its first bytes are gone and the backup ends before a gap, until the
next rotation drops that backup; `LogIsTail` allows this gap and no other.

`ready` is the tail that `processLog` keeps and whether the marker was seen;
`output` is all that the child has written, what a failing write did not report
included. `processLog` searches only what was reported as written, so a marker in
the rest of a chunk whose append failed is missed, and the start runs into its
timeout: `ReadyIsSeen` says exactly which markers are seen. The marker of the run
is three letters that overlap with themselves.

### Identity

Operators over the registry of `Subscriber`: the list, which one duplicate row
fails as a whole; the number shown for an observed handset; the index of
unambiguous bindings and the completion of an SMS party from it. The observed
number and the service codes are any value, so the properties do not depend on
when the observation was made.

### Release

One action per step of the workflow's jobs that reads or changes something
outside the runner. `head` is the commit of each version tag, `hub` and `alias`
are Docker Hub, `releases` are the GitHub releases of a tag with the attachments
that matter (`checkpoint`, `metadata`, `digest`; `bundle` stands for the
others). An image is a version, a commit and a build; `Build` chooses the build,
as nothing makes it reproducible. `job` is the active run; `Fail` ends it after
any step, `CreatePartialDraft` in the middle of one. Then the workflow may be
dispatched again, which makes a new preflight, or the failed job alone re-run
with the old outputs (`failed`). `OrStop` is `set -e`: a check that fails ends
the job. Maintainers may move a tag, and repair an incomplete draft.

### ServerRelease

One action per command or request of the tool: the inspection of the container
and of the local tag, the version and health told by the binary, the absence
check, tag, push, the digest and the final comparison. Operators share the
local tags, and a deployment may sync, build or restart between any two steps.
Docker Hub refuses to replace a tag, which the tool requires the operator to
have confirmed.

### PresetMap and PresetStore

`file` is `presets.json` as the program sees it and `disk` what a power loss
would leave; they differ between rename and directory sync. (Of two renames that
were not synced a power loss leaves the last or none; the first alone, which no
property tells apart, is left out, as is the limit on the bytes of the file.)
`persist` writes and
syncs a temporary file that nobody reads, so it shows as two steps, each of
which may fail. A crash may come anywhere. `PresetMap` says what is promised of
those two files: one preset changes at a time, within the limit; the built-in
presets are added to a new or version-1 file only, and replace nothing; a file
that was not understood stays; a crash takes back at most what was not flushed.

### Subscriber

A table row is reduced to the number it gives an IMSI, and an IMSI has a
sequence of rows, because the code handles duplicates. Each SQL statement or
transaction is one step, which may fail, or commit and be reported as failed
(the control point `lost`, where `Bind` asks once more what the tables hold).
The native services may add or change a row between any two of them. `acked`
holds the bindings that were answered as saved, from the answer until the next
transaction on that IMSI.

## 3. Runs

| Run | Question | Instance | Result |
|---|---|---|---|
| `lifecycle` | Are rollback, configuration and session right around crash and restart, also beside processes the manager did not launch? | a starter with 2 calls, a stopper, an editor, 2 radio configurations, 1 crash, OpenBTS and smqueue may run before | holds |
| `probe` | Can a status answer be wrong because its sample is old? | a starter, a stopper, a probe, `ps` may fail, the transceiver may survive `KILL` | holds |
| `health` | Is a stopped cell always reported as stopped? | 2 probes, an editor | **violated** |
| `server` | What does a signal leave behind, do calls return, and does the process exit? | a starter, main and a stopper, an editor, foreign processes, 1 crash | holds |
| `window` | Is a read of the SMS window exact? | 4 lines, files of 3 units, 2 sessions, up to 3 rotations, budget of 5 units | holds |
| `race` | ... also when the collector works meanwhile? | 3 lines, 1 session | **violated** |
| `reuse` | ... also when inode numbers are reused? | 3 lines, 3 numbers | **violated** |
| `readers` | Are messages and calls told apart, and is the OpenBTS log kept, however the native services write? | 3 messages, 2 tags, 5 lines, every suffix; 3 call records of 4 strings, every window; a limit of 3 bytes, legacy files of up to 4 each, chunks of up to 4, 9 bytes in all | holds |
| `tail` | Does a bounded read fail while a call record is being appended? | as above | **violated** |
| `presets` | Is the preset store safe across failures and crashes, and does it implement `PresetMap`? | 3 identifiers, 2 values, limit 2, 2 crashes, every initial file | holds |
| `subscribers` | Are bindings unique and answers honest, does the cache follow, and is what is shown current? | 2 handlers, 2 IMSIs, 2 numbers, a native write | holds |
| `release` | Are published images immutable and whole, and does an interrupted publication end? | 2 versions, 2 commits, 2 builds, 1 failure, 1 moved tag, 2 drafts; or 2 operators and 3 steps of deployments | holds |

Why the bounds are enough to be interesting: two calls are a start and the
restart after a crash or a refused duplicate; one crash orphans a transceiver,
two of them lose a service and OpenBTS in one launch; with files of three units
and four lines every rotation pattern that the two-file window can meet occurs,
the file of the boundary being removed included, and marks fall inside lines;
with a limit of two presets and two built-in ones a version-1 file may or may
not have room for the migration; one native write fits between any two steps of
a request; five lines hold a complete legacy delivery with two lines of other
messages in it, or two generations of one tag. Three call records put a whole
record before and after one that the window cuts, and their strings have a
newline, a quote, and a quote before a newline. Chunks and legacy files are
longer than the limit, nine bytes are several rotations, and after the largest
legacy files there is a byte left to rotate with. Two versions are an older release that is
retried after a newer one, and one failure at any step already meets every state
a resumed run may find.
Commits are interchangeable too, so `MCRelease` starts with one of the ways to
name them; three steps of a deployment are a build, a restart and its health.

Radio configurations, inode numbers, IMSIs, numbers and callers are
interchangeable in every action and property, so those runs use symmetry; the
runs with liveness do not. `subscribers` identifies states that differ only in
the last answer, which no action reads, and `EffectIsNotRefused` only in the step
that gives it. Of the runs without deadlock
checking two end where the program does, after the exit (`server`) and in a
poisoned preset store, which only answers errors; the files of `readers` and
`tail` end at their bound. The types of the variables of `Cell` and
`PresetStore`, and the mutex discipline, are proved and not in a run.

Fairness. In `server`, every wait in the calls has a timeout, so a step of
a call that can be taken is taken: weak fairness. `sync.Mutex` in its starvation
mode hands the lock to the longest waiter, so waiting for it is strongly fair
for every caller. Nothing is assumed of the native processes or of the clients:
readiness may never come and requests may never be cancelled before the signal.
In `release`, steps of a job end, as GitHub bounds the time of a job (weak
fairness), and a maintainer does what the workflow's messages ask for: repairs an
incomplete draft (weak) and runs the workflow for a version again and again,
other runs between notwithstanding (strong). Nothing is assumed of the re-runs
of single jobs.

### The four violations

* `health`: `TryLock` takes `Manager.mu` when it is free. Two status requests at
  once, or one beside a configuration request, make a probe of an idle, stopped
  cell answer "transitioning", which the container's health check rejects. The
  API document says that the handler does not take the transition lock.
* `race`: one rotation between the reader's two opens, when an earlier one has
  made the file with the boundary the backup. The reader opens that backup; the
  rotation removes it and renames the log to `.1`, so the second open finds no
  log, or the new one. The lines of the file in between are missing and the answer
  is marked neither truncated nor `boundary_lost`.
* `reuse`: a session that begins on an empty log has offset 0 and no anchor. When
  its file has been removed by the second rotation and the file system gives its
  number to the new log, that passes for the file of the boundary. (With one line
  more, and a session that both begins and ends on an empty log, a later session's
  line is shown as well; hence `~ReuseInodes` in the theorems about `SmsLog`.)
* `tail`: a bounded read of the call records looks only at the last byte to see
  whether Asterisk is in the middle of a record. A part of a record that ends
  with a newline inside a field passes; quotes are then counted from the wrong
  side, and the read succeeds, perhaps with an empty list, where the comment in
  the code says that it fails.

Beside them the rest holds: `StoppedReportIsCurrent` (a running cell is not
called stopped); as long as inode numbers are not reused, `OwnLinesOnly` (lines of
another session are never shown) and `LostMeansGone` (the resampling works),
also where the collector races the reader; and `WindowIsExact` (between the
appends every window is right).

A fifth observation is a note to a hazard, not a run: "Re-run failed jobs" of a
publish job that failed after its draft was created builds again with the
outputs of the old preflight, creates a second draft and may push an image that
the first draft does not name. Every later preflight then refuses the tag, so
the properties of `Release` are stated for tags with one release.

## 4. Proofs

TLAPS proves for any sets of callers, parameters and bounds, assuming only the
named assumptions in the modules (sets of callers are disjoint, absent values are
no values, bounds are natural numbers, at most `MaxPresets` built-in presets):

* `CellProofs`: `TypeCorrect` and `MutexDisciplineHolds`, that is
  `Spec => []TypeOK` and `Spec => []MutexDiscipline`. The inductive invariant is
  `Basic`: types, the mutex discipline, and `Requests`, which ties the number of
  each pending call to its caller, so that no two starters share one.
* `CellProofs`, second layer: `FailedStartLeavesNothingHolds` and
  `RollbackSparesOthersHolds`. Neither is inductive: what is missing is who owns
  the processes of an unfinished call. `OwnedByHolder` says that `owned` holds
  only instances of the call that holds the mutex, `LiveIsOwned` that every live
  instance of a pending call is owned by it or is the transceiver of an owned
  OpenBTS. `OneOfEachNameHolds` needs `Unique`: by itself the property says
  nothing of an OpenBTS that has yet to fork. `ForkedByOwn` says that a
  transceiver that runs beside an OpenBTS is that one's, so it will not fork a
  second one; `RadioIsFree` that from its admission to the launch of OpenBTS a
  `Start` meets neither, so what it saw then is still true when it launches.
* `CellProofs`, third layer: `RunningCellConfigHolds`, `RunningCellSessionHolds`,
  `EndedSessionIsSilentHolds` and `StartingSessionHasStarterHolds`, from
  `CellInvariant`. Its parts say that the committed handle is open while its
  process lives, so that the running check sees it even when `ps` fails
  (`Handles`), that from admission on a starter runs with no committed OpenBTS
  alive, what a stopper has already brought down, and what each control point
  of `Start` has already established (`Facts`). `StopCompletesHolds` rests on
  `Swept`: at each control point of `Stop` the names killed so far are gone
  (`SweepIsClean`). That this lasts needs the order of the kills, OpenBTS before
  the transceiver, because an OpenBTS still alive may fork another one.
* `PresetProofs`: `StoreTypeCorrect`, `AckedSurvivesHolds`,
  `ServesWhatIsStoredHolds`, `StoreReloadsHolds`, `PoisonedKeepsFileHolds` and
  `StoreImplementsPresetMap`. The inductive invariant `StoreInvariant` adds to
  the properties the shape of the operation under way: what `persist` is about
  to write differs in one preset from the file, or is the seeded map of a file
  that is new or of version 1, and it fits.
* `ServerProofs`: the theorems about `Cell` are used through the lemma
  `ServerIsCell`, which only says that `Server` is put together from `Cell`'s
  actions. `ExitLeavesNoCellHolds` and `ExitCutsNoStartHolds` follow from `Shutdown`: when
  main stops the cell every request is cancelled, so once main's `Stop` has the
  mutex no `Start` is or comes past its admission, and what that `Stop` brought
  down stays down. `StoppedReportIsCurrentHolds` and `ProbesSpareTheCell` are
  about `CellStatus`, whose probes take the mutex of `Cell`; `StatusInv` is the
  invariant of the cell, proved again beside the probes, with the locking of a
  probe and the fact that handles exist only of children that `Start` executed:
  under the mutex a live one of them has an open handle, which the probe sees.
* `SmsLogProofs`: `QuietReadIsExactHolds`, `OwnLinesOnlyHolds` and
  `LostMeansGoneHolds`, for a file system that does not reuse inode numbers; the
  hypothesis `~ReuseInodes` is needed, as the run `reuse` shows. The properties
  speak of an answer; `SmsInv` follows the boundary from its mark to the answer.
  `BoundaryOk`: while the file of the mark has a name, the two names together
  hold exactly what was received since, and later files hold later lines
  only. `FrozenOk`: the same for a session that was stopped, up to its end, as
  long as its first file has a name or is open. `ReadOk` and `MissOk`: what the reader
  has open, and what it means that it missed the file of the boundary: on the
  second attempt it can only have been removed. `QuietOk`: while the collector
  was quiet, the open files are the ones with the names. The rest is about
  cutting texts at lines: that the first and the last newline, the budget and the
  anchor cut the concatenated files where they would cut the history.
* `SubscriberProofs`: `AckedBindingStandsHolds`, `ProjectionFollowsHolds`,
  `RequestsNeverShareHolds`, `EffectIsNotRefusedHolds` (an action property),
  `ShownNumberIsCurrentHolds` and `CompletionIsCurrentHolds`. `RegistryInv` adds to the first two that a request
  past its lock holds `mutationMu` (`Exclusion`) and that its own write still
  stands when it answers, unless a native service changed that subscriber
  (`WriteStands`); `EffectStands` adds for the fourth that from its transaction to
  its answer a request finds its own write and no other holder of its number,
  until a native service writes. The last two follow from it and from lemmas about what a query
  over duplicate rows sees.
* `ReleaseProofs`: `FullTagsNeverMoveHolds`, `AliasNeverRollsBackHolds`,
  `ReportedIsPublishedHolds` and `PublishedIsWholeHolds`. `WorkflowInv` says that a tag holds an image of its
  own version (`HubNamed`), that a run past its build works on an image of its
  version, also one whose inputs come from a preflight made long ago (`JobOk`),
  and that the stable tag names what a full tag has (`AliasOk`).
  `PublicationInv` adds, for tags with one release, what each step of the publish
  job has already attached or seen (`JobNow`), what a kept preflight may still
  assume (`InputsNow`), and that whatever the release names is the image of the
  full tag (`OnlyRelease`), drafts included, since a later run adopts them.
  `ToolInv` adds to
  the property only the shape of the invocations and that a report names an
  image: the tool compares what it reports with what Docker Hub has, and the
  repository's tags are immutable, which the operator confirms with a flag
  (`main.go:346`) and `DockerPush` assumes. Nothing checks it: the rule that
  `docs/RELEASING.md` suggests matches the `x.y.z` tags of the workflow, not the
  tool's `v<version>-<revision>`, so a repository with that rule alone lets a
  later push replace what was reported.
* `SmsParserProofs`: `OncePerGeneration` (`EveryMessageOnce`), `RecordIsShown`
  (`StructuredIsExact`), `NoForeignField` (`FieldsAreOwn`, so for windows whose
  legacy deliveries are `Local`) and
  `ObservationsAreStable` (the action property `StableObservations`), from
  `LogInvariant`. The properties speak of what the parser makes of a log;
  `LogInv` says which logs there are: between two restarts a tag names one message
  (`OneName`), and the delivering thread writes request, text and delivery about
  one message without another's between (`ThreadOk`, with `HolderOk` and
  `DeliveryOk` for what it has yet to write). Every window of such a log is one
  again (`WindowsOk`). From there the argument follows the code: an event takes
  its fields from the lines of its own message (`EventFields`), the loop over the
  events keeps at most one entry for each identity, and an entry is what the
  events so far say (`FoundStep`, `FoundIsOk`). For a log with a line more,
  `EventsStay` and `FoundStays` say that the earlier events are the same and the
  loop only adds to what it had.
* `ReaderProofs`, about `CallHistory`: `CdrInvariant`, `WindowExact`
  (`WindowIsExact`) and `WholeFileHonest` (`WholeFileIsHonest`), for any strings,
  with any number of quotes, commas and newlines in them, and files of any length.
  `CdrInv` says no more than that the file holds whole records without at most the
  end of the last; what matters is what the reader does with it. `EncodedRun`: from
  between two rows a record adds its row and nothing before its last character.
  `Positions` and `StatesAlong`: the reader of the whole text is between two rows
  exactly where a record ends, and never in an error. `Parity`: from the end of the
  text the quotes that follow a place are even in number exactly where that
  reader is not in a quoted column. So `Boundaries`: the boundaries the code
  looks for from the end are exactly the starts of records, whatever the window
  begins with, and the reader that starts there finds the rows that follow
  (`TextSplit`, `ParseSuffix`). For an unfinished file, `InsideCases` lists where
  the reader can be at the end, and `ParseUnfinished` what is made of it.
* `ReaderProofs`, about `ProcessLog`: `LogIsTailHolds` and `ReadyIsSeenHolds`, for
  legacy files of any size. The first property speaks of a writer at rest;
  `TailInv` adds what holds before the log is opened and in the middle of a
  rotation. `GapIsCapped`: a gap follows the backup only where a capped log fills the
  limit by itself. `RotationOk`: once the backup is gone, the file and the piece to
  come exceed the limit together, so the piece, when it is appended, makes up for
  what was dropped. `ReadyOk` says that the tail `processLog` keeps is the end of
  all that was acknowledged, one byte shorter than the marker, so a marker that
  ends in the next read is found, for any marker; a Write that fails is the last,
  so only then the acknowledged output is less than the output.

The parser and the CSV reader are recursive functions over a log and a text. The
library's induction theorems take an operator as a parameter, which the provers
cannot instantiate, so `SmsParserProofs` proves what is needed for sets instead:
a non-empty set of numbers has a least element (`LeastElement`, from the
well-foundedness of `<`), hence a set that holds 0 and with each number the next
one holds all of an interval (`Induction`), and a function exists that is given by
its first value and its steps (`Iterates`). Each recursive function of the model
has one lemma from these (`EventsMeaning`, `MergedMeaning`, `RunMeaning`,
`TextsMeaning`, ...) that says what it is at 0 and from `k - 1` to `k`; every other
lemma uses that.

Each action has its own step in these proofs; what is common to many actions
(a caller stays inside its call, enters or leaves it, launches or kills) is a
lemma. TLC checked the properties first, and the inductive parts were found by
reading off what a failing step was missing; the parts of `SmsInv` were checked
with TLC on the instance of `window` before they were proved, `LogInv` and
`CdrInv` on that of `readers`.

Only model-checked: all liveness, which needs fairness and `ENABLED` and is
beyond the prover, and that the four violations of section 3 do happen. The runs
`lifecycle` and `server` keep `KILL` effective and `ps` answering; what the
theorems say when a process survives `KILL` (`Stubborn`) or `ps` fails
(`PsMayFail`) goes beyond them: of the
properties above only `StopCompletes` and `ExitLeavesNoCell` are stated for
effective kills, and these two, `OneOfEachName` and `EndedSessionIsSilent` for a
`ps` that answers.

## 5. Not modelled

* Validation of parameters, decoding and paging of requests, authentication, the
  formats the SMS parser matches (regular expressions, hexadecimal fields,
  numbers), the handset parsers, the list of active calls, SDR detection, the
  web interface, the configuration file and the check of publication inputs:
  pure functions and single commands, without interleavings of their own.
* The lines of a legacy delivery block one by one. The model keeps the headers of
  a delivery in its own line; what the parser pairs when another message's
  lines stand inside the block is outside what it promises.
* The socket of the collector: one server runs per container.
* `sendsms`: the readiness check and the command are two steps, and the command
  itself reports whether OpenBTS took the message.
* Process numbers: a group signalled after its leader was reaped is assumed not
  to have been reused.
* Dry runs of the release workflow, the text of release notes, the contents of
  the native programs, the container and the firmware.

## 6. Plan

1. `handleCellStop` as probe, stop, probe; reads of the SMS window by several
   handlers; the lines of a legacy delivery block.
