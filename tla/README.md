# A TLA+ model of bakapy

bakapy is a backup server written in Go. `bakapy-scheduler` runs backup jobs on
a cron schedule; each run executes a shell command, locally or through ssh, and
the command sends files to the storage server of the same process over plain
TCP (`_send_file`). The run ends with a metadata file that lists what was
stored, and the scheduler's main loop removes runs that have expired.

Paths below are relative to `src/src/bakapy/`, unless they start with `src/`.

## 1. The system

| Component | Source | State | Operations |
|---|---|---|---|
| Job manager | `storage_jobmanager.go` | `currentJobs` (under `jobMu`), `jobConnectionCount` (under `connMu`) | AddJob, RemoveJob, GetJob, AddConnection, RemoveConnection, JobConnectionCount, WaitJob |
| Storage server | `storage.go`, `storage_conn.go` | the listener, the files under `storage_dir`, the protocol state of each connection | Serve, HandleConnection, ReadTaskId, ReadFilename, ReadContent |
| Job run | `job.go`, `utils.go` (RunJob), `job_metadata.go` (Save) | `JobMetadata` of the run, `FileAddChan`, the updater goroutine | Run, RunJob, Save |
| Script | `bash_executor.go`, `const.go` (`JOB_TEMPLATE`) | the TCP connections of its `_send_file` calls, the exit status | Execute, `_send_file` |
| Retention | `storage_cleanup.go`, `job_metadata.go` | `metadata_dir`, `_corrupted`, `storage_dir` | CleanupExpired, LoadJobMetadata, RemoveFile |
| Scheduler | `cmd/bakapy-scheduler/main.go`, vendored `robfig/cron` | cron entries, their next activations, the timer | main, Cron.run, the cleanup loop |
| Configuration | `config.go` | `cfg.Jobs`, `jobDefines`; none after start-up | ParseConfig, Sanitize, SchedulerString |
| Others | `cmd/bakapy-run-job`, `cmd/bakapy-show-meta`, `src/front/`, `src/commands/`, `src/debian/` | none | one-shot start, listing, web page, packaging |

How they interact:

- A *job run* puts its task into the *job manager* (AddJob), starts its updater,
  and executes the script. When the script is over it calls RemoveJob, then
  WaitJob, which polls the manager until the task's connection count is not
  positive, and closes `FileAddChan`.
- Each connection of the *script* gets a handler goroutine in the *storage
  server*. The handler looks the task up in the manager, counts itself with
  AddConnection, receives one file, sends its metadata to the run over
  `FileAddChan` (capacity 20) and uncounts itself in a deferred
  RemoveConnection.
- The *updater* moves metadata from the channel into `metadata.Files`, which
  RunJob encodes to disk as soon as Run has returned.
- *main* of the scheduler reads the configuration, adds every enabled job to
  cron, starts the storage and then cron, and becomes the cleanup loop. Cron's
  goroutine starts each run in a goroutine of its own.
- *CleanupExpired* reads the metadata files, once a minute, while runs go on,
  and removes data files and metadata.

What is hard about it, and makes the properties: the lookup and the
registration of a handler are two critical sections; nothing acknowledges a
file to its sender; the channel's closing, the updater and the encoder are not
ordered; a failed run neither waits nor closes; the metadata file exists before
it has content; cleanup decides on what it loaded earlier and rebuilds paths
from metadata; the process can stop anywhere, and a panic in any goroutine ends
it. One method of the job manager takes the second mutex while it holds the
first; the header of a connection is counted in characters by one side and in
bytes by the other; cron works with a clock reading that is older than the
clock. `PROJECT.json` lists each of these hazards at its line.

What makes each component correct:

- job manager: the count is the number of registered handlers, so that WaitJob
  returns exactly when no handler counted before is left;
- storage server: every way out of a handler gives its count back; no handler is
  stuck for ever; a file is refused only if its script is over;
- job run: it ends; metadata is neither lost nor duplicated on its way to the
  run, and the record on disk misses no more than the race allows;
- a connection: whatever the network does to the stream, a name and a content
  are taken for what they are, or the connection does not end well;
- scheduler and configuration: what is accepted is what the files say, and every
  activation of an accepted job leads to one run, not early, in order;
- retention: files listed in metadata stay until it expires; metadata goes only
  after its files; a job is cleaned only on the word of a successful last run;
  expired metadata goes in the end.

## 2. The modules

```
StorageJobManager <- Storage <- Job <- Backup <- BackupDelivery <- MCBackup
                                                 (INSTANCE Delivery, Connections)
StorageJobManager <- JobManagerUse
                     JobManagerLocks <- MCJobManager
                     (INSTANCE JobManagerUse)
Wire <- MCWire                            (INSTANCE Connections)
Retention <- MCRetention                  (INSTANCE Archive)
Configuration <- Scheduler <- MCScheduler (INSTANCE Timetable)

Backup <- BackupProofs <- MetadataProofs <- DeliveryProofs -> BackupDelivery
JobManagerLocks <- JobManagerProofs      Wire <- WireProofs
Retention <- RetentionProofs             Scheduler <- SchedulerProofs
```
(`A <- B`: B extends A; the INSTANCE is the abstract specification that the module is
shown to implement.)

**StorageJobManager** — the two maps. A method that holds its mutex throughout
is one atomic operator. `currentJobs` is a set of ids (the record under a key
never changes), `jobConnectionCount` a partial function, because a missing entry
and an entry 0 are different states of the map. `JobDone` is the condition on
which WaitJob's polling loop ends.

**JobManagerUse** — the same atomic methods with the order in which a run and a
handler call them: the abstract specification of the job manager.

**JobManagerLocks** — the methods as they are written, for any number of runs and
handlers. A goroutine is in one method (`op`) at one place of it (`at`: before
the lock, waiting, at the body, unlocking). `Lock`, `RLock` and `Unlock` are those of
`sync.RWMutex`: a Lock that has been announced keeps new readers out and waits for
those that are in, which is where a nested lock can go wrong. RemoveConnection calls
GetJob in between, still holding `connMu`, and decides afterwards on the answer;
WaitJob alternates GetJob and JobConnectionCount. The refinement mapping lets
RemoveConnection take effect at the moment its GetJob looks: the decrement before
it has not happened yet (`Pending`), the deletion after it already has (`Gone`). `CanStep` is what the guards of
the two locks leave of a goroutine's next step: `NoDeadlock` says that it holds for
somebody as long as anything is left to do. A run whose command failed makes fewer of these calls, which is to say that it stops
stepping: safety allows that, and `CallsReturn` is stated of those that go on.

**Wire** — one connection as a stream of bytes, in which a byte is its position.
The script writes any number of bytes at a time and closes. The connection can be lost
anywhere, after the close too, as long as the handler has not read the end of the stream:
`Break` is a loss that the server's kernel learns of, so that a read returns an error,
`Vanish` one that it does not; a handler only reads, without deadline or keepalive (the
packages build with Go 1.5.1, `src/Dockerfile.*`), and then waits for ever. The handler reads
what is there, field by field. A file has a length of
its name in characters, another in bytes (a character may take several; white
space may be lost in the unquoted `echo`), and a content. `Refuse`, `OpenFile` and
`CopyFails` are the ways HandleConnection leaves for reasons that are Backup's subject.

**Connections** — what a connection is to those at its two ends, without bytes and
without job runs: the stages of the client (connected, headed, at the end, lost, which may come after
the end) and of the handler (reading the id, the name, receiving, received, given up), and the two places where
one waits for the other: nobody is admitted before the task id is out, and no file is
received whose stream did not end in order. Wire implements it (`ImplementsConnection`, the
stage read off the bytes written and received), and so do the handlers of Backup
(`ImplementsConnections`, in BackupDelivery). This is what joins the two: Backup takes
headers and contents in one step each, and both sides agree on what such a step is.

**Storage** — `Accept`, `AcceptError` (Serve), and one action for each stretch of
HandleConnection between two points where another goroutine can matter:

| action | `conn[c]` | code |
|---|---|---|
| `LookupJob` | `task_id` → `found` / `refused` | ReadTaskId, GetJob and its early return |
| `ReadTaskIdFails` | `task_id` → `failed` | early return before registration |
| `Register` | `found` → `filename` | AddConnection |
| `NoFilename`, `OpenFile` | `filename` → `receiving` / `aborted` | ReadFilename, JOB_FINISH, MkdirAll, Create |
| `ReadContentFails`, `ReceiveContent` | `receiving` → `aborted` / `sending` | ReadContent; Flush and Close, whose errors are dropped |
| `SendMetadata`, `SendPanics` | `sending` → `sent` / process ends | the send on `FileAddChan` |
| `Leave` | `sent`, `aborted` → `gone`, `failed` | the deferred RemoveConnection |

The content and the name of a file are abstracted to the connection that
carries it: nothing the properties distinguish depends on them. `late` is the
only history variable: the handlers that registered after RemoveJob.

**Job** — Run and RunJob as one goroutine (`run[t]`), the updater, and the
client side of `_send_file`. The encoder's reads race with the updater's
writes. `Receive`, `Added` and `SeenFiles` represent that race: while an append
is in flight, the encoder sees the old slice, the new one, or the new length
with an element not yet written (`NoFile`). `TotalSize`, the other field the
updater assigns, is not a variable. A script whose run failed may be
alive on the remote host and go on connecting (`ScriptAlive`). A client that has closed
is `eof` to its script for good, but the connection may still be lost (`dropped`,
`LoseConnection`) until its handler has read all: the script succeeds all the same.

**Backup** — all goroutines interleaved. After a panic only stuttering is left:
nothing restarts the process (`src/debian/bakapy.upstart` has no `respawn`).

**Delivery** — the abstract specification of a server process: what it promises
about the files of a task, without counts, registry, channel contents or
goroutines. Each task has a gate (`new`, `open`, `withdrawn`, `settled`,
`closed`), each connection a status. The promises are in the guards: nobody is
admitted after the gate was withdrawn, a task is settled only at a moment when
nobody is inside, what is delivered stays delivered, and only a connection that
is still inside when the gate has closed can end the process.

**BackupDelivery** — the refinement mapping. The gate is read off the registry,
the closing of the channel and the goroutine of the run; the status off the
handler's position and the run's `Files`. A run that fails leaves its gate
`withdrawn` for ever: the code neither waits nor closes. `ImplementsDelivery`
says that Backup implements Delivery under that mapping. Delivery lets a
connection enter after the task was settled, because the code does: the
property that forbids its consequence is the one `send_on_closed` refutes.

**Retention** — the disk over the life of several runs and restarts. A run is seen
from the disk: it begins, stores files under paths, returns, creates its
metadata file, writes it. CleanupExpired is taken apart into the steps between
which a run, the clock or a stop of the process can come: read the directory,
visit a file, move a corrupted one, judge a job by its last run, review a run,
remove a file, remove the metadata. A file name is an element of a set, and so is a path:
`PathOf` says what path.Join makes of namespace and name, `WithGz` what the suffix makes of a
path, and neither is injective (a gzip job's `x` and a plain job's `x.gz`, the namespace `a`
with `b/x` and `a/b` with `x`, and `..`). How a file travels is the subject of Backup; here
`CreateFile` is a handler's os.Create, which truncates what is at the path, and `ListFile`
the updater's append. Handlers go on creating files after their run has returned and
saved its record (a failed run waits for none of them, a successful one not for the late
ones) until the process stops; what they create no record lists.
`FaultyRuns` are the runs on whose files os.Remove and os.Rename may fail, and on whose complete
record ioutil.ReadFile may: LoadJobMetadata then fails, and the record is moved like a
corrupted one (`unread` is a history variable for those). `WalkFails` is the error of
filepath.Walk that ends a round for all jobs.

**Archive** — the abstract specification of Retention. There is no cleanup round in it,
only what may happen to a file or a record at a time: a run touches nothing but its own,
and once it has ended nothing that its record lists; a record goes from the directory to `_corrupted` or is
removed, once; a file is removed only for a record that is there, complete, expired and
vouched for by a successful run of the job at least as new; and the record goes only when
none of its files is left where it is looked for. `ImplementsArchive` maps every step of a
round but the four that touch the disk to stuttering. Archive has both places of a file,
where it is saved and where it is sought, because for a job with gzip they differ: what it
promises is kept by the code whatever the names are.

**Configuration** — one definition of a job, from its fields to the words that
`cron.Parse` sees: a blank field leaves no word, except the second. `Sanitized`
multiplies at the width of an int64 (`Limit`). A field is Blank, Garbage or a word: the
numbers it lists, and whether it begins with a star and with which step, because `*/5` sets the star
bit in `parser.go` and lists numbers as well, and cron matches day and weekday by that
bit. Ranges and names of months are notations for such words.

**Scheduler** — main from ParseConfig to the cleanup loop, and the goroutine of cron.
`IncludeFile` merges one included file; `AddEntries` drops the jobs that are disabled or whose
`run_at` does not parse; `Listen` may panic (another process, such as
`bakapy-run-job`, has the address). In the loop of cron, `FirstTimes`, `Arm` and `Fire` are
separated wherever time can pass: the timer is set from the variable `now`, which
is older than the clock, it may fire late, and what it delivers may be read later
still. `launched` and `started` are history. A run goes its own way after `Launch`:
nothing waits for the previous run of the same job, as in Retention. The wall
clock of the model never goes back.

**Timetable** — the abstract specification of the loop of cron: no timer, no entries, no
stale clock. The activations of all jobs after the start are worked off one time after the
other, the earliest first, each for all the jobs that have it. `ImplementsTimetable` says
that Scheduler does that, however late its timers fire.

## 3. What TLC checks

Instances of Backup have a channel of capacity 1 instead of 20, so that a full
channel is reached by the second handler. Every interleaving that matters there
is between a run and the handlers of its own task; what two tasks share, the
registry, is checked in `job_manager`, and the proofs cover any number.

| run | instance | shows |
|---|---|---|
| `one_task` | 1 task, 3 connections, each of which may send `JOB_FINISH` | one handler that has sent, one blocked and one late at the same time: count, wait, panic cause, conservation, refusal, bounded loss, nobody waits for a goroutine that is gone, and the inductive invariant of the proofs |
| `backup_liveness` | 1 task, 2 connections | a run, the updater of a closed channel and every handler end; Backup implements Delivery and, of its connections, Connections |
| `job_manager` | 2 runs, 2 handlers of the first | no data race on the maps, no deadlock, nobody forgotten by an Unlock, every call returns; the locks implement the atomic methods |
| `wire` | 5 files, of which one has an empty content and three a name that does not fit | which names arrive; the content arrives whole, or the connection does not end well; a handler ends after its client, except one that has vanished; Wire implements Connections |
| `retention` | 2 runs of a job, 1 file each, created before or after the run has returned, clock to 1; removes, renames and reads of the second run that may fail; one stop or failed walk | listed files stay; the newest run that could be loaded decides; no orphans; expired metadata goes; Retention implements Archive |
| `scheduler` | 2 jobs, 30 configurations with and without `-test`, 8 seconds of a toy calendar, timers up to 2 late | the accepted configuration is what was written; no activation skipped, early or out of order; every one runs; Scheduler implements Timetable |

`MaxAge` is 1, so that a run of time 0 expires within the clock while one of time
1 does not, and two runs may start in the same second, where the order of
the sort is open. One interruption (a stop, or a failed walk) is enough because
what is in memory is lost at each of them and Retention keeps nothing about it
but the disk; the proofs cover any number. In `scheduler` a minute has two
seconds, a day two minutes: the seconds carry into the minutes and these into
the days within the 8 seconds, and a lag of 2 lets a timer be overtaken by two further activations of an
every-second job. `Limit` is 8 and a day 3, so that a `max_age_days` of three overflows. In
`wire` the base is 2 and the length field has two digits, so that a name of 4
characters needs one more. Only `one_task` uses symmetry, and no run with a
temporal property does. `backup_liveness`, `scheduler` and `run_at` do not check for
deadlock: the system stops when its runs have ended, or the clock at its
bound; the other runs have an explicit step for that (`Finished`), or never stop.

**Disagreements.** These properties are what a document, a comment or a test says,
and TLC shows a behaviour of the code without them:

| run | the behaviour |
|---|---|
| `send_on_closed` | a handler has looked its task up, the script is over, RemoveJob and WaitJob see a count of 0, the channel is closed; the handler registers, receives its file, sends on the closed channel: the process panics |
| `sent_files_missing` | the connection is accepted, the script writes the file to its end and exits with 0; RemoveJob comes before the handler's GetJob: the file is refused, the run is saved as a success without it |
| `run_at` | with the minute left out, `run_at` gives five words; cron takes the first five fields to be given and the weekday to be free: the hour is read as the minute |
| `reused_names` | two runs that send one name (as the README's own example does) share a path: os.Create of the newer one truncates the file that the older one lists and has not kept for its time (no cleanup takes part) |
| `gzip_orphans` | cleanup removes `name` where the storage wrote `name.gz`, and then the only record of it |
| `moved_while_written` | the walk loads a metadata file between Save's Create and its write, finds it corrupted and moves it; the write completes in `_corrupted` |

Others met while modelling, which no run is spent on: an entry 0 of
`jobConnectionCount` stays for ever when the last connection ends before
RemoveJob (`ConnectionCountExact` shows it misleads nobody);
`STORAGE_AUTH_TIMEOUT` is declared and never used, so a silent client keeps its
handler; a failed Flush or Close leaves a short file that is reported as
handled; files the updater has not yet added when Save encodes are missing in the
record of a successful run (`LossBounded` bounds how many, and
`job_test.go:207-208` passes because its WaitJob double sleeps); a run that fails
after the walk has passed does not stop the cleanup of its job in that round; a complete
record that cannot be read at the moment is moved to `_corrupted`, and if it was the
failed last one an older run has the word on the job (`DecidedByNewestRun` excepts it);
files of late handlers, and of runs that a stop cut short, are in no record, and nothing
looks for them; where os.Remove fails the record goes all the same; a host that vanishes is
never noticed, and a connection lost after the script's close leaves a successful run without
the file; an empty definition of a job in the YAML is a nil pointer that Sanitize
dereferences; a `run_at` with `*/0` makes cron's getBits loop for ever; files of different
jobs can share a path (see Retention above);
HandleConnection closes no connection, which leaves that to the garbage
collector; a producer that dies in the middle of a pipe ends its stream like one
that is done, and the short file is accepted; `-test` accepts a configuration with
jobs that cron refuses; and of a job that both the main file and an included one
define, the first definition is lost without a word (`JobsAsWritten` says exactly that).

## 4. Fairness

`Backup!ServerFairness` is weak fairness of each handler, of each run's goroutine
and of each updater: the Go scheduler runs what can run, and no step waits for a
lock that another may take again and again (the critical sections are single
steps that are always enabled). WaitJob polls; weak fairness of its exit is
justified because `JobDone`, once true, stays true until the run acts, except
for a late handler, which ends. `ScriptFairness` is an assumption about the environment: scripts end, and
a client that has connected sends all it has or loses its connection in a way that
the server's kernel learns of. It excludes clients that stall and hosts that vanish: the code
sets no deadline, so with one of those a run can wait for ever, as section
3 says, and `RunEnds` and `ConnectionEnds` say nothing of that case. Losing a connection
(`LoseConnection`) has no fairness. Dialling and AcceptError have no fairness.

`Retention!FairSpec` is weak fairness of the cleanup loop only: the main goroutine
of the scheduler never leaves it. Runs, the clock and the stops of the process
may cease at any time. A walk that fails at every round is beyond what
`ExpiredRemoved` says: the bound on interruptions lets it fail a finite number of times.

`JobManagerLocks!FairSpec` is weak fairness of each goroutine. It is enough although
they wait for mutexes: a Lock, once announced, stays at the head of the queue until it is
granted, and WaitJob's loop is a process of steps of its own, each of which is enabled
when it is reached.

`Scheduler!FairSpec` is weak fairness of cron's goroutine and of the clock. The bound
`MaxLag` on the clock's advance while a timer is due says that the process is not
suspended for ever; main has no fairness and may stay anywhere.

`Wire!FairSpec` is weak fairness of the handler as long as the client has not vanished: what is
still under way from one that has need not arrive. Nothing is assumed of the client: it may
stall or vanish, its handler then waits for ever, and `HandlerEnds` is about the cases in
which it does neither.

## 5. What is proved

TLAPS checks the proofs for every value of the constants.

**BackupProofs**, from `StorageAssumption` and `NoFileAssumption` (finitely many
connections, a task for each, a positive capacity): any number of tasks and
connections. `IInv` is the inductive invariant: the type invariant and the five
properties, plus two facts about how the components agree. `ConnectionCountExact` is
inductive by itself, through lemmas on what registering and leaving do to the
cardinality of `Handlers`. `OnlyLateHandlersAfterWait` needs it (the count WaitJob
read is not positive, so no handler is registered) and
`RunAgreesWithRegistry` (a handler that registers after that finds the task
gone, hence is late). `PanicOnlyFromLateHandler` follows from that at the step that
panics. `RefusedOnlyAfterScript` needs `RunAgreesWithRegistry` (a task is in the
registry while its script runs) and `ConnectedAfterStart` (nobody connects
before the task has started). `NobodyWaitsInVain` is about who has to wake whom: a run that
WaitJob holds back has a handler that is registered (by `ConnectionCountExact`: the count is
positive), and an updater is there as long as something is in the channel, or is about to be
sent on it while it is open. Its helper `ChannelDrained` says that an updater stops only at an empty, closed
channel.

**RetentionProofs**, from `RetentionAssumption`: any number of runs, jobs, files,
stops, any age. `FilesKept` has the additional assumption `FreshPaths` (every file
has a path of its own, and none is saved where the cleanup looks for a file of another
run), without which the property is false (`reused_names`); different names would not be
enough, since different names may share a path. The argument: what is loaded has been written, so its run
has ended; what cleanup removes belongs to a run that has expired; and a path
belongs to one run. `NothingOrphaned` assumes no gzip and no failing removals
of the run in question, without which it is false (`gzip_orphans`); its invariant
`RemovedSoFar` says that the files of the run being removed are gone up to the
cursor, through any stop in between. `NewestRunDecides` needs no assumption on the
runs: `WalkInv` says that what was recorded when the round began is visited,
loaded, or among those that could not be loaded, and stays written, `JudgedInv` that the runs under review are those of one
job on the word of a successful one that none of them is newer than.
`RetentionInvariant` is the conjunction that the run checks.
`CleanupKeepsArchive` is the refinement, with no assumption on paths or gzip, with handlers that
outlive their run, and with failing removes and reads, so that it
says what is left of the two promises where `FilesKept` and `NothingOrphaned` do not apply. A
step of a run or of the process maps to its counterpart, a step of a round to one of the
three of the cleanup or to a stutter. `RemovingIsDue` gives the guards: by `RemovalInv` the run being removed
has expired, by `JudgedInv` it is vouched for, and by `FilingInv` its record is still in the
directory, since a round has loaded every record that it reviews and removes none twice.
`SoughtSoFar`, the counterpart of `RemovedSoFar` for the place where cleanup looks, is what
lets the record go. `FilingInv` follows the record through all the sets of a round and is
inductive together with `RemovalInv`.

**MetadataProofs**, from the same assumptions as BackupProofs. `MetadataConserved` is
inductive given `IInv`: the one step that moves metadata between files and
channel leaves their concatenation as it is, the send appends one element that
was in neither, and lemmas on sequences say what both do to the set of elements.
`LossBounded` needs `RecordAfterClose` (when a successful run
writes its record the channel is closed, so nothing more is sent) together
with `MetadataConserved` and the capacity of the channel: what the record lacks is
in the channel or with the updater.

**DeliveryProofs** proves `BackupImplementsDelivery`, the refinement, by step
simulation. A step of a handler changes the status of its own connection only
and no gate, a step of a run the gate of its own task only; Receive alone
changes a status from the run's side. Three facts of the invariants carry the
rest: `ConnectionCountExact` makes WaitJob's return a `Settle`,
`RunAgreesWithRegistry` puts the gate into the right state at each step of the
run, and `MetadataConserved` says that what the updater collects was delivered.
`BackupKeepsConnections`, the second refinement, needs the types only: an end of a connection
is moved by its own script and its own handler, and all other goroutines stutter.

**JobManagerProofs**, from `LocksAssumption`: any number of runs and handlers. `LockInv` is
the mutexes' side (one announced writer, no reader once it is in, readers where they say
they are), `RegistryInv` the meaning of `currentJobs`; `MapsAreGuarded` follows from the first.
`LocksImplementUse` proves the refinement by step simulation. It needs one more invariant
(`EntryInv`: the entry of a task exists while a handler of it waits for the answer of
the GetJob in RemoveConnection), and uses that a handler in RemoveConnection has connMu,
so that of all handlers one at most is `Pending` or `Deciding`. `NobodyForgotten` proves `QueueInv`: an
Unlock lets in every reader that waits. `SomebodyGoesOn` proves that the goroutines never all
wait for each other: the holder of a mutex can go on unless it waits for the other one; only
RemoveConnection does that, for `jobMu`, and nobody who holds `jobMu` waits for anything.

**SchedulerProofs**, from `ConfigurationAssumption` and `SchedulerAssumption`: any jobs, files,
bounds and calendar. `ParsedSoFar` carries the merge: which of the files read so
far defines a name. `Waits` relates timer and entries: the effective time is the least of the
next activations and not after the deadline. `NoActivationSkipped` is inductive given it,
since Fire moves exactly the entries that are due from one activation to the next.
`NoneTooEarly` and `InOrderOfTime` follow from the same invariant, and `CronKeepsTimetable` is the refinement:
Fire launches all that waits for the least time that is pending, and `Arm` none.

**WireProofs**, from `WireAssumption`: fields of any length (a task id has a byte at least), any base, any file. `PositionInv` says at
which byte each step of the protocol stands; `NamesArrive` and `ContentArrives` follow by arithmetic.
`WireIsConnection` is the refinement: `PositionInv` places the handler's reads behind the writes,
so that an admitted handler has the id and a finished one the whole name.

Only model-checked: the liveness properties, which are out of the prover's reach,
as are ENABLED, induction over data and RECURSIVE operators.

## 6. What is not modelled, and the plan

Not modelled: the command line of `bash_executor.go`, logging, mail
(`SendFailedJobNotification` runs after the record is saved and changes
nothing), `bakapy-show-meta` and the web page (read-only), packaging, the
backup commands (in the model they are the choice of when a connection is made
and how the script ends), `bakapy-run-job` (the steps of Backup with one task, after which
the process ends). Of cron, the package: entries added after Start, Stop and
snapshots, which bakapy never uses, and a wall clock that is set back.

Order of work, the most important behaviour first:

1. StorageJobManager, Storage, Job, Backup: done, with the proofs of their
   safety invariant.
2. Retention with restarts, failing removals and failing walks: done, with its
   proofs, including `DecidedByNewestRun`.
3. Delivery, the abstract specification, and Backup shown to implement it:
   done, model-checked and proved.
4. Proofs of `MetadataConserved` and `LossBounded`: done.
5. The lock-level job manager, shown to implement the atomic one: done,
   model-checked and proved.
6. Scheduler and configuration: done, with the proofs of their safety properties.
7. The bytes of a connection: done, with the proofs of its safety properties.
8. What the models promise each other: Connections, implemented by Wire and by the
   connections of Backup; Archive, implemented by Retention; Timetable, implemented by
   Scheduler: done, model-checked and proved.
9. The runs of Retention as those that Timetable launches and Backup performs: not begun.
   Archive and Timetable are the interfaces for that.
