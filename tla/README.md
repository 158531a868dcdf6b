# Formal model of AFL-Interface

AFL-Interface is afl-fuzz 2.57b (with AFLGo's distance schedule) extended by a
control channel, and an HTTP monitor that uses it. The fuzzer runs a target on
mutated seeds; the monitor pauses it, resumes it, and reads or overwrites its
queue while it runs. The two are separate processes that share one memory-mapped
file and no lock.

This directory holds TLA+ modules translated from the code under `src/`, the TLC
configurations that check them, and proofs for TLAPS. `PROJECT.json` maps every
definition to the lines it models.

## 1. Inventory

### Mailbox: `struct CaseInfo` (`case_info.h`)
- *State*: `status`, `op`, and the data areas `queue[]`, `queue_len`, `queue_cur`,
  in a file mapped by both processes.
- *Operations*: the fuzzer polls `status` before every run of the target
  (`common_fuzz_stuff`) and serves `op`; the monitor's `class Fuzzer` waits until
  `status` is not INTERRUPT, stores INTERRUPT and `op`, and for reads and writes
  waits again. `init_case_info_mmap_link` truncates and re-creates the file at
  every start of afl-fuzz.
- *Hard*: no lock; separate loads and stores; two bounded waits; a fuzzer that is
  killed and started again under the monitor's mapping; several HTTP threads on
  one mailbox.
- *Correct means*: the outcome appears after the work, an operation is served once,
  PAUSE means the target is not running, nobody is in a data area while the fuzzer
  serves, unless another client's raise has overtaken them there, every request ends, a
  live fuzzer answers.

### Monitor: routes, `class Fuzzer`, `class FuzzerManager`
- *State*: a map from fuzzer id to `Fuzzer`; each `Fuzzer`'s mapping.
- *Operations*: `/add` (build, look up, insert, connect), the others (look up, null
  guard, mailbox protocol), each in the connection's thread.
- *Hard*: no lock around the map; an object is visible before it is connected;
  `connect` may fail half-way.
- *Correct means*: an id keeps its fuzzer, a connected fuzzer can be named, an
  unconnected one is refused.

### Seed queue and culling (`update_bitmap_score`, `cull_queue`, `add_to_queue`)
- *State*: the list of `queue_entry`, `top_rated[]`, `trace_mini` and `tc_ref` of
  the winners, `score_changed`, and the counters `queued_favored`,
  `pending_favored`, `pending_not_fuzzed`.
- *Hard*: long sequences of calls keep redundant data consistent: reference counts
  against winners, counters against flags, the favored set against `top_rated`;
  traces of one seed may differ from run to run; the monitor overwrites flags.

### fuzz_one, calibrate_case, perform_dry_run, trim_case
- *State*: `cal_failed`, `trim_done`, `was_fuzzed`, `exec_cksum`, the cost of a seed.
- *Hard*: entries that fail, come back, are abandoned, are shortened half-way;
  random skips against the promise that favored seeds are fuzzed.

### Fork server (`init_forkserver`, `run_target`, `__afl_start_forkserver`)
- *State*: `child_pid`, `child_timed_out`, `prev_timed_out`, the interval timer,
  `stop_soon`; in the server its child and `child_stopped`; two pipes; `trace_bits`,
  shared with the children.
- *Operations*: a request and two answers (pid, wait status) per run; SIGALRM and
  SIGINT handlers that kill whatever `child_pid` names. In persistent mode the child
  stops itself after an input and is continued for the next one.
- *Hard*: the timer races with the end of the run in two other processes; the server
  may believe a child stopped that is dead; the target may hang at any point.
- *Correct means*: one child at a time, none while `trace_bits` is evaluated, the
  verdict is about this run's input, every run ends.

### Triage of an execution (`save_if_interesting`, `has_new_bits`, `calculate_score`)
- *State*: `virgin_bits`, `virgin_tmout`, `virgin_crash`; the files of unique crashes
  and hangs and their limits; `max_distance`, `min_distance`; `distance`, `handicap` and
  `has_new_cov` of an entry.
- *Hard*: bits are taken off a map before it is certain that the input is kept; a
  timeout is run twice and may turn out a crash; a calibration may fail after some of its
  runs and is repeated when its entry comes up again; two functions keep the limits of the
  distances; the score depends on both.
- *Correct means*: what a map no longer asks for has a witness, distances are
  normalised, the score stays in its range.

### The data in the mailbox
- *State*: the array `queue[MAX_QUEUE_LEN]`, `queue_len`, and `queue_cur` behind it.
- *Operations*: four functions of the fuzzer copy between them and the entries, by
  place; the monitor turns them into JSON and back, and a field that a body leaves out
  keeps what the array holds.
- *Hard*: the queue moves on between a request and its service, distances included; a
  restart makes queue and mailbox anew while a client holds an old list; a body may have
  any length and name anything; neither side knows a bound.
- *Correct means*: reads disturb nothing, writes reach the entries they were read
  from, nothing that was read in the same session ends the fuzzer by being written back.

### Output directory and resume (`maybe_delete_out_dir`, `pivot_inputs`, `nuke_resume_dir`)
- *State*: `queue/` with test cases and markers, `_resume/` while a session is resumed
  in place; in memory `passed_det`, `fs_redundant`, and the id in each name.
- *Hard*: the fuzzer may be killed between any two calls, and the next start must find
  its way from what is there; files and markers are created with O_EXCL, and the
  fuzzer dies if disk and memory disagree.
- *Correct means*: nothing saved is lost, no marker either, disk and memory agree.

### Import from other fuzzers (`sync_fuzzers`)
- *State*: `.synced/<peer>`, the first id of the peer not yet looked at.
- *Hard*: the peer's directory is listed in no order while the peer adds, rewrites and,
  after a kill, renames and renumbers files; the importer may be killed as well.
- *Correct means*: everything below the mark has been run.

### Deterministic stages (`fuzz_one`, `could_be_*`)
- *State*: the buffer, the effector map.
- *Hard*: three filters predict what earlier stages have produced, with carries,
  borrows, two byte orders and bits counted in two ways.
- *Correct means*: no mutant is left out and none is run twice.

### Not modelled
| Part | Why |
|---|---|
| 32-bit flips, arithmetic and interesting numbers | TLC's integers are signed and 32 bits wide; the code is that of the 16-bit ones with wider casts |
| Havoc, splicing, extras, `choose_block_len`, `maybe_add_auto` | random mutations, with no outcome to compare with; the token list serves only them |
| The annealing and the factors of `calculate_score` that `perf_score = 100` discards | dead in this build, see section 5 |
| Crash mode (-C), dumb mode, -M/-S beyond the import, `seek_to` | further values of a flag, or a place to start from |
| Exec failure, MSAN's exit code, the assembly fork server of `afl-as.h` | no further states of the protocol |
| Backups of `crashes/` and `hangs/`, `auto_extras`, `variable_behavior`, flock, the fresh start over an old session | nothing else depends on them |
| `trim_case` byte by byte | keeps what leaves the checksum alone; no state beyond the buffer |
| Status screen, plots, statistics files | output only |
| `/hello`, JSON conversions as text | no state; that they may throw is `StoreThrows`, what a missing field does is `FromJson` |
| afl-tmin, afl-analyze, afl-showmap, afl-cmin, afl-as, compiler wrappers, LLVM pass | one-shot sequential tools |
| libdislocator, libtokencap, alloc-inl.h | helpers outside the fuzzer's logic |
| `json.hpp` (24765 lines), qemu_mode, experimental, dictionaries, CMake's probes | vendored, generated, patches or data |
| `afl-fuzz.codecheck.c` (8456 lines) | an earlier copy of `afl-fuzz.c` that nothing compiles |

The last three rows are more than two thirds of the repository's lines of code, so
the mapped share of all lines is small by necessity; of `afl-fuzz.c` it is more than a
third, and of the monitor's own headers most.

## 2. Modules

| Module | Models |
|---|---|
| `CaseInfo` | the mailbox protocol, fuzzer and clients |
| `DataArea` | the lock that this protocol implements, as weak as it is |
| `CaseInfo_proofs` | theorems on `CaseInfo` |
| `SeedQueue` | queue, scoring, culling, the way of an entry through `fuzz_one` |
| `SeedQueue_proofs` | theorems on `SeedQueue`: types, `tc_ref`, `trace_mini`, counters, favored cover, best winners |
| `FuzzerManager` | registry and connections |
| `FuzzerManager_proofs` | theorems on `FuzzerManager` |
| `ForkServer` | `run_target`, the fork server, its children, the signal handlers |
| `ForkServer_proofs` | theorems on `ForkServer` |
| `Triage` | one execution judged: virgin maps, new entries, calibration, distances and score, crashes and hangs |
| `MonitoredQueue` | extends `Triage` by the data areas, the four copying functions, a client and restarts |
| `MonitoredQueue_proofs` | theorems on `Triage` and `MonitoredQueue` |
| `OutDir` | the output directory through fuzzing, trimming, kills and in-place resumes |
| `OutDir_proofs` | theorems on `OutDir` |
| `SyncFuzzers` | extends `OutDir` by a second fuzzer that imports from it |
| `SyncFuzzers_proofs` | theorems on `SyncFuzzers`, with those on `OutDir` |
| `Stages` | the deterministic stages on a buffer, with their filters and the effector map |
| `Stages_proofs` | theorems on `Stages`, and on the bits of bytes and words |
| `MC*` | instances for TLC |

### CaseInfo
Every load and store of `status` and `op` is a step. The fuzzer's phase `fpc`
follows `common_fuzz_stuff`: `Poll` (load `status`), `ReadOp` (load `op`), `Serve`
(copy and store the outcome), `SetRunning` (the store after READY or
TASK_FINISHED), `Exec` (run the target and come back). The loop loads `status`
anew for each comparison; that equals one load per step, since a branch is taken
only if `status` has its value at some load and otherwise the loop turns again.
The client's phase `cpc` follows the route: an optional wait before the data area
is filled (`preWait`, `store`), the wait inside `op_*` (`opWait`), the two stores
(`raise`, `post`, in the order of the source), the wait for the outcome
(`resWait`), the copy (`fetch`), the reply. `WaitMore`/`GiveUp` are the counted
sleep: one more look than `tries` allows, then an exception, which `op_*` swallow
and everybody else turns into a 500. `/read/all` makes two reads in a row.
`Crash` may happen anywhere; `Restart`, `Resize`, `InitStatus`, `InitOp`,
`ClearEntries` are the steps of the start-up; a client that touches the file
while it has no length dies of SIGBUS with its process (`Sigbus`). The data
itself is abstracted to who is accessing it: the clients `Inside`, the fuzzer while it
serves (`Busy`) and while `init_case_info` empties the areas (`Clearing`, with `status`
already at RUNNING). `wanted`, `answered`, `held` and `overtaken` are history
variables; `overtaken` has the clients that were inside when another one raised.

`DataArea` is the lock this makes. A claim asks nobody inside to come out; the fuzzer
serves once for each claim, and meanwhile nobody enters, so that only those overtaken by a
claim can be inside with it; a fuzzer that starts clears the areas whoever is inside. The
mapping takes `claimed` from `wanted` and the fuzzer's place from its phase.

### SeedQueue
afl-fuzz has one thread, so a step is a whole function, except for the two loops
over the bitmap (`update_bitmap_score`, `cull_queue`), one byte a step. A seed is
its position; a trace is the set of its nonzero bytes; `exec_us * len` is one cost;
`trace_mini = NULL` is the empty set (a scored trace is never empty). `pc` follows
`perform_dry_run`, then the main loop (`cull`, `pick`, `fuzz`, `next`) and
`fuzz_one` (`trim`, `work`, `end`). A calibration picks the trace whose checksum is
kept and, unless `Stable`, another one for the scoring (`trace_bits` of the last
run). All of UR()'s decisions are free choices. `WriteQueue` is the part of the
mailbox's write operations that touches entries; it can only happen where
`common_fuzz_stuff` runs. Left out: dumb and crash mode, -M/-S, `seek_to` of a
resumed session, SIGINT during the dry run.

### FuzzerManager
A thread's phases are the steps of its handler; `Add`, `Check`, `Insert`, `Connect`
for `/add`, `Lookup`, `Get`, `Guard`, `Use` for the rest. The container is taken to
survive concurrent calls, which is more than `std::unordered_map` promises.
`Use` ends in a crash if `mmap` had failed, as MAP_FAILED passes the null guard.
`remove_fuzzer` and `clear_all_fuzzer` are unreachable and left out.

### ForkServer
`pc` follows `init_forkserver` and `run_target` from one system call to the next,
`spc` follows `__afl_start_forkserver`; `ctl` and `st` are the two pipes. `Finish` and
`Crash` are the target: a child ends its input or dies at any time, or never does.
`Alarm` and `Stop` are the handlers, between any two steps. An input is the number of
its run; `finished`, `crashed` and `alarmed` remember what became of it. Handlers are
installed with SA_RESTART and SIGPIPE is ignored, so a system call returns because
of the pipe, never because of a signal. `fork` and the store of `child_pid` are one
step. `no_forkserver` stands for dumb mode too.

### Triage and MonitoredQueue
A step of `Triage` is one execution with everything `save_if_interesting` makes of it,
its calibration and second run included. A trace gives each byte of the bitmap a class
of hit counts (the bits `count_class_lookup` leaves); a virgin map is the set of bits not
seen. A distance of 0 or -1 is 0. `CalculateScore` keeps the only factor this build
does not discard, to a power of 2; `Scored` is its side effect on `handicap`. A
calibration that fails in its first run leaves no mark; one that fails later leaves
those of the runs before. All three callers are there: `DryRun`, `Interesting` and
`Recalibrate`, which is `fuzz_one` with an entry whose `cal_failed` is not 0: it counts
another failure, or finds bits and perhaps a distance, and only with news does the entry
go on to be fuzzed. `AddWidens` and `CalibrationWidens` are the two copies of the code
that keeps the limits. `ranBits`, `crashBits`, `hangBits` and `unconfirmed` remember
what the target did.

`MonitoredQueue` serves, in one step, the operation a client has raised: in `DataArea` a
client that is alone never meets the service. Whatever `FuzzStep` and `NextEntry` do may
come between `Post` and `Serve`; `NextEntry` is the next turn of the main loop as far as
the stages, where the fuzzer polls the mailbox (`polling`), if `fuzz_one` does not skip the
entry or give it up after another calibration. `area` is the array
with `queue_cur` as its last element, as in the struct: a list that is one entry too
long lands on it, and one longer leaves the struct, which ends the model's fuzzer
(`alive`), as does a walk past the end of the list. The client sends back what it has
read, with one entry edited, with or without its distances (`FromJson`), or a list of any
length made up of other entries (`MadeUp`). `favored`,
`was_fuzzed` and `user_set_perf_score` travel together as `marks`. `Restart` makes the
mailbox anew and starts with the old queue's names or with the corpus only.

### OutDir and SyncFuzzers
Every unlink, rmdir, open and write that separates two states of the directories is a
step, and `Kill` may come before any of them. A file is `<<id, seed>>`; `names`, `empty`,
`det` and `red` of a directory are its files, those without bytes yet, and the two
kinds of markers. `Create` is the open with O_EXCL. `Pruned` is the next step of `delete_files` on a directory with its
`.state/`, `Moves` the rename that "fails silently". A create on an existing file or
an unlink of a missing marker is `pc = "fatal"`. The sorted listing gives each file the
number of files with no greater id (`Place`). A session that finds no usable test
case gives up and may be started again. History variables: `saved`, `detDone`, and
`atRisk`, `detAtRisk` for the two moments described in section 5.

In `SyncFuzzers`, `Return` is one round of the loop over the peer's files, in any order;
`ShowNew` and `Watched` are what POSIX lets readdir do with a directory that changes:
a new file may be returned or not, a removed one too, and a directory that was moved
is listed on. `owner` remembers which seed bore an id first.

### Stages
Each stage of `fuzz_one` is two loops, over the places of the buffer and over what is tried
in one place; `stage`, `place` and `variant` are their counters, from one. `Mutant` is what
the turn would run and `New` whether its filters let it. A turn is `Exec` or `Skip`;
`Exec` decides in the walking byte flips, freely, whether the trace changed. `NextStage`
leaves a stage, after the byte flips with the effector map filled up if it is dense;
`Abandon` is the exit when `common_fuzz_stuff` asks for it. The numbers are those of
`config.h`, but `EffMinLen`, which is lowered to 3 so that a byte of a short buffer can be
found ineffective, and `EffChunk`, 1 for the same reason. The properties compare with a reference that knows
nothing of the filters: all flips, sums, differences and interesting numbers (`Wanted`).

## 3. Runs

| Run | Asks | Bounds |
|---|---|---|
| `mailbox_safety` | do the promises of the handshake, and the lock it makes (`DataArea`), survive two interfering clients, give-ups, crash and restart? | 2 clients (symmetric), one route of each kind, `OpTries` 0, `ResultTries` 1, 1 crash, 1 start |
| `mailbox_single` | termination of requests, answers | 1 client, all routes, `OpTries` 1, `ResultTries` 2, 1 crash, 1 start |
| `mailbox_false_success` | *violated*: does 200 mean served? | 1 client, `/write/cur` |
| `mailbox_stop_paused` | *violated*: does Ctrl-C end a paused fuzzer? | 1 client, `/pause` |
| `queue_refs` | reference counts, `trace_mini`, the favored cover | 2 bytes, 2 seeds, unstable, failures, 1 write by the monitor |
| `queue_live` | best winners, counters, favored seeds fuzzed | 2 bytes, 3 seeds (2 initial), stable, failures |
| `queue_unstable` | *violated*: do the favored counters count seeds? | 3 bytes, 2 seeds, unstable |
| `forkserver_runs` | one child, quiet `trace_bits`, verdicts of their own run, every run ends | 3 runs, all three modes, any number of signals |
| `registry_threads` | null guard, ids, reachability | 2 threads, 2 ids, 3 objects |
| `disk_sync` | does what was saved survive kills and resumes, do disk and memory agree, does the importer's mark tell the truth? | 2 seeds and a find, 2 kills of the peer, 1 of the importer, one seed trimmed and marked |
| `stages` | do the filters leave anything out or let anything through twice? | all inputs of 1 byte, 144 of 2, 3 of 3 bytes |
| `monitored_queue` | witnesses of taken bits, distances in range, harmless reads, writes that land, what ends the fuzzer | 2 bytes (symmetric) with one class, 1 seed and 2 finds, an array of 1, `CalChances` 2, 2 requests, 1 made-up entry, 2 sessions, and `Explored` |

*Why the bounds are enough.* The waits only compare a counter with a limit, so a
patience of 1 or 2 shows both ways out, before and after a sleep; 0 makes a client
give up at the first look. Two clients give every pair of operations and both
sides of every race on `status`; the theorems below hold for any number. One crash
and one start let the file be truncated in any phase of a request. Two bytes let a
seed win both, win one of them and lose one to another seed, so `trace_mini` is
shared, kept and freed; three seeds give a favored seed, a redundant one and a
newcomer. `SkipThreshold` stands for the constant 10 and is chosen so that the
queue crosses it; `Wrap` for 2^32; three runs of the
target are a run, the one that may inherit from it, and the one after a child was
written off; `CAL_CHANCES` is the source's 3. Two kills reach a resume that is itself
killed, which is what `_resume/` is for; one find and one trimmed seed give every kind
of file in every state. An array of 1 with up to 3 entries fits, spills onto `queue_cur`
and overflows; two requests are a read and the write of what was read, and the second
session brings the write of a list from the first. A made-up list has up to 2 entries, which
is longer than a queue of one; a body that does not fit in the struct runs the monitor
past its own mapping and is left out (`SendList`). `CalChances` 2 lets an entry fail once and be
calibrated again. The constraint `Explored` of `MCMonitoredQueue` keeps apart what does
not interact: crashes and hangs are explored before the main loop begins, without requests
or restarts, on which they do not depend; requests are raised while the fuzzer polls; a
client that has a list deals with a queue of at most two; the second session is explored
to its second entry, for a client that has a list of the first. With one class `has_new_bits`
answers 0 or 2 only; answer 1 differs in the label of a file. Named bounds
(`MaxCrashes`, `MaxStarts`, `MaxSeeds`, `MaxWrites`, `MaxObjects`, `MaxKills`,
`MaxSyncKills`, `MaxRequests`, `MaxLives`) only cut runs
short, hence `CHECK_DEADLOCK FALSE`: a fuzzer that may not be started again, a
killed monitor, a stopped fuzzer and an exhausted supply of objects have no step.

*Fairness.* `FairClients`: the scheduler runs the monitor's threads; nothing makes
anybody send a request. `FairFuzzer`: the fuzzer's process is scheduled and the
target comes back, because `run_target` kills it after its timeout; crashes,
signals and restarts are never fair. `RequestsReturn` needs only `FairClients`:
a request ends even if the fuzzer never polls again. `InterruptAnswered` names
its own assumption, `FairFuzzer`. `FavoredFuzzed` assumes that afl-fuzz keeps
running (`WF(FuzzerStep)`); it assumes nothing of the random numbers. `FairSpec` of
`ForkServer`: fuzzer and server are scheduled and an armed timer expires
(`WF(FuzzerStep)`, `WF(ServerStep)`, `WF(Alarm)`); `Finish`, `Crash` and `ServerHello` are
the target's and have no fairness, which is what a hang is.

## 4. Proofs

Every state machine has its type invariant, every safety invariant and every action
property that a run checks proved, for all values of the constants, from the
assumptions that the modules name: those of a type, that an id and a seed exist, and
two that say more. `Wrap > MaxSeeds * MapSize` keeps the counters of the queue from
wrapping: with the 2^32 of an `u32` and a bitmap of 2^16 bytes, fewer than 65536 entries.
`Stages` has inputs of one to three bytes, which is what the module models, an `ARITH_MAX`
below 128, or a sum and a difference would be one byte, and tables of interesting numbers
in range and without repeats; `config.h` satisfies all of it.
`Stable` is a hypothesis of the two theorems on ratings and favored counts; the runs of
`SeedQueue` have both values.

**CaseInfo**, for any set of clients, any routes, any patience, any crashes:
- `NoEarlyAnswer` is inductive by itself: clients store nothing but INTERRUPT into
  `status`, and the fuzzer stores only when it leaves the busy phases.
- `PauseQuiesces` likewise.
- `OneServicePerRaise` needs that a client inside a request knows what it wants
  (`WantKnown`) and that a mailbox at INTERRUPT carries an unserved raise
  (`RaiseKnown`); with `NoEarlyAnswer` these are inductive.
- `PausedStaysPaused` follows from `PausedInv`: a fuzzer that holds a pause is in its
  poll loop with PAUSE or INTERRUPT in `status`, or busy with the next operation.
- `AreaExclusion`: `InsideInv`, under INTERRUPT every client in the data areas has been
  overtaken, is inductive because a client goes in only when it has seen another status,
  and the raise that stores INTERRUPT overtakes those inside; with `NoEarlyAnswer` it says
  what happens under the service.
- `ImplementsDataArea`: no step moves both parties. `ClientMoves` says what each step of a
  client does to `Inside` and `overtaken` (it enters, leaves, claims, dies or stays out),
  `FuzzerMoves` that the fuzzer's steps leave both alone; each is then a step of
  `DataArea`. `RaiseKnown` is needed where the fuzzer begins to serve: there is a claim.

**SeedQueue**, for any bitmap, number of seeds and costs, stable or not, with or
without the monitor's writes:
- `RefCounts` and `MiniKept` are proved together: `MiniKept` alone is not inductive,
  because `update_bitmap_score` frees a `trace_mini` when `tc_ref` reaches 0, so one
  has to know what `tc_ref` counts. `WonAfterWin` says how the sets of won bytes
  change, `WinCounts` carries it to cardinalities, `WinMinis` to the bitmaps; the
  case of a seed that takes a byte from itself is among them.
- `NotFuzzedCount` needs the places of the queue (`PlaceInv`): the entry under work is
  queued and, while its scoring or trimming is on, the one that was picked; and that
  no decrement passes 0, which is where `Wrap` matters (`DecCounts`).
- `FavoredCover` speaks of a culled queue; during `cull_queue` it holds of the bytes
  already passed and of those crossed out of `temp_v` (`CoverInv`), and a favored
  seed has a reference, so it survives until the next change of a winner sets
  `score_changed`.
- `BestRated`, with `Stable`: while a seed is scored only the bytes ahead of the
  loop may have a dearer winner (`RatedInv`), and a winner's `trace_mini` is the trace
  of its calibration (`OwnTrace`). Only a seed that never won is calibrated again, and a
  trimmed one is no dearer afterwards (`OnlyCalibrated`), so no winner gets dearer. Once
  SIGINT has ended the main loop a trimmed seed may be left unscored (`pc = "done"`).
- `FavoredCounts`, with `Stable` and before a write: a favored seed has crossed all its
  bytes off `temp_v` (`CrossedOut`), so none of them makes `cull_queue` count it a second
  time. Without `Stable` that fails, and so does the property (`queue_unstable`).

**FuzzerManager**, for any threads, ids and objects:
- `NullNeverUsed`: between the guard and the use nobody else maps or unmaps the object,
  because the object a thread adds is its own until it is connected (`OwnObject`), and
  objects are numbered as they are made (`Fresh`).
- `RegisteredForGood` needs that a thread about to insert found the id free, and that
  one that no longer is free is in `raced` (`FreeUnlessRaced`).
- `ConnectedReachable` needs besides that without a race the object is in the map before
  it is connected (`RegisteredFirst`).

**ForkServer**, for any number of runs, all three modes and any signals:
- `TypeCorrect` bounds the pipes, and is not inductive by itself: what is in them depends
  on where the other side is. `Exchange` says, for each place of the fuzzer, where the
  server may be and what is under way; `NoServer` and `Started` the same of a fuzzer
  without a server and before the first run.
- `OneChild` and `TraceQuiet` are from `LastChild` (only the child forked last may be alive, and
  while the server is at its pipe only a stopped one) and `Idle` (it does not run then).
- `VerdictOfThisRun` follows the outcome on its way: of the child the server waits for, in
  the server, in the pipe, in the fuzzer (`FateInv`). It needs that a timer that is
  armed is that of the run (`TimerInv`), and that a stopped child which the alarm has
  killed is written off before it would be continued (`StoppedInv`), the purpose of
  `prev_timed_out`. All of it until `stop_soon`.

**MonitoredQueue**, with `Triage`, for any bitmap, distances, limits, number of seeds,
requests and restarts:
- `TypeCorrect` needs that the queue is no longer than `born` (`SizeInv`: a new entry
  fits) and that `crashes` and `hangs` are finite (`FilesInv`: adding one can be counted).
- `Witnessed` speaks of what was seen; inductive is the same of what the virgin maps no
  longer hold (`WitnessInv`): a trace in which `has_new_bits` sees nothing is covered by
  that part, and every other step that takes bits off a map leaves the file or entry.
- What a turn of the main loop, the dry run and a read do to the queue is the same in kind:
  names stay, bits only grow, a distance that is known stays (`Rerun`, `Added` for a new
  entry). `CalibrationReruns`, `DryRunReruns`, `RecalibrateReruns`, `NextEntryReruns` and
  `InterestingAdds` say so once, and each invariant is carried over these two.
- `SurvivesRequests`: a list read in this session is never longer than the queue, which only
  grows until the restart, and whatever has ended the fuzzer cannot become untrue while
  it is dead (`SurviveInv`).
- `ReadsHarmless` is a lemma on `Scored`: nothing that `CalculateScore` or the struct
  takes from an entry is what it writes.
- `WritesLand` needs what the client's copy and the array have in common with the queue,
  place by place (`ListInv`: names, and until a write is served those distances that the
  array knows), and that `queue_cur`, if not moved on, is the entry read (`CurInv`). During the dry run nothing
  of this session has been read, which is why entries may change there.

- `DistancesBounded`: that every known distance is within the limits is inductive
  (`LimitsInv`), since the distance an entry ends up with is the one that the limits were
  last widened by (`AppendedInLimits`); `ScoreBounded` then computes the score, the powers
  of 2 case by case.

**OutDir**, for any corpus, finds, set of trimmed seeds and number of kills:
- `DiskMirrorsMemory` says besides that no create or unlink takes its fatal branch. It is a part of `DiskInv`, which says for each phase what `queue/` holds: all
  entries, all but the one being written, the first `at` of them while they are pivoted. It
  needs that ids and seeds are unique in each directory (`ListInv`), or two files could
  stand for one entry.
- `NothingLost` and `DetRemembered`: what was saved is in the directory that the next
  resume reads, or, once `pivot_inputs` has begun, in the list of entries (`KeepInv`);
  `ResumeInv` says that this list came from that directory, complete files only.
  `Stale` is needed for the markers: a marker whose file is gone or empty is that of a
  test case already given up. `SavedInv`: what the
  list holds was saved, but for the file under way.

**SyncFuzzers**, for any corpus and any kills of both fuzzers:
- `SyncedMeansTried` is about ids, while a resume renumbers. The argument: an id once
  passed is `Settled` (its first owner was run, or it was passed over, or the owner does
  not bear the id any more), and a seed that has lost an id never gets it back, because
  no step gives an old seed a higher id (`BearsBack`, `NeverAgain`): resumes only close gaps.
  `Bears` speaks of the directory, the list, and the list that the next resume would make;
  `PlacedInv` connects the two lists while `_resume/` is read. All of `DirInv` is needed.

**Stages**, for any input of up to three bytes, any `ARITH_MAX` below 128, any tables of
interesting numbers and any effector map; the bound on the length is the module's:
- Bits are arithmetic here, `(v \div 2 ^ q) % 2`. `ByteBits` and `WordBits` say that a byte
  and a word are the sum of their bits, `FlippedBits` which bits a flip leaves,
  `DiffOfWords` how the xor of two words is made of those of their bytes.
- `NothingSkipped` follows from `RunInv`: every past turn that no filter rejects was run. It
  is inductive because the effector map is settled before a filter asks for it
  (`NewStable`). It remains that a wanted mutant has a turn of its own or is that of
  another turn that was let run: the soundness of the filters. What `could_be_bitflip`
  recognises, and does not lie across a border, is a walking flip; what `could_be_arith`
  recognises is a sum of a byte, or a sum of a word that carries; what is taken for an
  interesting number was one of an earlier turn (`FilteredRun`, `Covered`).
- `NoDupes` follows from `Provenance`: every mutant in `executed` is that of a past turn
  that was let run. So the turns must differ pair by pair, within a stage and across stages
  (`SlotsDiffer`), which is the completeness of the filters. The hard pair are sums of
  one word in the two byte orders: each is run only if it carries (`Carries`), so it moves one
  byte by 1 and the other by more than 128 (`Carry`), which fits both orders only where
  every bit is turned over, and that is a flip (`BothCarries`). The flips that
  `could_be_bitflip` does not know are the exception, `AcrossInFlip`.

**Only model-checked**: the liveness properties (`RequestsReturn`, `InterruptAnswered`,
`FavoredFuzzed`, `RunReturns`), which are beyond the prover.

## 5. Observations

The three violations are described in `PROJECT.json`. Other behaviour of the code
met while modelling, which no property claims otherwise:
- *A read resumes a paused fuzzer.* Every read or write ends in TASK_FINISHED, which
  the poll loop turns into RUNNING (afl-fuzz.c:4896-4899), also after a pause. So
  `PausedStaysPaused` is only claimed until the next operation is served.
- *Two clients share the data areas.* The look at `status` before a copy
  (Fuzzer.hpp:144-147) does not exclude another thread, nor its raise: a client may fill or
  copy an area together with another one, and, overtaken, together with the fuzzer.
  `AreaExclusion` claims what is left, that nobody else meets the fuzzer's service.
- *A start wipes running requests.* `init_case_info` stores `status` and `op` before it clears
  `queue_cur` and `queue[]` (case_info.h:104-109): a client may find the mailbox free, fill
  an area or have an answer, and have it cleared. `Clear` of `DataArea` therefore excludes
  nobody.
- *A lost raise.* A fuzzer that has loaded TASK_FINISHED stores RUNNING over an
  INTERRUPT stored meanwhile.
- *Writes leave the counters alone.* `load_queue_from_case_info_mm` overwrites `favored`
  and `was_fuzzed` only, so `NotFuzzedCount` and `FavoredCover` are claimed until
  the first write; after one `pending_not_fuzzed` may even wrap below 0.
- *Fuzzed without fuzzing.* A seed that failed its first calibration and passes the
  second without new bits goes to `abandon_entry` with `cal_failed = 0` and is
  marked `was_fuzzed`, though no mutation of it was run.
- *Racing `/add`.* Two concurrent `/add` of one id may both find it free; the second
  replaces the first, which stays mapped and cannot be named any more. The
  properties of `FuzzerManager` except such ids (`raced`).
- *A stop may leave a child.* SIGINT between the server's `fork` and the fuzzer's read of
  `child_pid` kills the server and not the child, though main's comment
  (afl-fuzz.c:8560-8561) has the handler kill "the forkserver and the current
  runner"; and a `run_target` that returns because of a stop leaves the timer armed
  and returns 0, FAULT_NONE. `TraceQuiet` and `VerdictOfThisRun` are claimed until
  `stop_soon` is set.
- *A kill may hit a stranger.* `child_pid` is cleared after the child was reaped
  (afl-fuzz.c:2616); an alarm in between goes to a pid the system may have given to
  another process. The verdict stays right: the alarm is that of this run, and a
  status other than SIGKILL is never taken for a timeout.

- *Bits across bytes.* `could_be_bitflip` takes the top bit of a word's low byte and the
  bottom bit of its high byte for neighbours; `FLIP_BIT` does not. Some sums are
  skipped though no flip produced them, some flips run again (`AcrossInWord`,
  `AcrossInFlip`; `PROJECT.json`, findings).
- *No arithmetic, still filtered.* With AFL_NO_ARITH the interesting bytes are still
  filtered by `could_be_arith` (6112-6113), though no arithmetic was run.
- *Two moments that lose test cases.* A kill in `nuke_resume_dir` with some of the old
  files deleted makes the next resume take the rest of `_resume/` for the whole queue;
  if only files without bytes are left, every later resume ends with "No usable test
  cases". A kill in `trim_case` between the unlink and the end of the write (4842-4847)
  loses that test case, and shifts the ids of those behind it at the next resume. Both are
  the exceptions `atRisk` of `NothingLost`.
- *Import skips for good.* The mark of `sync_fuzzers` passes over a case that is empty or
  gone when its turn comes, that readdir does not return, or whose id belonged to
  another case before (`passed`, `owner`).
- *Unconfirmed timeouts use up their bits.* `virgin_tmout` is cleared before the second
  run (3444-3464): an input that hangs in earnest with the same bits is not kept
  (`unconfirmed`).
- *The dropped answer.* In `calibrate_case` a seed of the input directory has its new bits
  cleared by a call whose answer is dropped (2818): all of them count as useless and
  none has `has_new_cov` (`Calibrated`).
- *The score is the distance's.* `calculate_score` resets `perf_score` to 100 and T to 0
  (5098-5099): speed, size, depth, handicap and the annealing have no effect, which is
  why `ReadsHarmless` holds although a read consumes `handicap`. `user_set_perf_score`
  is copied to and fro and never used.
- *Writes go by place.* `load_queue_from_case_info_mm` does not look at `fname`: a client
  that sends a part of the list, or one of an earlier session, changes other seeds than it
  names. A body without `distance` takes the one last copied to the array, after a
  restart 0. `WritesLand` is claimed for whole lists of this session.
- *A distance is overwritten.* An entry without a distance may get one from a calibration in
  `fuzz_one` (2815-2820) after a client has read the list; the list, written back without
  distances, then puts the array's 0 in its place (427). `WritesLand` is claimed for
  distances known when the list was read.
- *A list can end the fuzzer.* One that is longer than the queue makes
  `load_queue_from_case_info_mm` follow a null pointer (423-429): a list read in an earlier
  session, or a made-up one. `SurvivesRequests` says that one read in this session does not.
- *No bound.* `queue_from_json` writes as many entries as the body has.

## 6. Plan

What is left, the most important first:
1. Refinements: an abstract queue that promises only `FavoredCover`, and a directory that
   loses nothing, implemented by `SeedQueue` and `OutDir`; the theorems hold already.
2. `maybe_add_auto` and the token detection in the first stage; the backups of
   `crashes/`.
3. The composition of `OutDir` with `Triage`: crashes and hangs on disk.
