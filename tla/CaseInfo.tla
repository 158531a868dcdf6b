------------------------------ MODULE CaseInfo ------------------------------
(***************************************************************************)
(* The control mailbox between one fuzzer (afl-fuzz) and the threads of    *)
(* the monitor: struct CaseInfo, mapped by both processes from the file    *)
(* .case_info_file, with no lock.  One side polls `status` before every    *)
(* execution of the target (common_fuzz_stuff); the other raises INTERRUPT *)
(* and stores `op` (class Fuzzer), once per HTTP request and thread.       *)
(*                                                                         *)
(* Every load and store of `status` and of `op` is a step of its own.  The *)
(* data areas (queue[] and queue_cur) are abstracted to the phases during  *)
(* which somebody reads or writes them.                                    *)
(***************************************************************************)
EXTENDS Naturals, FiniteSets

CONSTANTS
  Clients,      \* threads of the monitor that serve HTTP requests
  Handlers,     \* the routes the clients may call
  OpTries,      \* MAX_TRY_TIMES: patience before a command is posted
  ResultTries,  \* patience for the answer (100000 in the source)
  MaxCrashes,   \* bound: how often the fuzzer dies
  MaxStarts     \* bound: how often it is started again

Routes == {"/pause", "/resume", "/read/queue", "/read/cur", "/read/all",
           "/write/queue", "/write/cur"}

ASSUME HandlersAssumption == Handlers \subseteq Routes
ASSUME TriesAssumption == OpTries \in Nat /\ ResultTries \in Nat
ASSUME BoundsAssumption == MaxCrashes \in Nat /\ MaxStarts \in Nat

NoStatus == 0        \* a byte of the file just truncated
RUNNING == 1
PAUSE == 2
READY == 3
INTERRUPT == 4
TASK_FINISHED == 5
Statuses == NoStatus .. TASK_FINISHED

NoOp == 0
READ_QUEUE == 6
WRITE_QUEUE == 7
PAUSE_FUZZER == 8
RESUME_FUZZER == 9
READ_QUEUE_CUR == 10
WRITE_QUEUE_CUR == 11
Ops == READ_QUEUE .. WRITE_QUEUE_CUR
Reads == {READ_QUEUE, READ_QUEUE_CUR}
Writes == {WRITE_QUEUE, WRITE_QUEUE_CUR}

VARIABLES
  status,    \* case_info->status
  op,        \* case_info->op
  mapped,    \* the file behind the mapping has its full size
  fpc,       \* what the fuzzer is doing
  fop,       \* the op it has loaded and serves
  stop,      \* stop_soon
  crashes, starts,
  cpc,       \* what each client is doing
  req,       \* the route it serves
  want,      \* the operation it is requesting now
  tries,     \* cnt of sleep_if_status_is_interrupt
  resp,      \* the statusCode of its reply
  wanted,    \* history: the operation of the last raise, until it is served
  answered,  \* history: the fuzzer has served this client's operation
  held,      \* history: PAUSE_FUZZER was the last operation served
  overtaken  \* history: clients in the data areas when another one raised

mailbox == <<status, op, mapped>>
fuzzer == <<fpc, fop, stop, crashes, starts>>
client == <<cpc, req, want, tries, resp>>
history == <<wanted, answered, held, overtaken>>
vars == <<mailbox, fuzzer, client, history>>

FuzzerAlive == {"exec", "poll", "setRunning", "readOp", "serve", "resize",
                "initStatus", "initOp", "clear"}
Waiting == {"preWait", "opWait", "resWait"}
Touching == Waiting \cup {"store", "raise", "post", "fetch"}

\* Between its load of INTERRUPT and the store of the outcome the fuzzer reads
\* or fills the data area that op names.
Busy == fpc \in {"readOp", "serve"}

\* init_case_info empties both of them.
Clearing == fpc = "clear"

\* The clients that fill or copy a data area.
Inside == {c \in Clients : cpc[c] \in {"store", "fetch"}}

TypeOK ==
  /\ status \in Statuses
  /\ op \in Ops \cup {NoOp}
  /\ mapped \in BOOLEAN
  /\ fpc \in FuzzerAlive \cup {"dead", "exited"}
  /\ fop \in Ops \cup {NoOp}
  /\ stop \in BOOLEAN
  /\ crashes \in 0 .. MaxCrashes
  /\ starts \in 0 .. MaxStarts
  /\ cpc \in [Clients -> Touching \cup {"idle", "reply", "killed"}]
  /\ req \in [Clients -> Routes \cup {"none"}]
  /\ want \in [Clients -> Ops \cup {NoOp}]
  /\ tries \in [Clients -> Nat]
  /\ resp \in [Clients -> {0, 200, 500}]
  /\ wanted \in Ops \cup {NoOp}
  /\ answered \in [Clients -> BOOLEAN]
  /\ held \in BOOLEAN
  /\ overtaken \subseteq Clients

\* The monitor has connected to a fuzzer that has finished init_case_info.
Init ==
  /\ status = RUNNING
  /\ op = READ_QUEUE_CUR
  /\ mapped = TRUE
  /\ fpc = "exec"
  /\ fop = NoOp
  /\ stop = FALSE
  /\ crashes = 0
  /\ starts = 0
  /\ cpc = [c \in Clients |-> "idle"]
  /\ req = [c \in Clients |-> "none"]
  /\ want = [c \in Clients |-> NoOp]
  /\ tries = [c \in Clients |-> 0]
  /\ resp = [c \in Clients |-> 0]
  /\ wanted = NoOp
  /\ answered = [c \in Clients |-> FALSE]
  /\ held = FALSE
  /\ overtaken = {}

-----------------------------------------------------------------------------
(* The fuzzer: common_fuzz_stuff, and the start-up of case_info.           *)

\* Where the poll loop goes on each value of status it can load.  On PAUSE it
\* sleeps and polls again: no step.
PollTarget_ExecOnPause ==
  CASE status \in {RUNNING, PAUSE} -> "exec"
    [] status = INTERRUPT -> "readOp"
    [] status \in {READY, TASK_FINISHED} -> "setRunning"
    [] OTHER -> "poll"
PollTarget_NoWakeUp ==
  CASE status = RUNNING -> "exec"
    [] status \in {READY, TASK_FINISHED} -> "setRunning"
    [] OTHER -> "poll"
PollTarget ==
  CASE status = RUNNING -> "exec"
    [] status = INTERRUPT -> "readOp"
    [] status \in {READY, TASK_FINISHED} -> "setRunning"
    [] OTHER -> "poll"

Poll ==
  /\ fpc = "poll"
  /\ PollTarget # "poll"
  /\ fpc' = PollTarget
  /\ UNCHANGED <<mailbox, fop, stop, crashes, starts, client, history>>

\* The store that follows the load of READY or TASK_FINISHED.
SetRunning ==
  /\ fpc = "setRunning"
  /\ status' = RUNNING
  /\ fpc' = "poll"
  /\ UNCHANGED <<op, mapped, fop, stop, crashes, starts, client, history>>

\* op is loaded after status; an unknown op leaves INTERRUPT in place.
ReadOp ==
  /\ fpc = "readOp"
  /\ IF op \in Ops THEN fop' = op /\ fpc' = "serve"
                  ELSE fop' = fop /\ fpc' = "poll"
  /\ UNCHANGED <<mailbox, stop, crashes, starts, client, history>>

\* The status that tells the monitor the operation o is over.
Outcome_OpAsStatus(o) ==
  CASE o = PAUSE_FUZZER -> PAUSE_FUZZER
    [] o = RESUME_FUZZER -> READY
    [] OTHER -> TASK_FINISHED
Outcome_ResumeIgnored(o) ==
  CASE o = PAUSE_FUZZER -> PAUSE
    [] o = RESUME_FUZZER -> INTERRUPT
    [] OTHER -> TASK_FINISHED
Outcome(o) ==
  CASE o = PAUSE_FUZZER -> PAUSE
    [] o = RESUME_FUZZER -> READY
    [] OTHER -> TASK_FINISHED

\* The copy to or from the data area is over, and the outcome is stored.
Served(c) == cpc[c] \in {"post", "resWait"} /\ want[c] = fop
Serve_FinishFirst ==
  /\ fpc = "serve"
  /\ status # Outcome(fop)
  /\ status' = Outcome(fop)
  /\ answered' = [c \in Clients |-> answered[c] \/ Served(c)]
  /\ held' = (fop = PAUSE_FUZZER)
  /\ wanted' = NoOp
  /\ UNCHANGED <<op, mapped, fuzzer, client, overtaken>>
Serve ==
  /\ fpc = "serve"
  /\ status' = Outcome(fop)
  /\ fpc' = "poll"
  /\ answered' = [c \in Clients |-> answered[c] \/ Served(c)]
  /\ held' = (fop = PAUSE_FUZZER)
  /\ wanted' = NoOp
  /\ fop' = NoOp
  /\ UNCHANGED <<op, mapped, stop, crashes, starts, client, overtaken>>

\* One run of the target and whatever the fuzzer does until it polls again,
\* or leaves its main loop because stop_soon is set.
Exec ==
  /\ fpc = "exec"
  /\ fpc' = IF stop THEN "exited" ELSE "poll"
  /\ UNCHANGED <<mailbox, fop, stop, crashes, starts, client, history>>

\* SIGINT, SIGTERM or SIGHUP: the handler only sets stop_soon.
Signal ==
  /\ fpc \in FuzzerAlive
  /\ ~stop
  /\ stop' = TRUE
  /\ UNCHANGED <<mailbox, fpc, fop, crashes, starts, client, history>>

\* The fuzzer is killed, or FATAL()s, anywhere.
Crash ==
  /\ fpc \in FuzzerAlive
  /\ crashes < MaxCrashes
  /\ crashes' = crashes + 1
  /\ fpc' = "dead"
  /\ fop' = NoOp
  /\ UNCHANGED <<mailbox, stop, starts, client, history>>

\* A new afl-fuzz in the same directory: open() truncates the file the monitor
\* still maps,
Restart ==
  /\ fpc \in {"dead", "exited"}
  /\ starts < MaxStarts
  /\ starts' = starts + 1
  /\ mapped' = FALSE
  /\ status' = NoStatus
  /\ op' = NoOp
  /\ stop' = FALSE
  /\ held' = FALSE
  /\ fpc' = "resize"
  /\ UNCHANGED <<fop, crashes, client, wanted, answered, overtaken>>

\* ftruncate() gives it its size back, full of zeros,
Resize ==
  /\ fpc = "resize"
  /\ mapped' = TRUE
  /\ fpc' = "initStatus"
  /\ UNCHANGED <<status, op, fop, stop, crashes, starts, client, history>>

\* and init_case_info stores status, then op, then clears the entries.
InitStatus ==
  /\ fpc = "initStatus"
  /\ status' = RUNNING
  /\ fpc' = "initOp"
  /\ UNCHANGED <<op, mapped, fop, stop, crashes, starts, client, history>>

InitOp ==
  /\ fpc = "initOp"
  /\ op' = READ_QUEUE_CUR
  /\ fpc' = "clear"
  /\ UNCHANGED <<status, mapped, fop, stop, crashes, starts, client, history>>

ClearEntries ==
  /\ fpc = "clear"
  /\ fpc' = "exec"
  /\ UNCHANGED <<mailbox, fop, stop, crashes, starts, client, history>>

FuzzerStep ==
  \/ Poll \/ SetRunning \/ ReadOp \/ Serve \/ Exec
  \/ Resize \/ InitStatus \/ InitOp \/ ClearEntries

Environment == Signal \/ Crash \/ Restart

-----------------------------------------------------------------------------
(* The monitor: the handlers of Controller.hpp over class Fuzzer.          *)

\* The first operation each route posts.
OpOf(r) ==
  CASE r = "/pause" -> PAUSE_FUZZER
    [] r = "/resume" -> RESUME_FUZZER
    [] r \in {"/read/queue", "/read/all"} -> READ_QUEUE
    [] r = "/read/cur" -> READ_QUEUE_CUR
    [] r = "/write/queue" -> WRITE_QUEUE
    [] r = "/write/cur" -> WRITE_QUEUE_CUR

\* The writers wait for the mailbox once more before they touch the data area.
Entry_NoPreWait(r) == IF OpOf(r) \in Writes THEN "store" ELSE "opWait"
Entry(r) == IF OpOf(r) \in Writes THEN "preWait" ELSE "opWait"

Patience(c) == IF cpc[c] = "opWait" THEN OpTries ELSE ResultTries

\* The next step of a request at each phase it can leave normally.  Pause and
\* resume do not wait for their outcome.
AfterPost(c) == IF want[c] \in Reads \cup Writes THEN "resWait" ELSE "reply"
AfterWait(c) ==
  CASE cpc[c] = "preWait" -> "store"
    [] cpc[c] = "opWait" -> "raise"
    [] cpc[c] = "resWait" -> IF want[c] \in Reads THEN "fetch" ELSE "reply"

GoTo(c, phase) ==
  /\ cpc' = [cpc EXCEPT ![c] = phase]
  /\ tries' = [tries EXCEPT ![c] = 0]
  /\ resp' = [resp EXCEPT ![c] = IF phase = "reply" THEN 200 ELSE @]

Fail(c) ==
  /\ cpc' = [cpc EXCEPT ![c] = "reply"]
  /\ tries' = [tries EXCEPT ![c] = 0]
  /\ resp' = [resp EXCEPT ![c] = 500]

Request(c) == \E r \in Handlers :
  /\ cpc[c] = "idle"
  /\ req' = [req EXCEPT ![c] = r]
  /\ want' = [want EXCEPT ![c] = OpOf(r)]
  /\ answered' = [answered EXCEPT ![c] = FALSE]
  /\ GoTo(c, Entry(r))
  /\ UNCHANGED <<mailbox, fuzzer, wanted, held, overtaken>>

\* sleep_if_status_is_interrupt: the status is not INTERRUPT and the wait ends,
WaitOver(c) ==
  /\ mapped
  /\ cpc[c] \in Waiting
  /\ status # INTERRUPT
  /\ GoTo(c, AfterWait(c))
  /\ UNCHANGED <<mailbox, fuzzer, req, want, history>>

\* or it is, and the client sleeps,
WaitMore_NoCount(c) ==
  /\ mapped
  /\ cpc[c] \in Waiting
  /\ status = INTERRUPT
  /\ tries' = [tries EXCEPT ![c] = 1 - @]
  /\ UNCHANGED <<mailbox, fuzzer, cpc, req, want, resp, history>>
WaitMore(c) ==
  /\ mapped
  /\ cpc[c] \in Waiting
  /\ status = INTERRUPT
  /\ tries[c] < Patience(c)
  /\ tries' = [tries EXCEPT ![c] = @ + 1]
  /\ UNCHANGED <<mailbox, fuzzer, cpc, req, want, resp, history>>

\* until its patience is over.  The op_* helpers swallow the exception and
\* return without posting; everybody else replies 500.
GiveUp_NobodyFails(c) ==
  /\ mapped
  /\ cpc[c] \in Waiting
  /\ status = INTERRUPT
  /\ tries[c] >= Patience(c)
  /\ GoTo(c, IF cpc[c] = "opWait" THEN AfterPost(c) ELSE AfterWait(c))
  /\ UNCHANGED <<mailbox, fuzzer, req, want, history>>
GiveUp(c) ==
  /\ mapped
  /\ cpc[c] \in Waiting
  /\ status = INTERRUPT
  /\ tries[c] >= Patience(c)
  /\ IF cpc[c] = "opWait" THEN GoTo(c, AfterPost(c)) ELSE Fail(c)
  /\ UNCHANGED <<mailbox, fuzzer, req, want, history>>

\* queue_from_json or queue_entry_from_json fills the data area,
Store(c) ==
  /\ mapped
  /\ cpc[c] = "store"
  /\ GoTo(c, "opWait")
  /\ overtaken' = overtaken \ {c}
  /\ UNCHANGED <<mailbox, fuzzer, req, want, wanted, answered, held>>

\* or throws half-way on a body of the wrong shape.
StoreThrows(c) ==
  /\ mapped
  /\ cpc[c] = "store"
  /\ Fail(c)
  /\ overtaken' = overtaken \ {c}
  /\ UNCHANGED <<mailbox, fuzzer, req, want, wanted, answered, held>>

\* op_*: status first,
Raise(c) ==
  /\ mapped
  /\ cpc[c] = "raise"
  /\ status' = INTERRUPT
  /\ wanted' = want[c]
  /\ overtaken' = overtaken \cup Inside
  /\ GoTo(c, "post")
  /\ UNCHANGED <<op, mapped, fuzzer, req, want, answered, held>>

\* op second.
Post(c) ==
  /\ mapped
  /\ cpc[c] = "post"
  /\ op' = want[c]
  /\ GoTo(c, AfterPost(c))
  /\ UNCHANGED <<status, mapped, fuzzer, req, want, history>>

\* queue_to_json or queue_entry_to_json copies the data area out.  /read/all
\* goes on with the current entry.
Fetch(c) ==
  /\ mapped
  /\ cpc[c] = "fetch"
  /\ IF req[c] = "/read/all" /\ want[c] = READ_QUEUE
     THEN /\ want' = [want EXCEPT ![c] = READ_QUEUE_CUR]
          /\ answered' = [answered EXCEPT ![c] = FALSE]
          /\ GoTo(c, "opWait")
     ELSE /\ UNCHANGED <<want, answered>>
          /\ GoTo(c, "reply")
  /\ overtaken' = overtaken \ {c}
  /\ UNCHANGED <<mailbox, fuzzer, req, wanted, held>>

\* The response goes out, and with it the handler's locals.
Reply(c) ==
  /\ cpc[c] = "reply"
  /\ cpc' = [cpc EXCEPT ![c] = "idle"]
  /\ req' = [req EXCEPT ![c] = "none"]
  /\ want' = [want EXCEPT ![c] = NoOp]
  /\ resp' = [resp EXCEPT ![c] = 0]
  /\ answered' = [answered EXCEPT ![c] = FALSE]
  /\ UNCHANGED <<mailbox, fuzzer, tries, wanted, held, overtaken>>

\* A client that touches the truncated file takes the whole monitor down.
Sigbus(c) ==
  /\ ~mapped
  /\ cpc[c] \in Touching
  /\ cpc' = [d \in Clients |-> "killed"]
  /\ overtaken' = {}
  /\ UNCHANGED <<mailbox, fuzzer, req, want, tries, resp, wanted, answered, held>>

ClientStep(c) ==
  \/ WaitOver(c) \/ WaitMore(c) \/ GiveUp(c) \/ Store(c) \/ StoreThrows(c)
  \/ Raise(c) \/ Post(c) \/ Fetch(c) \/ Reply(c) \/ Sigbus(c)

Next ==
  \/ FuzzerStep
  \/ Environment
  \/ \E c \in Clients : Request(c) \/ ClientStep(c)

Spec == Init /\ [][Next]_vars

\* The scheduler runs the monitor's threads; nobody has to send a request.
FairClients == \A c \in Clients : WF_vars(ClientStep(c))

\* The fuzzer's process runs and the target returns (it has a timeout).
FairFuzzer == WF_vars(FuzzerStep)

ClientSpec == Spec /\ FairClients
FairSpec == Spec /\ FairClients /\ FairFuzzer

-----------------------------------------------------------------------------
(* Properties.                                                             *)

\* The outcome never shows in status before the fuzzer has finished copying:
\* while common_fuzz_stuff handles an operation, status stays INTERRUPT, however
\* many clients raise, give up or die meanwhile.
NoEarlyAnswer == Busy => status = INTERRUPT

\* While the fuzzer serves an operation (the load_* and write_* functions), a
\* client is in the data areas (queue_from_json, queue_to_json and the queue_cur
\* pair) only if another client has raised INTERRUPT since this one went in: no
\* timeout, give-up, crash or restart lets the two in together, and a client that
\* is alone never meets the service.  (The clearing of init_case_info excludes
\* nobody: DataArea has it as a step of its own.)
AreaExclusion == Busy => Inside \subseteq overtaken

\* A status of PAUSE means that no execution of the target is under way: PAUSE
\* is only ever the outcome the fuzzer itself has stored, in its poll loop.
PauseQuiesces == status = PAUSE => fpc \in {"poll", "dead"}

\* common_fuzz_stuff handles at most one operation for each INTERRUPT raised by
\* an op_* function of the monitor, and none without one.
OneServicePerRaise == Busy => wanted # NoOp

\* Once the fuzzer has served PAUSE_FUZZER, no target runs before it has served
\* another operation, or was started again ("PAUSE: the fuzzer stops at once").
PausedStaysPaused == held => fpc # "exec"

\* A reply of 200 to a read or a write means the fuzzer has served it since it
\* was requested ("after the command is sent, check that it was executed").
SuccessMeansExecuted == \A c \in Clients :
  cpc[c] = "reply" /\ resp[c] = 200 /\ want[c] \in Reads \cup Writes
    => answered[c]

\* Every request is replied to, or dies with the monitor, whatever the fuzzer
\* does or fails to do: every wait of class Fuzzer is bounded.
RequestsReturn == \A c \in Clients :
  cpc[c] # "idle" ~> cpc[c] \in {"idle", "killed"}

\* As long as the fuzzer's process is scheduled, a raised INTERRUPT does not stay
\* unanswered while it lives: no client is left facing a mailbox busy for ever.
InterruptAnswered == FairFuzzer =>
  (status = INTERRUPT ~> (status # INTERRUPT \/ fpc \in {"dead", "exited"}))

\* Ctrl-C ends the fuzzer ("until you press Ctrl-C").
StopTerminates == stop ~> fpc \in {"exited", "dead"}

\* What status and op are worth as a lock: the protocol implements the one of
\* DataArea, for any number of clients.
Area == INSTANCE DataArea WITH
          claimed <- wanted # NoOp,
          fuzzer <- IF Busy THEN "serving" ELSE IF Clearing THEN "clearing" ELSE "out",
          inside <- Inside
AreaSpec == Area!Spec
=============================================================================
