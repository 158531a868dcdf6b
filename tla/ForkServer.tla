----------------------------- MODULE ForkServer -----------------------------
(***************************************************************************)
(* One execution of the target after another: run_target in the fuzzer,    *)
(* the fork server inside the target (__afl_start_forkserver), and the     *)
(* children it forks or, in persistent mode, stops and continues.  They    *)
(* talk through two pipes; SIGALRM (the timeout) and SIGINT or SIGTERM     *)
(* interrupt the fuzzer between any two steps, and their handlers send     *)
(* SIGKILL.  Without a fork server run_target forks and waits itself.      *)
(*                                                                         *)
(* An input is the number of the run that executes it.                     *)
(***************************************************************************)
EXTENDS Integers, Sequences, FiniteSets

CONSTANTS
  Modes,     \* among "forkserver", "persistent" and "no_forkserver"
  MaxRuns    \* bound: how often run_target is called

ASSUME ModesAssumption ==
  Modes \subseteq {"forkserver", "persistent", "no_forkserver"}
ASSUME RunsAssumption == MaxRuns \in Nat

Runs == 1 .. MaxRuns
Pids == 1 .. MaxRuns    \* no run forks twice

VARIABLES
  mode,
  \* the fuzzer
  pc, run,
  child_pid,         \* -1 before the first run, 0 when no child is left
  child_timed_out, prev_timed_out, timer, stop_soon,
  status,            \* the wait status it has read
  verdict,           \* what run_target has returned
  \* the pipes
  ctl, st,
  \* the fork server
  spc, spid, child_stopped, sstatus,
  \* the kernel's view of the children
  forks, proc, input,
  \* history: runs whose input was executed to its end, crashed, ran into SIGALRM
  finished, crashed, alarmed

signals == <<child_timed_out, timer, stop_soon>>
fuzzer == <<pc, run, child_pid, prev_timed_out, status, verdict, signals>>
server == <<spc, spid, child_stopped, sstatus>>
children == <<forks, proc, input>>
history == <<finished, crashed, alarmed>>
vars == <<mode, fuzzer, ctl, st, server, children, history>>

Ended == {"exited", "crashed", "killed"}
Alive == {"running", "stopped"}
Outcomes == Ended \cup {"stopped"}
InRun == {"request", "readPid", "fork", "arm", "wait", "clear", "disarm", "judge"}
Gone == {"done", "fatal"}

\* The pipes never hold more than one exchange.
TypeOK ==
  /\ mode \in Modes
  /\ pc \in InRun \cup Gone \cup {"hello", "helloDisarm", "idle"}
  /\ run \in 0 .. MaxRuns
  /\ child_pid \in {-1, 0} \cup Pids
  /\ child_timed_out \in BOOLEAN /\ prev_timed_out \in BOOLEAN
  /\ timer \in BOOLEAN /\ stop_soon \in BOOLEAN
  /\ status \in Outcomes \cup {"none"}
  /\ verdict \in {"pending", "none", "tmout", "crash"}
  /\ ctl \in Seq(BOOLEAN) /\ Len(ctl) <= 1
  /\ st \in Seq([pid : Pids \cup {0}, msg : Outcomes \cup {"hello", "pid"}])
  /\ Len(st) <= 2
  /\ spc \in {"none", "hello", "read", "reap", "start", "writePid", "wait",
              "writeStatus", "dead"}
  /\ spid \in Pids \cup {0}
  /\ child_stopped \in BOOLEAN
  /\ sstatus \in Outcomes \cup {"none"}
  /\ forks \in 0 .. MaxRuns
  /\ proc \in [Pids -> Alive \cup Ended \cup {"none", "reaped"}]
  /\ input \in [Pids -> 0 .. MaxRuns]
  /\ finished \in SUBSET Runs /\ crashed \in SUBSET Runs /\ alarmed \in SUBSET Runs

\* init_forkserver has forked the server and armed the timer.
Init ==
  /\ mode \in Modes
  /\ pc = IF mode = "no_forkserver" THEN "idle" ELSE "hello"
  /\ spc = IF mode = "no_forkserver" THEN "none" ELSE "hello"
  /\ timer = (mode # "no_forkserver")
  /\ run = 0
  /\ child_pid = -1
  /\ child_timed_out = FALSE
  /\ prev_timed_out = FALSE
  /\ stop_soon = FALSE
  /\ status = "none"
  /\ verdict = "pending"
  /\ ctl = <<>> /\ st = <<>>
  /\ spid = 0
  /\ child_stopped = FALSE
  /\ sstatus = "none"
  /\ forks = 0
  /\ proc = [p \in Pids |-> "none"]
  /\ input = [p \in Pids |-> 0]
  /\ finished = {} /\ crashed = {} /\ alarmed = {}

-----------------------------------------------------------------------------
(* Processes.                                                              *)

\* SIGKILL, which also takes a stopped process, and leaves a dead one alone.
Killed(p) == [proc EXCEPT ![p] = IF @ \in Alive THEN "killed" ELSE @]

\* A new child starts on the current input.
Forked(p) ==
  /\ forks' = p
  /\ proc' = [proc EXCEPT ![p] = "running"]
  /\ input' = [input EXCEPT ![p] = run]

\* What waitpid leaves of a child it has reported.
Reaped(p) == [proc EXCEPT ![p] = IF @ \in Ended THEN "reaped" ELSE @]

\* The child gets to the end of the input: it exits or, inside __AFL_LOOP, stops
\* itself until the last of its cycles.
Finish == \E p \in Pids :
  /\ proc[p] = "running"
  /\ finished' = finished \cup {input[p]}
  /\ \E end \in IF mode = "persistent" THEN {"stopped", "exited"} ELSE {"exited"} :
       proc' = [proc EXCEPT ![p] = end]
  /\ UNCHANGED <<mode, fuzzer, ctl, st, server, forks, input, crashed, alarmed>>

\* Or it dies of a signal of its own.
Crash == \E p \in Pids :
  /\ proc[p] = "running"
  /\ crashed' = crashed \cup {input[p]}
  /\ proc' = [proc EXCEPT ![p] = "crashed"]
  /\ UNCHANGED <<mode, fuzzer, ctl, st, server, forks, input, finished, alarmed>>

-----------------------------------------------------------------------------
(* The fork server: __afl_start_forkserver.                                *)

ServerHello ==
  /\ spc = "hello"
  /\ st' = Append(st, [pid |-> 0, msg |-> "hello"])
  /\ spc' = "read"
  /\ UNCHANGED <<mode, fuzzer, ctl, spid, child_stopped, sstatus, children, history>>

\* If the child was stopped, but afl-fuzz had already issued SIGKILL, the old
\* process is written off.
AfterRead_Forget(was_killed) == "start"
AfterRead_Always(was_killed) == IF child_stopped THEN "reap" ELSE "start"
AfterRead(was_killed) == IF child_stopped /\ was_killed THEN "reap" ELSE "start"

ServerRead_Peek ==
  /\ spc = "read"
  /\ ctl # <<>>
  /\ spc' = AfterRead(Head(ctl))
  /\ UNCHANGED <<mode, fuzzer, ctl, st, spid, child_stopped, sstatus, children, history>>
ServerRead ==
  /\ spc = "read"
  /\ ctl # <<>>
  /\ ctl' = Tail(ctl)
  /\ spc' = AfterRead(Head(ctl))
  /\ UNCHANGED <<mode, fuzzer, st, spid, child_stopped, sstatus, children, history>>

ServerReap ==
  /\ spc = "reap"
  /\ proc[spid] \in Ended
  /\ proc' = Reaped(spid)
  /\ child_stopped' = FALSE
  /\ spc' = "start"
  /\ UNCHANGED <<mode, fuzzer, ctl, st, spid, sstatus, forks, input, history>>

ServerFork_Always ==
  /\ spc = "start"
  /\ forks < MaxRuns
  /\ spid' = forks + 1
  /\ Forked(forks + 1)
  /\ spc' = "writePid"
  /\ UNCHANGED <<mode, fuzzer, ctl, st, child_stopped, sstatus, history>>
ServerFork ==
  /\ spc = "start"
  /\ ~child_stopped
  /\ forks < MaxRuns
  /\ spid' = forks + 1
  /\ Forked(forks + 1)
  /\ spc' = "writePid"
  /\ UNCHANGED <<mode, fuzzer, ctl, st, child_stopped, sstatus, history>>

\* A stopped child is continued on the next input, with SIGCONT.
ServerContinue ==
  /\ spc = "start"
  /\ child_stopped
  /\ child_stopped' = FALSE
  /\ proc' = [proc EXCEPT ![spid] = IF @ = "stopped" THEN "running" ELSE @]
  /\ input' = [input EXCEPT ![spid] = IF proc[spid] = "stopped" THEN run ELSE @]
  /\ spc' = "writePid"
  /\ UNCHANGED <<mode, fuzzer, ctl, st, spid, sstatus, forks, history>>

ServerWritePid ==
  /\ spc = "writePid"
  /\ st' = Append(st, [pid |-> spid, msg |-> "pid"])
  /\ spc' = "wait"
  /\ UNCHANGED <<mode, fuzzer, ctl, spid, child_stopped, sstatus, children, history>>

\* waitpid, with WUNTRACED in persistent mode.
ServerWait_NoHang ==
  /\ spc = "wait"
  /\ sstatus' = IF proc[spid] \in Outcomes THEN proc[spid] ELSE "exited"
  /\ child_stopped' = (proc[spid] = "stopped")
  /\ proc' = Reaped(spid)
  /\ spc' = "writeStatus"
  /\ UNCHANGED <<mode, fuzzer, ctl, st, spid, forks, input, history>>
ServerWait ==
  /\ spc = "wait"
  /\ proc[spid] \in Outcomes
  /\ sstatus' = proc[spid]
  /\ child_stopped' = (proc[spid] = "stopped")
  /\ proc' = Reaped(spid)
  /\ spc' = "writeStatus"
  /\ UNCHANGED <<mode, fuzzer, ctl, st, spid, forks, input, history>>

ServerWriteStatus ==
  /\ spc = "writeStatus"
  /\ st' = Append(st, [pid |-> spid, msg |-> sstatus])
  /\ spc' = "read"
  /\ UNCHANGED <<mode, fuzzer, ctl, spid, child_stopped, sstatus, children, history>>

ServerStep ==
  \/ ServerRead \/ ServerReap \/ ServerFork \/ ServerContinue
  \/ ServerWritePid \/ ServerWait \/ ServerWriteStatus

\* It ends when the target does not come up or cannot be forked.  (That its pipes
\* are closed does not happen here: the fuzzer kills it first.)
ServerFails ==
  /\ spc = "hello" \/ (spc = "start" /\ ~child_stopped)
  /\ spc' = "dead"
  /\ UNCHANGED <<mode, fuzzer, ctl, st, spid, child_stopped, sstatus, children, history>>

-----------------------------------------------------------------------------
(* The fuzzer: init_forkserver and run_target.                             *)

\* The end of the status pipe: run_target returns if a signal has stopped the
\* fuzzer, and gives up otherwise.
AtEof == IF stop_soon THEN "idle" ELSE "fatal"
Eof == spc = "dead" /\ st = <<>>

ReadHello ==
  /\ pc = "hello"
  /\ st # <<>>
  /\ st' = Tail(st)
  /\ pc' = "helloDisarm"
  /\ UNCHANGED <<mode, run, child_pid, prev_timed_out, status, verdict, signals,
                 ctl, server, children, history>>

HelloFails ==
  /\ pc = "hello"
  /\ Eof
  /\ pc' = "fatal"
  /\ UNCHANGED <<mode, run, child_pid, prev_timed_out, status, verdict, signals,
                 ctl, st, server, children, history>>

\* setitimer(0), after the handshake and after each run.
Disarm ==
  /\ pc \in {"helloDisarm", "disarm"}
  /\ timer' = FALSE
  /\ pc' = IF pc = "disarm" THEN "judge" ELSE "idle"
  /\ UNCHANGED <<mode, run, child_pid, prev_timed_out, status, verdict,
                 child_timed_out, stop_soon, ctl, st, server, children, history>>

\* run_target is called on the next input, with a clean trace_bits.
Start ==
  /\ pc = "idle"
  /\ ~stop_soon
  /\ run < MaxRuns
  /\ run' = run + 1
  /\ child_timed_out' = FALSE
  /\ verdict' = "pending"
  /\ pc' = IF mode = "no_forkserver" THEN "fork" ELSE "request"
  /\ UNCHANGED <<mode, child_pid, prev_timed_out, status, timer, stop_soon, ctl,
                 st, server, children, history>>

\* Without a fork server it forks and executes the target itself; fork and the
\* store of child_pid are one step.
Fork ==
  /\ pc = "fork"
  /\ Forked(forks + 1)
  /\ child_pid' = forks + 1
  /\ pc' = "arm"
  /\ UNCHANGED <<mode, run, prev_timed_out, status, verdict, signals, ctl, st,
                 server, history>>

\* The request says whether the previous run was timed out.
Request ==
  /\ pc = "request"
  /\ IF spc = "dead" THEN pc' = AtEof /\ ctl' = ctl
                     ELSE pc' = "readPid" /\ ctl' = Append(ctl, prev_timed_out)
  /\ UNCHANGED <<mode, run, child_pid, prev_timed_out, status, verdict, signals,
                 st, server, children, history>>

ReadPid ==
  /\ pc = "readPid"
  /\ st # <<>>
  /\ st' = Tail(st)
  /\ child_pid' = Head(st).pid
  /\ pc' = "arm"
  /\ UNCHANGED <<mode, run, prev_timed_out, status, verdict, signals, ctl,
                 server, children, history>>

Arm ==
  /\ pc = "arm"
  /\ timer' = TRUE
  /\ pc' = "wait"
  /\ UNCHANGED <<mode, run, child_pid, prev_timed_out, status, verdict,
                 child_timed_out, stop_soon, ctl, st, server, children, history>>

ReadStatus ==
  /\ pc = "wait"
  /\ st # <<>>
  /\ st' = Tail(st)
  /\ status' = Head(st).msg
  /\ pc' = "clear"
  /\ UNCHANGED <<mode, run, child_pid, prev_timed_out, verdict, signals, ctl,
                 server, children, history>>

\* A stop leaves the timer armed.
ReadFails ==
  /\ pc \in {"readPid", "wait"}
  /\ Eof
  /\ pc' = AtEof
  /\ UNCHANGED <<mode, run, child_pid, prev_timed_out, status, verdict, signals,
                 ctl, st, server, children, history>>

Waitpid ==
  /\ pc = "wait"
  /\ mode = "no_forkserver"
  /\ proc[child_pid] \in Ended
  /\ status' = proc[child_pid]
  /\ proc' = Reaped(child_pid)
  /\ pc' = "clear"
  /\ UNCHANGED <<mode, run, child_pid, prev_timed_out, verdict, signals, ctl, st,
                 server, forks, input, history>>

\* child_pid is only cleared here: from the end of the child on, and with a
\* stopped child even longer, SIGALRM finds the pid of a run that is over.
Clear ==
  /\ pc = "clear"
  /\ child_pid' = IF status = "stopped" THEN child_pid ELSE 0
  /\ pc' = "disarm"
  /\ UNCHANGED <<mode, run, prev_timed_out, status, verdict, signals, ctl, st,
                 server, children, history>>

\* The fault run_target reports.
Fault ==
  IF status \in {"crashed", "killed"} /\ ~stop_soon
  THEN IF child_timed_out /\ status = "killed" THEN "tmout" ELSE "crash"
  ELSE "none"

Judge ==
  /\ pc = "judge"
  /\ prev_timed_out' = child_timed_out
  /\ verdict' = Fault
  /\ pc' = "idle"
  /\ UNCHANGED <<mode, run, child_pid, status, signals, ctl, st, server,
                 children, history>>

\* The main loop ends; the fork server is waited for.
End ==
  /\ pc = "idle"
  /\ stop_soon
  /\ pc' = "done"
  /\ UNCHANGED <<mode, run, child_pid, prev_timed_out, status, verdict, signals,
                 ctl, st, server, children, history>>

FuzzerStep ==
  \/ ReadHello \/ HelloFails \/ Disarm \/ Start \/ Fork \/ Request \/ ReadPid
  \/ Arm \/ ReadStatus \/ ReadFails \/ Waitpid \/ Clear \/ Judge \/ End

-----------------------------------------------------------------------------
(* The handlers.                                                           *)

\* handle_timeout: it kills the child or, before there ever was one, the server.
Alarm ==
  /\ timer
  /\ pc \notin Gone
  /\ timer' = FALSE
  /\ CASE child_pid > 0 ->
            /\ child_timed_out' = TRUE
            /\ proc' = Killed(child_pid)
            /\ alarmed' = alarmed \cup {run}
            /\ UNCHANGED spc
       [] child_pid = -1 /\ spc # "none" ->
            /\ child_timed_out' = TRUE
            /\ spc' = "dead"
            /\ UNCHANGED <<proc, alarmed>>
       [] OTHER -> UNCHANGED <<child_timed_out, spc, proc, alarmed>>
  /\ UNCHANGED <<mode, pc, run, child_pid, prev_timed_out, status, verdict,
                 stop_soon, ctl, st, spid, child_stopped, sstatus, forks, input,
                 finished, crashed>>

\* handle_stop_sig: it kills both.
Stop ==
  /\ ~stop_soon
  /\ pc \notin Gone
  /\ stop_soon' = TRUE
  /\ proc' = IF child_pid > 0 THEN Killed(child_pid) ELSE proc
  /\ spc' = IF spc = "none" THEN spc ELSE "dead"
  /\ UNCHANGED <<mode, pc, run, child_pid, prev_timed_out, status, verdict,
                 child_timed_out, timer, ctl, st, spid, child_stopped, sstatus,
                 forks, input, history>>

Next ==
  \/ FuzzerStep \/ ServerHello \/ ServerStep \/ ServerFails
  \/ Finish \/ Crash \/ Alarm \/ Stop

Spec == Init /\ [][Next]_vars

\* Fuzzer and server are scheduled, and an armed timer expires; nothing is asked
\* of the target: it may never say hello, nor ever come to the end of an input.
FairSpec == Spec /\ WF_vars(FuzzerStep) /\ WF_vars(ServerStep) /\ WF_vars(Alarm)

-----------------------------------------------------------------------------
(* Properties.                                                             *)

\* There is never more than one child that could write to trace_bits, although
\* in persistent mode it outlives its run.
OneChild == \A p, q \in Pids : proc[p] \in Alive /\ proc[q] \in Alive => p = q

\* From the end of a run until the fork server is asked for the next one no child
\* runs: trace_bits is not changed while it is cleared, classified or compared
\* ("past this location, trace_bits[] behave very normally").
TraceQuiet ==
  pc \in {"clear", "disarm", "judge", "idle", "request"} /\ ~stop_soon =>
    \A p \in Pids : proc[p] # "running"

\* What run_target reports is what became of its own input, and not of the one
\* before: a crash is this input's crash, FAULT_NONE means that the input was
\* executed to its end, and a timeout that the timer expired in this run.
VerdictOfThisRun ==
  pc = "idle" /\ run > 0 /\ ~stop_soon =>
    CASE verdict = "none" -> run \in finished
      [] verdict = "crash" -> run \in crashed
      [] verdict = "tmout" -> run \in alarmed
      [] OTHER -> FALSE

\* Every call of init_forkserver and of run_target comes to its end, whatever the
\* target does and whenever the timer expires.
RunReturns ==
  pc \in InRun \cup {"hello", "helloDisarm"} ~> pc \in Gone \cup {"idle"}
=============================================================================
