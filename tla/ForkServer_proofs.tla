------------------------- MODULE ForkServer_proofs -------------------------
(***************************************************************************)
(* Theorems on ForkServer, for any number of runs and every mode.          *)
(***************************************************************************)
EXTENDS ForkServer, TLAPS

-----------------------------------------------------------------------------
(* The inductive invariant.                                                *)

\* Without a fork server the fuzzer forks one child per run, and nobody writes
\* to the pipes.
NoServer ==
  IF mode = "no_forkserver"
  THEN /\ spc = "none" /\ st = <<>> /\ ctl = <<>> /\ ~child_stopped
       /\ pc \notin {"hello", "helloDisarm", "request", "readPid"}
       /\ forks = IF pc = "fork" THEN run - 1 ELSE run
       /\ pc \in {"arm", "wait"} => child_pid = forks
  ELSE /\ spc # "none" /\ pc # "fork"
       /\ spid = forks

\* The exchange through the pipes: what the fuzzer waits for says where the server
\* is, unless it has died, and what is on its way.
Server(phases) == spc \in phases \cup {"dead"}
PidSent == [pid |-> spid, msg |-> "pid"]
StatusSent == [pid |-> spid, msg |-> sstatus]

Greeting == pc = "hello" =>
  \/ Server({"hello"}) /\ st = <<>>
  \/ Server({"read"}) /\ st = <<[pid |-> 0, msg |-> "hello"]>>

Between == pc \in {"helloDisarm", "idle", "request", "clear", "disarm", "judge"} =>
  /\ Server({"read"})
  /\ st = <<>>

Asked == pc = "readPid" =>
  \/ st = <<>> /\ Server({"read"}) /\ ctl = <<prev_timed_out>>
  \/ st = <<>> /\ Server({"reap", "start", "writePid"}) /\ ctl = <<>>
  \/ st = <<PidSent>> /\ Server({"wait", "writeStatus"}) /\ ctl = <<>> /\ spid # 0
  \/ st = <<PidSent, StatusSent>> /\ Server({"read"}) /\ ctl = <<>> /\ spid # 0
                                  /\ sstatus \in Outcomes

Waiting == pc \in {"arm", "wait"} =>
  /\ \/ st = <<>> /\ Server({"wait", "writeStatus"})
     \/ st = <<StatusSent>> /\ Server({"read"}) /\ sstatus \in Outcomes
  /\ ctl = <<>>

Exchange == mode # "no_forkserver" =>
  /\ Greeting /\ Between /\ Asked /\ Waiting
  /\ pc \in Gone \/ stop_soon => spc = "dead"
  /\ pc # "readPid" /\ spc # "dead" => ctl = <<>>
  /\ spc \in {"writePid", "wait", "writeStatus"} \/ child_stopped => spid # 0
  /\ spc = "writeStatus" => sstatus \in Outcomes

\* A child runs on the input of a run, and there is a run before there is a child.
Started ==
  /\ pc \in InRun \/ child_pid > 0 => run # 0
  /\ \A p \in Pids : proc[p] = "running" => input[p] # 0

Wires == NoServer /\ Exchange /\ Started

\* Only the child forked last may be alive, and while the server is at its pipe
\* only if it is a stopped one.
LastChild ==
  /\ \A p \in Pids : proc[p] \in Alive => p = forks
  /\ child_stopped => spc \in {"read", "reap", "start", "writeStatus", "dead"}
  /\ spc \in {"hello", "read", "reap", "start", "writeStatus"} /\ ~child_stopped =>
       \A p \in Pids : proc[p] \notin Alive
  /\ mode = "no_forkserver" /\ pc \notin {"arm", "wait"} =>
       \A p \in Pids : proc[p] \notin Alive

\* Nor does it run then.
Idle ==
  spc \in {"hello", "read", "reap", "start", "writeStatus"} \/ (spc = "dead" /\ ~stop_soon)
    => \A p \in Pids : proc[p] # "running"

ChildInv == LastChild /\ Idle

\* Until the fuzzer is stopped, a timer that is armed is that of the handshake or of
\* the run whose end is waited for.
TimerInv ==
  /\ timer /\ ~stop_soon =>
       pc \in {"hello", "helloDisarm", "wait", "clear", "disarm"} \cup Gone
  /\ pc \in {"arm", "wait", "clear", "disarm"} => child_pid # -1
  /\ pc \in {"hello", "helloDisarm"} => run = 0

\* A stopped child that SIGALRM has killed meanwhile is written off before the next
\* run: the fuzzer knows of the alarm and tells the server.
StoppedInv == child_stopped /\ proc[spid] # "stopped" =>
  \/ pc \in {"wait", "clear", "disarm", "judge"} /\ child_timed_out
  \/ pc \in {"idle", "request"} /\ prev_timed_out
  \/ pc = "readPid" /\ ctl # <<>> /\ prev_timed_out
  \/ spc = "reap"
  \/ pc \in Gone

\* What has become of the current input, when its child ended like that.
Fate(outcome) ==
  /\ outcome \in {"exited", "stopped"} => run \in finished
  /\ outcome = "crashed" => run \in crashed
  /\ outcome = "killed" => child_timed_out /\ run \in alarmed

\* The outcome that is on its way from the child to the fuzzer is this run's: that
\* of the child the server waits for, or the fuzzer itself without a server, that
\* the server has got, that in the pipe, and that the fuzzer has got.
ServedFate == spc \in {"writePid", "wait"} => input[spid] = run /\ Fate(proc[spid])
DirectFate == mode = "no_forkserver" /\ pc \in {"arm", "wait"} =>
  input[forks] = run /\ Fate(proc[forks])
ReapedFate == spc = "writeStatus" => Fate(sstatus)
SentFate == pc \in {"readPid", "arm", "wait"} /\ st # <<>> /\ st # <<PidSent>> => Fate(sstatus)
ReadFate == pc \in {"clear", "disarm", "judge"} => status \in Outcomes /\ Fate(status)

FateInv == ServedFate /\ DirectFate /\ ReapedFate /\ SentFate /\ ReadFate

RunInv == ~stop_soon => StoppedInv /\ FateInv

-----------------------------------------------------------------------------
(* Types.                                                                  *)

\* TypeOK in parts.
ControlTypes ==
  /\ mode \in Modes
  /\ pc \in InRun \cup Gone \cup {"hello", "helloDisarm", "idle"}
  /\ spc \in {"none", "hello", "read", "reap", "start", "writePid", "wait",
              "writeStatus", "dead"}
FlagTypes ==
  /\ child_timed_out \in BOOLEAN /\ prev_timed_out \in BOOLEAN
  /\ timer \in BOOLEAN /\ stop_soon \in BOOLEAN /\ child_stopped \in BOOLEAN
RunTypes ==
  /\ run \in 0 .. MaxRuns
  /\ status \in Outcomes \cup {"none"} /\ sstatus \in Outcomes \cup {"none"}
  /\ verdict \in {"pending", "none", "tmout", "crash"}
  /\ finished \in SUBSET Runs /\ crashed \in SUBSET Runs /\ alarmed \in SUBSET Runs
PipeTypes ==
  /\ ctl \in Seq(BOOLEAN) /\ Len(ctl) <= 1
  /\ st \in Seq([pid : Pids \cup {0}, msg : Outcomes \cup {"hello", "pid"}])
  /\ Len(st) <= 2
ChildTypes ==
  /\ forks \in 0 .. MaxRuns /\ spid \in Pids \cup {0}
  /\ child_pid \in {-1, 0} \cup Pids
  /\ proc \in [Pids -> Alive \cup Ended \cup {"none", "reaped"}]
  /\ input \in [Pids -> 0 .. MaxRuns]

LEMMA TypeParts ==
  TypeOK <=> ControlTypes /\ FlagTypes /\ RunTypes /\ PipeTypes /\ ChildTypes
  BY Zenon DEF TypeOK, ControlTypes, FlagTypes, RunTypes, PipeTypes, ChildTypes

LEMMA TypeInit == Init => TypeOK
<1> SUFFICES ASSUME Init PROVE TypeOK
  OBVIOUS
<1>1. ControlTypes
  BY DEF Init, ControlTypes, InRun, Gone
<1>2. FlagTypes
  BY DEF Init, FlagTypes
<1>3. RunTypes
  BY RunsAssumption DEF Init, RunTypes
<1>4. PipeTypes
  BY DEF Init, PipeTypes
<1>5. ChildTypes
  BY RunsAssumption DEF Init, ChildTypes
<1> QED BY <1>1, <1>2, <1>3, <1>4, <1>5, TypeParts, Zenon

\* What the pipes hold after a read and a write.
LEMMA PipeRead ==
  ASSUME NEW S, NEW q \in Seq(S), q # <<>>
  PROVE  Head(q) \in S /\ Tail(q) \in Seq(S) /\ Len(Tail(q)) = Len(q) - 1
  OBVIOUS

LEMMA PipeWritten ==
  ASSUME NEW S, NEW q \in Seq(S), NEW x \in S
  PROVE  Append(q, x) \in Seq(S) /\ Len(Append(q, x)) = Len(q) + 1
  OBVIOUS

LEMMA OneRead ==
  ASSUME NEW x
  PROVE  Head(<<x>>) = x /\ Tail(<<x>>) = <<>> /\ <<x>> # <<>> /\ Len(<<x>>) = 1
  OBVIOUS

LEMMA TwoRead ==
  ASSUME NEW x, NEW y
  PROVE  Head(<<x, y>>) = x /\ Tail(<<x, y>>) = <<y>> /\ <<x, y>> # <<>> /\ Len(<<x, y>>) = 2
  OBVIOUS

LEMMA OneWritten ==
  ASSUME NEW x
  PROVE  Append(<<>>, x) = <<x>>
  OBVIOUS

LEMMA TwoWritten ==
  ASSUME NEW x, NEW y
  PROVE  Append(<<x>>, y) = <<x, y>>
<1> DEFINE S == {x, y}
           q == Append(<<x>>, y)
           r == <<x, y>>
<1>1. <<x>> \in Seq(S) /\ Len(<<x>>) = 1 /\ <<x>>[1] = x
  OBVIOUS
<1>2. q \in Seq(S) /\ Len(q) = 2 /\ q[1] = x /\ q[2] = y
  BY <1>1
<1>3. r \in Seq(S) /\ Len(r) = 2 /\ r[1] = x /\ r[2] = y
  OBVIOUS
<1>4. \A p, u \in Seq(S) :
        Len(p) = Len(u) /\ (\A i \in 1 .. Len(p) : p[i] = u[i]) => p = u
  OBVIOUS
<1> HIDE DEF q, r
<1>5. ASSUME NEW i \in 1 .. Len(q) PROVE q[i] = r[i]
  <2>1. i = 1 \/ i = 2
    BY <1>2
  <2> QED BY <2>1, <1>2, <1>3
<1>6. q = r
  BY <1>2, <1>3, <1>4, <1>5
<1> QED BY <1>6 DEF q, r

-----------------------------------------------------------------------------
(* Who writes what.                                                        *)

LEMMA PipesMoved ==
  [Next]_vars => \/ UNCHANGED <<ctl, st>>
                 \/ ServerHello \/ ServerRead \/ ServerWritePid \/ ServerWriteStatus
                 \/ ReadHello \/ Request \/ ReadPid \/ ReadStatus
  BY Zenon DEF Next, ServerStep, FuzzerStep, vars, ServerReap, ServerFork,
     ServerContinue, ServerWait, ServerFails, HelloFails, Disarm, Start, Fork, Arm,
     ReadFails, Waitpid, Clear, Judge, End, Finish, Crash, Alarm, Stop

LEMMA ChildrenMoved ==
  [Next]_vars => \/ UNCHANGED <<children, spid>>
                 \/ ServerReap \/ ServerFork \/ ServerContinue \/ ServerWait
                 \/ Fork \/ Waitpid \/ Finish \/ Crash \/ Alarm \/ Stop
  BY Zenon DEF Next, ServerStep, FuzzerStep, vars, server, ServerHello, ServerRead,
     ServerWritePid, ServerWriteStatus, ServerFails, ReadHello, HelloFails, Disarm,
     Start, Request, ReadPid, Arm, ReadStatus, ReadFails, Clear, Judge, End

LEMMA FlagsMoved ==
  [Next]_vars => \/ UNCHANGED <<signals, prev_timed_out, child_stopped>>
                 \/ ServerReap \/ ServerContinue \/ ServerWait
                 \/ Disarm \/ Start \/ Arm \/ Judge \/ Alarm \/ Stop
  BY Zenon DEF Next, ServerStep, FuzzerStep, vars, server, fuzzer, ServerHello,
     ServerRead, ServerFork, ServerWritePid, ServerWriteStatus, ServerFails,
     ReadHello, HelloFails, Fork, Request, ReadPid, ReadStatus, ReadFails, Waitpid,
     Clear, End, Finish, Crash

LEMMA ControlStep == TypeOK /\ [Next]_vars => ControlTypes'
<1> SUFFICES ASSUME ControlTypes, [Next]_vars PROVE ControlTypes'
  BY TypeParts, Zenon
<1> USE DEF ControlTypes, InRun, Gone
<1>1. CASE FuzzerStep
  BY <1>1 DEF FuzzerStep, ReadHello, HelloFails, Disarm, Start, Fork, Request,
     ReadPid, Arm, ReadStatus, ReadFails, Waitpid, Clear, Judge, End, AtEof, server
<1>2. CASE ServerHello \/ ServerStep \/ ServerFails
  BY <1>2 DEF ServerHello, ServerStep, ServerFails, ServerRead, ServerReap, ServerFork,
     ServerContinue, ServerWritePid, ServerWait, ServerWriteStatus, AfterRead, fuzzer
<1>3. CASE Finish \/ Crash
  BY <1>3 DEF Finish, Crash, fuzzer, server
<1>4. CASE Alarm \/ Stop
  BY <1>4 DEF Alarm, Stop
<1>5. CASE UNCHANGED vars
  BY <1>5 DEF vars, fuzzer, server
<1> QED BY <1>1, <1>2, <1>3, <1>4, <1>5 DEF Next

LEMMA FlagsStep == TypeOK /\ [Next]_vars => FlagTypes'
<1> SUFFICES ASSUME FlagTypes, [Next]_vars PROVE FlagTypes'
  BY TypeParts, Zenon
<1> USE DEF FlagTypes, signals
<1>1. CASE UNCHANGED <<signals, prev_timed_out, child_stopped>>
  BY <1>1, Zenon
<1>2. CASE ServerReap \/ ServerContinue
  BY <1>2, Zenon DEF ServerReap, ServerContinue, fuzzer
<1>3. CASE ServerWait
  <2>1. (proc[spid] = "stopped") \in BOOLEAN
    BY Zenon
  <2> QED BY <1>3, <2>1, Zenon DEF ServerWait, fuzzer
<1>4. CASE Disarm \/ Start \/ Arm \/ Judge
  BY <1>4, Zenon DEF Disarm, Start, Arm, Judge, server
<1>5. CASE Alarm
  <2>1. child_timed_out' \in BOOLEAN
    BY <1>5 DEF Alarm
  <2> QED BY <1>5, <2>1, Zenon DEF Alarm
<1>6. CASE Stop
  BY <1>6, Zenon DEF Stop
<1> QED BY <1>1, <1>2, <1>3, <1>4, <1>5, <1>6, FlagsMoved, Zenon

-----------------------------------------------------------------------------
(* What a read finds in a pipe, and a write leaves there.                  *)

LEMMA HelloRead ==
  ASSUME Wires, ReadHello
  PROVE  mode # "no_forkserver" /\ spc \in {"read", "dead"} /\ ctl' = ctl /\ st' = <<>>
  BY OneRead DEF Wires, NoServer, Exchange, Greeting, Server, ReadHello

LEMMA PidRead ==
  ASSUME Wires, ReadPid
  PROVE  /\ mode # "no_forkserver" /\ spid # 0 /\ child_pid' = spid /\ ctl' = <<>>
         /\ \/ st = <<PidSent>> /\ st' = <<>> /\ Server({"wait", "writeStatus"})
            \/ /\ st = <<PidSent, StatusSent>> /\ st' = <<StatusSent>>
               /\ Server({"read"}) /\ sstatus \in Outcomes
<1>1. mode # "no_forkserver" /\ Asked /\ st # <<>>
  BY DEF Wires, NoServer, Exchange, ReadPid
<1>2. CASE st = <<PidSent>>
  BY <1>1, <1>2, OneRead DEF Asked, ReadPid, PidSent
<1>3. CASE st = <<PidSent, StatusSent>>
  <2>1. Head(st) = PidSent /\ Tail(st) = <<StatusSent>>
    BY <1>3, TwoRead
  <2> QED BY <1>1, <1>3, <2>1 DEF Asked, ReadPid, PidSent, StatusSent
<1> QED BY <1>1, <1>2, <1>3 DEF Asked, ReadPid

LEMMA StatusRead ==
  ASSUME Wires, ReadStatus
  PROVE  /\ mode # "no_forkserver" /\ Server({"read"}) /\ st = <<StatusSent>>
         /\ st' = <<>> /\ ctl' = <<>> /\ status' = sstatus /\ sstatus \in Outcomes
<1>1. mode # "no_forkserver" /\ Waiting /\ st # <<>>
  BY DEF Wires, NoServer, Exchange, ReadStatus
<1>2. st = <<StatusSent>> /\ Server({"read"}) /\ sstatus \in Outcomes /\ ctl = <<>>
  BY <1>1 DEF Waiting, ReadStatus
<1>3. Head(st) = StatusSent /\ Tail(st) = <<>>
  BY <1>2, OneRead
<1> QED BY <1>1, <1>2, <1>3 DEF ReadStatus, StatusSent

LEMMA HelloWritten ==
  ASSUME Wires, TypeOK, ServerHello
  PROVE  /\ mode # "no_forkserver" /\ pc = "hello" /\ ctl' = ctl
         /\ st' = <<[pid |-> 0, msg |-> "hello"]>>
<1>1. mode # "no_forkserver" /\ pc = "hello" /\ st = <<>>
  BY DEF Wires, NoServer, Exchange, Greeting, Between, Asked, Waiting, Server, TypeOK,
     InRun, Gone, ServerHello
<1> QED BY <1>1, OneWritten DEF ServerHello

LEMMA PidWritten ==
  ASSUME Wires, TypeOK, ServerWritePid
  PROVE  /\ mode # "no_forkserver" /\ pc = "readPid" /\ ctl = <<>> /\ ctl' = ctl
         /\ st = <<>> /\ st' = <<PidSent>> /\ spid # 0
<1>1. mode # "no_forkserver" /\ pc = "readPid" /\ st = <<>> /\ ctl = <<>> /\ spid # 0
  BY DEF Wires, NoServer, Exchange, Greeting, Between, Asked, Waiting, Server, TypeOK,
     InRun, Gone, ServerWritePid
<1> QED BY <1>1, OneWritten DEF ServerWritePid, PidSent, fuzzer

LEMMA StatusWritten ==
  ASSUME Wires, TypeOK, ServerWriteStatus
  PROVE  /\ mode # "no_forkserver" /\ ctl = <<>> /\ ctl' = ctl /\ sstatus \in Outcomes
         /\ \/ pc = "readPid" /\ st = <<PidSent>> /\ st' = <<PidSent, StatusSent>> /\ spid # 0
            \/ pc \in {"arm", "wait"} /\ st = <<>> /\ st' = <<StatusSent>>
<1>1. /\ mode # "no_forkserver" /\ ctl = <<>> /\ sstatus \in Outcomes
      /\ \/ pc = "readPid" /\ st = <<PidSent>> /\ spid # 0
         \/ pc \in {"arm", "wait"} /\ st = <<>>
  BY DEF Wires, NoServer, Exchange, Greeting, Between, Asked, Waiting, Server, TypeOK,
     InRun, Gone, ServerWriteStatus, PidSent
<1>2. st' = Append(st, StatusSent) /\ ctl' = ctl
  BY DEF ServerWriteStatus, StatusSent
<1>3. Append(<<PidSent>>, StatusSent) = <<PidSent, StatusSent>>
  BY TwoWritten
<1> QED BY <1>1, <1>2, <1>3, OneWritten

LEMMA RequestRead ==
  ASSUME Wires, TypeOK, ServerRead
  PROVE  /\ mode # "no_forkserver" /\ pc = "readPid" /\ st = <<>> /\ st' = <<>>
         /\ ctl = <<prev_timed_out>> /\ ctl' = <<>>
         /\ spc' = IF child_stopped /\ prev_timed_out THEN "reap" ELSE "start"
<1>1. mode # "no_forkserver" /\ pc = "readPid" /\ st = <<>> /\ ctl = <<prev_timed_out>>
  BY DEF Wires, NoServer, Exchange, Greeting, Between, Asked, Waiting, Server, TypeOK,
     InRun, Gone, ServerRead
<1>2. Head(ctl) = prev_timed_out /\ Tail(ctl) = <<>>
  BY <1>1, OneRead
<1> QED BY <1>1, <1>2 DEF ServerRead, AfterRead

LEMMA RequestWritten ==
  ASSUME Wires, Request
  PROVE  /\ mode # "no_forkserver" /\ st = <<>> /\ st' = st
         /\ \/ spc = "dead" /\ ctl' = ctl /\ pc' = AtEof
            \/ spc = "read" /\ ctl' = <<prev_timed_out>> /\ pc' = "readPid"
<1>1. mode # "no_forkserver" /\ st = <<>> /\ spc \in {"read", "dead"}
  BY DEF Wires, NoServer, Exchange, Between, Server, Request
<1>2. spc = "read" => ctl = <<>>
  BY <1>1 DEF Wires, Exchange, Request
<1> QED BY <1>1, <1>2, OneWritten DEF Request

LEMMA RunStep == TypeOK /\ Wires /\ [Next]_vars => RunTypes'
<1> SUFFICES ASSUME TypeOK, Wires, RunTypes, [Next]_vars PROVE RunTypes'
  BY TypeParts, Zenon
<1> USE DEF RunTypes
<1>1. CASE Start
  BY <1>1, RunsAssumption DEF Start, server, history
<1>2. CASE ReadStatus
  BY <1>2, StatusRead DEF ReadStatus, server, history
<1>3. CASE Waitpid
  BY <1>3 DEF Waitpid, server, history, Outcomes
<1>4. CASE Judge
  <2>1. Fault \in {"none", "tmout", "crash"}
    BY DEF Fault
  <2>2. /\ run' = run /\ status' = status /\ sstatus' = sstatus /\ verdict' = Fault
        /\ finished' = finished /\ crashed' = crashed /\ alarmed' = alarmed
    BY <1>4, Zenon DEF Judge, server, history
  <2> QED BY <2>1, <2>2
<1>5. CASE ServerWait
  <2>1. /\ run' = run /\ status' = status /\ sstatus' = proc[spid] /\ verdict' = verdict
        /\ proc[spid] \in Outcomes
        /\ finished' = finished /\ crashed' = crashed /\ alarmed' = alarmed
    BY <1>5, Zenon DEF ServerWait, fuzzer, history
  <2> QED BY <2>1
<1>6. CASE Finish \/ Crash
  <2>1. \A p \in Pids : proc[p] = "running" => input[p] \in Runs
    BY DEF TypeOK, Wires, Started, Runs
  <2>2. CASE Finish
    BY <2>1, <2>2 DEF Finish, fuzzer, server
  <2>3. CASE Crash
    BY <2>1, <2>3 DEF Crash, fuzzer, server
  <2> QED BY <1>6, <2>2, <2>3
<1>7. CASE Alarm
  <2>1. /\ run' = run /\ status' = status /\ sstatus' = sstatus /\ verdict' = verdict
        /\ finished' = finished /\ crashed' = crashed
    BY <1>7, Zenon DEF Alarm
  <2>2. child_pid > 0 => run \in Runs
    BY DEF TypeOK, Wires, Started, Runs
  <2>3. alarmed' \in SUBSET Runs
    BY <1>7, <2>2 DEF Alarm
  <2> QED BY <2>1, <2>3
<1>8. CASE Stop
  BY <1>8 DEF Stop, history
<1>9. CASE \/ ReadHello \/ HelloFails \/ Disarm \/ Fork \/ Request \/ ReadPid \/ Arm
           \/ ReadFails \/ Clear \/ End
  BY <1>9 DEF ReadHello, HelloFails, Disarm, Fork, Request, ReadPid, Arm, ReadFails,
     Clear, End, server, history
<1>10. CASE \/ ServerHello \/ ServerRead \/ ServerReap \/ ServerFork \/ ServerContinue
            \/ ServerWritePid \/ ServerWriteStatus \/ ServerFails
  BY <1>10 DEF ServerHello, ServerRead, ServerReap, ServerFork, ServerContinue,
     ServerWritePid, ServerWriteStatus, ServerFails, fuzzer, history
<1>11. CASE UNCHANGED vars
  BY <1>11 DEF vars, fuzzer, server, history
<1> QED BY <1>1, <1>2, <1>3, <1>4, <1>5, <1>6, <1>7, <1>8, <1>9, <1>10, <1>11
        DEF Next, FuzzerStep, ServerStep

LEMMA PipeStep == TypeOK /\ Wires /\ [Next]_vars => PipeTypes'
<1> SUFFICES ASSUME TypeOK, Wires, PipeTypes, FlagTypes, ChildTypes, [Next]_vars
             PROVE  PipeTypes'
  BY TypeParts, Zenon
<1> DEFINE Message == [pid : Pids \cup {0}, msg : Outcomes \cup {"hello", "pid"}]
<1>0. PidSent \in Message /\ (sstatus \in Outcomes => StatusSent \in Message)
  BY DEF PidSent, StatusSent, ChildTypes
<1>1. ASSUME ctl' = <<>> \/ ctl' = ctl \/ ctl' = <<prev_timed_out>>
      PROVE  ctl' \in Seq(BOOLEAN) /\ Len(ctl') <= 1
  <2>1. prev_timed_out \in BOOLEAN
    BY Zenon DEF FlagTypes
  <2>2. \A b \in BOOLEAN : <<b>> \in Seq(BOOLEAN) /\ Len(<<b>>) = 1
    OBVIOUS
  <2>3. CASE ctl' = <<prev_timed_out>>
    <3>1. Len(ctl') = 1 /\ ctl' \in Seq(BOOLEAN)
      BY <2>1, <2>2, <2>3, Zenon
    <3> QED BY <3>1
  <2>4. CASE ctl' = <<>>
    BY <2>4
  <2>5. CASE ctl' = ctl
    BY <2>5, Zenon DEF PipeTypes
  <2> QED BY <1>1, <2>3, <2>4, <2>5
<1>2. ASSUME \/ st' = <<>> \/ st' = st \/ st' = <<[pid |-> 0, msg |-> "hello"]>>
             \/ st' = <<PidSent>>
             \/ sstatus \in Outcomes /\ (st' = <<StatusSent>> \/ st' = <<PidSent, StatusSent>>)
      PROVE  st' \in Seq(Message) /\ Len(st') <= 2
  <2>1. CASE st' = st
    BY <2>1, Zenon DEF PipeTypes
  <2>2. [pid |-> 0, msg |-> "hello"] \in Message
    OBVIOUS
  <2> HIDE DEF Message
  <2>3. ASSUME NEW x \in Message, st' = <<x>> PROVE st' \in Seq(Message) /\ Len(st') <= 2
    BY <2>3
  <2>4. ASSUME NEW x \in Message, NEW y \in Message, st' = <<x, y>>
        PROVE  st' \in Seq(Message) /\ Len(st') <= 2
    BY <2>4
  <2>5. CASE st' = <<>>
    BY <2>5
  <2> QED BY <1>0, <1>2, <2>1, <2>2, <2>3, <2>4, <2>5
<1>3. \/ ctl' = <<>> \/ ctl' = ctl \/ ctl' = <<prev_timed_out>>
  BY PipesMoved, RequestRead, RequestWritten, PidRead, StatusRead, HelloRead,
     HelloWritten, PidWritten, StatusWritten, Zenon
<1>4. \/ st' = <<>> \/ st' = st \/ st' = <<[pid |-> 0, msg |-> "hello"]>>
      \/ st' = <<PidSent>>
      \/ sstatus \in Outcomes /\ (st' = <<StatusSent>> \/ st' = <<PidSent, StatusSent>>)
  BY PipesMoved, RequestRead, RequestWritten, PidRead, StatusRead, HelloRead,
     HelloWritten, PidWritten, StatusWritten, Zenon
<1> QED BY <1>1, <1>2, <1>3, <1>4 DEF PipeTypes

LEMMA ChildStep == TypeOK /\ Wires /\ [Next]_vars => ChildTypes'
<1> SUFFICES ASSUME TypeOK, Wires, ChildTypes, RunTypes, [Next]_vars PROVE ChildTypes'
  BY TypeParts, Zenon
<1> USE DEF ChildTypes, children
<1>1. CASE UNCHANGED <<children, spid>>
  <2>1. CASE UNCHANGED child_pid
    BY <1>1, <2>1
  <2>2. CASE ReadPid
    BY <1>1, <2>2, PidRead
  <2>3. CASE Clear
    BY <1>1, <2>3 DEF Clear
  <2>4. child_pid' = child_pid \/ ReadPid \/ Clear \/ Fork
    BY Zenon DEF Next, ServerStep, FuzzerStep, vars, fuzzer, ServerHello, ServerRead,
       ServerReap, ServerFork, ServerContinue, ServerWritePid, ServerWait,
       ServerWriteStatus, ServerFails, ReadHello, HelloFails, Disarm, Start, Request,
       Arm, ReadStatus, ReadFails, Waitpid, Judge, End, Finish, Crash, Alarm, Stop
  <2>5. ~Fork
    <3> SUFFICES ASSUME Fork PROVE FALSE
      OBVIOUS
    <3>1. forks' = forks + 1
      BY DEF Fork, Forked
    <3> QED BY <1>1, <3>1
  <2> QED BY <2>1, <2>2, <2>3, <2>4, <2>5
<1>2. CASE ServerFork \/ Fork
  <2>1. forks + 1 \in Pids
    <3>1. CASE ServerFork
      BY <3>1, RunsAssumption DEF ServerFork, Pids
    <3>2. CASE Fork
      BY <3>2, RunsAssumption DEF Fork, Pids, RunTypes, Wires, NoServer
    <3> QED BY <1>2, <3>1, <3>2
  <2>2. run \in 0 .. MaxRuns
    BY DEF RunTypes
  <2>3. /\ forks' = forks + 1 /\ (spid' = spid \/ spid' = forks + 1)
        /\ (child_pid' = child_pid \/ child_pid' = forks + 1)
        /\ proc' = [proc EXCEPT ![forks + 1] = "running"]
        /\ input' = [input EXCEPT ![forks + 1] = run]
    BY <1>2 DEF ServerFork, Fork, Forked, fuzzer, server
  <2>4. forks + 1 \in 0 .. MaxRuns
    BY <2>1 DEF Pids
  <2> QED BY <2>1, <2>2, <2>3, <2>4 DEF Alive
<1>3. CASE ServerReap
  BY <1>3 DEF ServerReap, Reaped, fuzzer
<1>4. CASE ServerContinue
  <2>1. run \in 0 .. MaxRuns
    BY DEF RunTypes
  <2> QED BY <1>4, <2>1 DEF ServerContinue, fuzzer, Alive
<1>5. CASE ServerWait
  BY <1>5 DEF ServerWait, Reaped, fuzzer
<1>6. CASE Waitpid
  BY <1>6 DEF Waitpid, Reaped, server
<1>7. CASE Finish \/ Crash
  BY <1>7 DEF Finish, Crash, fuzzer, server, Ended, Alive
<1>8. CASE Alarm \/ Stop
  BY <1>8 DEF Alarm, Stop, Killed, Ended
<1> QED BY <1>1, <1>2, <1>3, <1>4, <1>5, <1>6, <1>7, <1>8, ChildrenMoved, Zenon

LEMMA TypeStep == TypeOK /\ Wires /\ [Next]_vars => TypeOK'
<1> SUFFICES ASSUME TypeOK, Wires, [Next]_vars PROVE TypeOK'
  OBVIOUS
<1>1. TypeOK' <=> ControlTypes' /\ FlagTypes' /\ RunTypes' /\ PipeTypes' /\ ChildTypes'
  BY Zenon DEF TypeOK, ControlTypes, FlagTypes, RunTypes, PipeTypes, ChildTypes
<1> QED BY <1>1, ControlStep, FlagsStep, RunStep, PipeStep, ChildStep, Zenon

-----------------------------------------------------------------------------
(* The exchange through the pipes.                                         *)

LEMMA WiresInit == Init => Wires
<1> SUFFICES ASSUME Init PROVE Wires
  OBVIOUS
<1>1. NoServer
  BY DEF Init, NoServer
<1>2. Exchange
  BY DEF Init, Exchange, Greeting, Between, Asked, Waiting, Server, Gone
<1>3. Started
  BY DEF Init, Started, InRun
<1> QED BY <1>1, <1>2, <1>3 DEF Wires

LEMMA NoServerStep == TypeOK /\ Wires /\ [Next]_vars => NoServer'
<1> SUFFICES ASSUME TypeOK, Wires, NoServer, [Next]_vars PROVE NoServer'
  BY DEF Wires
<1> USE DEF NoServer
<1>1. CASE mode = "no_forkserver"
  <2> USE <1>1
  <2>1. CASE ReadHello \/ HelloFails \/ Request \/ ReadPid \/ ReadStatus \/ ReadFails
    BY <2>1 DEF ReadHello, HelloFails, Request, ReadPid, ReadStatus, ReadFails, Eof
  <2>2. CASE ServerHello \/ ServerStep \/ ServerFails
    BY <2>2 DEF ServerHello, ServerStep, ServerFails, ServerRead, ServerReap, ServerFork,
       ServerContinue, ServerWritePid, ServerWait, ServerWriteStatus
  <2>3. CASE Disarm
    BY <2>3 DEF Disarm, server, children
  <2>4. CASE Start
    BY <2>4 DEF Start, server, children, TypeOK
  <2>5. CASE Fork
    BY <2>5 DEF Fork, Forked, server, TypeOK
  <2>6. CASE Arm \/ Waitpid \/ Clear \/ Judge \/ End
    BY <2>6 DEF Arm, Waitpid, Clear, Judge, End, Gone, server, children
  <2>7. CASE Finish \/ Crash
    BY <2>7 DEF Finish, Crash, fuzzer, server
  <2>8. CASE Alarm \/ Stop
    BY <2>8 DEF Alarm, Stop
  <2>9. CASE UNCHANGED vars
    BY <2>9 DEF vars, fuzzer, server, children
  <2> QED BY <2>1, <2>2, <2>3, <2>4, <2>5, <2>6, <2>7, <2>8, <2>9 DEF Next, FuzzerStep
<1>2. CASE mode # "no_forkserver"
  <2> USE <1>2
  <2>1. CASE FuzzerStep
    BY <2>1 DEF FuzzerStep, ReadHello, HelloFails, Disarm, Start, Fork, Request,
       ReadPid, Arm, ReadStatus, ReadFails, Waitpid, Clear, Judge, End, AtEof, Gone,
       server, children
  <2>2. CASE ServerHello \/ ServerStep \/ ServerFails
    BY <2>2 DEF ServerHello, ServerStep, ServerFails, ServerRead, ServerReap, ServerFork,
       ServerContinue, ServerWritePid, ServerWait, ServerWriteStatus, AfterRead, fuzzer,
       Forked, children
  <2>3. CASE Finish \/ Crash
    BY <2>3 DEF Finish, Crash, fuzzer, server
  <2>4. CASE Alarm \/ Stop
    BY <2>4 DEF Alarm, Stop
  <2>5. CASE UNCHANGED vars
    BY <2>5 DEF vars, fuzzer, server, children
  <2> QED BY <2>1, <2>2, <2>3, <2>4, <2>5 DEF Next
<1> QED BY <1>1, <1>2

\* From a request on until the pid is sent the fuzzer waits for that.
LEMMA AtStart ==
  ASSUME Wires, TypeOK, spc \in {"reap", "start", "writePid"}
  PROVE  mode # "no_forkserver" /\ pc = "readPid" /\ st = <<>> /\ ctl = <<>>
  BY DEF Wires, NoServer, Exchange, Greeting, Between, Asked, Waiting, Server, TypeOK,
     InRun, Gone

LEMMA StartedStep == TypeOK /\ Wires /\ [Next]_vars => Started'
<1> SUFFICES ASSUME TypeOK, Wires, Started, [Next]_vars PROVE Started'
  BY DEF Wires
<1> USE DEF Started, InRun, Gone
<1>1. CASE UNCHANGED <<children, spid>>
  BY <1>1, PidRead DEF Next, ServerStep, FuzzerStep, vars, fuzzer, children, ServerHello,
     ServerRead, ServerReap, ServerFork, ServerContinue, ServerWritePid, ServerWait,
     ServerWriteStatus, ServerFails, ReadHello, HelloFails, Disarm, Start, Request,
     ReadPid, Clear, Fork, AtEof, TypeOK, Arm, ReadStatus, ReadFails, Waitpid, Judge,
     End, Finish, Crash, Alarm, Stop
<1>2. CASE ServerFork \/ ServerContinue
  <2>1. run # 0
    BY <1>2, AtStart DEF ServerFork, ServerContinue
  <2> QED BY <1>2, <2>1 DEF ServerFork, ServerContinue, Forked, fuzzer, TypeOK
<1>3. CASE Fork
  <2>1. run # 0 /\ run' = run
    BY <1>3 DEF Fork
  <2> QED BY <1>3, <2>1 DEF Fork, Forked, TypeOK
<1>4. CASE ServerReap \/ ServerWait
  BY <1>4 DEF ServerReap, ServerWait, Reaped, fuzzer, TypeOK, Outcomes, Ended
<1>5. CASE Waitpid
  BY <1>5 DEF Waitpid, Reaped, TypeOK, Ended
<1>6. CASE Finish \/ Crash
  BY <1>6 DEF Finish, Crash, fuzzer, TypeOK
<1>7. CASE Alarm \/ Stop
  BY <1>7 DEF Alarm, Stop, Killed, TypeOK
<1> QED BY <1>1, <1>2, <1>3, <1>4, <1>5, <1>6, <1>7, ChildrenMoved, Zenon

LEMMA ModeFixed == [Next]_vars => mode' = mode
<1>1. CASE FuzzerStep
  BY <1>1, Zenon DEF FuzzerStep, ReadHello, HelloFails, Disarm, Start, Request, ReadPid,
     Clear, Fork, Arm, ReadStatus, ReadFails, Waitpid, Judge, End
<1>2. CASE ServerHello \/ ServerStep \/ ServerFails
  BY <1>2, Zenon DEF ServerHello, ServerStep, ServerFails, ServerRead, ServerReap,
     ServerFork, ServerContinue, ServerWritePid, ServerWait, ServerWriteStatus
<1>3. CASE Finish \/ Crash \/ UNCHANGED vars
  BY <1>3, Zenon DEF Finish, Crash, vars
<1>4. CASE Alarm \/ Stop
  BY <1>4 DEF Alarm, Stop
<1> QED BY <1>1, <1>2, <1>3, <1>4, Zenon DEF Next

LEMMA ExchangeStep == TypeOK /\ Wires /\ [Next]_vars => Exchange'
<1> SUFFICES ASSUME TypeOK, Wires, Exchange, [Next]_vars,
                    mode # "no_forkserver", mode' # "no_forkserver"
             PROVE  Exchange'
  BY ModeFixed, Zenon DEF Wires, Exchange
<1> USE DEF Exchange, Greeting, Between, Asked, Waiting, Server, PidSent, StatusSent, Gone
<1>1. CASE ServerHello
  BY <1>1, HelloWritten DEF ServerHello, fuzzer, signals
<1>2. CASE ServerRead
  BY <1>2, RequestRead DEF ServerRead, fuzzer, signals
<1>3. CASE ServerReap \/ ServerFork \/ ServerContinue
  <2>1. /\ pc' = pc /\ st' = st /\ ctl' = ctl /\ stop_soon' = stop_soon
        /\ spc \in {"reap", "start"} /\ spc' \in {"start", "writePid"}
        /\ spc' = "writePid" \/ child_stopped' => spid' # 0
    <3>1. CASE ServerReap
      BY <3>1 DEF ServerReap, fuzzer, signals
    <3>2. CASE ServerFork
      <4>1. forks + 1 # 0
        BY DEF TypeOK
      <4> QED BY <3>2, <4>1 DEF ServerFork, fuzzer, signals
    <3>3. CASE ServerContinue
      BY <3>3 DEF ServerContinue, fuzzer, signals
    <3> QED BY <1>3, <3>1, <3>2, <3>3
  <2>2. pc = "readPid" /\ st = <<>> /\ ctl = <<>>
    BY <1>3, AtStart DEF ServerReap, ServerFork, ServerContinue
  <2> QED BY <2>1, <2>2
<1>4. CASE ServerWritePid
  BY <1>4, PidWritten DEF ServerWritePid, fuzzer, signals
<1>5. CASE ServerWait
  BY <1>5 DEF ServerWait, fuzzer, signals
<1>6. CASE ServerWriteStatus
  BY <1>6, StatusWritten DEF ServerWriteStatus, fuzzer, signals
<1>7. CASE ServerFails
  BY <1>7 DEF ServerFails, fuzzer, signals
<1>8. CASE ReadHello
  BY <1>8, HelloRead DEF ReadHello, server, signals
<1>9. CASE HelloFails \/ ReadFails
  BY <1>9 DEF HelloFails, ReadFails, Eof, AtEof, server, signals
<1>10. CASE Disarm \/ Start \/ Arm
  BY <1>10 DEF Disarm, Start, Arm, server
<1>11. CASE Request
  BY <1>11, RequestWritten DEF Request, AtEof, server, signals
<1>12. CASE ReadPid
  BY <1>12, PidRead DEF ReadPid, server, signals
<1>13. CASE ReadStatus
  BY <1>13, StatusRead DEF ReadStatus, server, signals
<1>14. CASE Clear \/ Judge \/ End
  BY <1>14 DEF Clear, Judge, End, server, signals
<1>15. CASE Fork \/ Waitpid
  BY <1>15 DEF Fork, Waitpid, Wires, NoServer
<1>16. CASE Finish \/ Crash
  BY <1>16 DEF Finish, Crash, fuzzer, server, signals
<1>17. CASE Alarm \/ Stop
  <2>1. /\ pc' = pc /\ st' = st /\ ctl' = ctl /\ spid' = spid /\ sstatus' = sstatus
        /\ prev_timed_out' = prev_timed_out /\ child_stopped' = child_stopped /\ pc \notin Gone
        /\ (spc' = spc /\ stop_soon' = stop_soon) \/ spc' = "dead"
    <3>1. CASE Alarm
      BY <3>1 DEF Alarm
    <3>2. CASE Stop
      BY <3>2 DEF Stop, Wires, NoServer
    <3> QED BY <1>17, <3>1, <3>2
  <2> QED BY <2>1
<1>18. CASE UNCHANGED vars
  BY <1>18 DEF vars, fuzzer, server, signals
<1> QED BY <1>1, <1>2, <1>3, <1>4, <1>5, <1>6, <1>7, <1>8, <1>9, <1>10, <1>11, <1>12,
           <1>13, <1>14, <1>15, <1>16, <1>17, <1>18, Zenon DEF Next, FuzzerStep, ServerStep

LEMMA WiresStep == TypeOK /\ Wires /\ [Next]_vars => Wires'
  BY NoServerStep, ExchangeStep, StartedStep DEF Wires

\* Every reachable state has the types of TypeOK: no pipe ever holds more than one
\* exchange.
THEOREM TypeCorrect == Spec => []TypeOK
  BY TypeInit, TypeStep, WiresInit, WiresStep, PTL DEF Spec

-----------------------------------------------------------------------------
(* One child.                                                              *)

LEMMA TimerInit == Init => TimerInv
  BY DEF Init, TimerInv

LEMMA TimerStep == TypeOK /\ Wires /\ TimerInv /\ [Next]_vars => TimerInv'
<1> SUFFICES ASSUME TypeOK, Wires, TimerInv, [Next]_vars PROVE TimerInv'
  OBVIOUS
<1> USE DEF TimerInv, Gone
<1>1. CASE ReadHello \/ HelloFails \/ Start \/ Request \/ ReadStatus \/ Judge \/ End
  BY <1>1 DEF ReadHello, HelloFails, Start, Request, ReadStatus, Judge, End, AtEof, signals
<1>2. CASE Disarm \/ Arm
  BY <1>2 DEF Disarm, Arm
<1>3. CASE Fork
  <2>1. forks + 1 # -1
    BY DEF TypeOK
  <2> QED BY <1>3, <2>1 DEF Fork, signals
<1>4. CASE ReadPid
  <2>1. child_pid' = spid /\ spid # -1
    BY <1>4, PidRead DEF TypeOK, Pids
  <2> QED BY <1>4, <2>1 DEF ReadPid, signals
<1>5. CASE ReadFails
  BY <1>5 DEF ReadFails, Eof, AtEof, signals
<1>6. CASE Waitpid \/ Clear
  BY <1>6 DEF Waitpid, Clear, signals
<1>7. CASE ServerHello \/ ServerStep \/ ServerFails
  BY <1>7 DEF ServerHello, ServerStep, ServerFails, ServerRead, ServerReap, ServerFork,
     ServerContinue, ServerWritePid, ServerWait, ServerWriteStatus, fuzzer, signals
<1>8. CASE Finish \/ Crash
  BY <1>8 DEF Finish, Crash, fuzzer, signals
<1>9. CASE Alarm \/ Stop
  BY <1>9 DEF Alarm, Stop
<1>10. CASE UNCHANGED vars
  BY <1>10 DEF vars, fuzzer, signals
<1> QED BY <1>1, <1>2, <1>3, <1>4, <1>5, <1>6, <1>7, <1>8, <1>9, <1>10, Zenon
        DEF Next, FuzzerStep

LEMMA ChildInit == Init => ChildInv
<1> SUFFICES ASSUME Init PROVE ChildInv
  OBVIOUS
<1>1. \A p \in Pids : proc[p] = "none"
  BY DEF Init
<1>2. ~child_stopped
  BY DEF Init
<1> QED BY <1>1, <1>2 DEF ChildInv, LastChild, Idle, Alive

LEMMA LastChildStep == TypeOK /\ Wires /\ ChildInv /\ [Next]_vars => LastChild'
<1> SUFFICES ASSUME TypeOK, Wires, LastChild, [Next]_vars PROVE LastChild'
  BY DEF ChildInv
<1>a. /\ proc \in [Pids -> Alive \cup Ended \cup {"none", "reaped"}]
      /\ forks \in 0 .. MaxRuns
  BY Zenon DEF TypeOK
<1>b. /\ mode # "no_forkserver" => spid = forks /\ pc # "fork" /\ spc # "none"
      /\ mode = "no_forkserver" => spc = "none" /\ ~child_stopped /\ pc # "readPid" /\ st = <<>>
  BY DEF Wires, NoServer
<1>c. mode' = mode
  BY ModeFixed
<1> USE <1>a, <1>b, <1>c DEF LastChild, Alive, Ended
<1>1. CASE ServerHello \/ ServerRead \/ ServerWritePid \/ ServerWriteStatus \/ ServerFails
  <2>1. /\ pc' = pc /\ child_stopped' = child_stopped /\ forks' = forks /\ proc' = proc
        /\ \/ spc \in {"hello", "read", "reap", "start", "writeStatus"}
           \/ spc' \notin {"hello", "read", "reap", "start", "writeStatus"}
        /\ spc \in {"hello", "writePid"} \/ spc' \in {"read", "reap", "start", "dead"}
    BY <1>1 DEF ServerHello, ServerRead, ServerWritePid, ServerWriteStatus, ServerFails,
       AfterRead, fuzzer, children
  <2> QED BY <2>1
<1>2. CASE ServerReap
  BY <1>2 DEF ServerReap, Reaped, fuzzer
<1>3. CASE ServerFork
  <2>1. /\ child_stopped' = child_stopped /\ ~child_stopped /\ spc = "start"
        /\ spc' = "writePid" /\ forks' = forks + 1
        /\ proc' = [proc EXCEPT ![forks + 1] = "running"]
    BY <1>3 DEF ServerFork, Forked
  <2>2. \A p \in Pids : proc[p] \notin Alive
    BY <2>1
  <2> QED BY <2>1, <2>2
<1>4. CASE ServerContinue
  BY <1>4 DEF ServerContinue, fuzzer
<1>5. CASE ServerWait
  BY <1>5 DEF ServerWait, Reaped, fuzzer, Outcomes
<1>6. CASE ReadHello \/ HelloFails \/ Disarm \/ Start \/ Request
  BY <1>6 DEF ReadHello, HelloFails, Disarm, Start, Request, server, children
<1>7. CASE ReadPid \/ Arm \/ ReadStatus \/ ReadFails \/ Clear \/ Judge \/ End
  BY <1>7 DEF ReadPid, Arm, ReadStatus, ReadFails, Clear, Judge, End, Eof, server, children
<1>8. CASE Fork
  <2>1. /\ mode = "no_forkserver" /\ pc = "fork" /\ pc' = "arm"
        /\ spc' = spc /\ child_stopped' = child_stopped /\ forks' = forks + 1
        /\ proc' = [proc EXCEPT ![forks + 1] = "running"]
    BY <1>8 DEF Fork, Forked, server
  <2>2. \A p \in Pids : proc[p] \notin Alive
    BY <2>1
  <2> QED BY <2>1, <2>2
<1>9. CASE Waitpid
  BY <1>9 DEF Waitpid, Reaped, Wires, NoServer, server
<1>10. CASE Finish \/ Crash
  BY <1>10 DEF Finish, Crash, fuzzer, server
<1>11. CASE Alarm \/ Stop
  BY <1>11 DEF Alarm, Stop, Killed
<1>12. CASE UNCHANGED vars
  BY <1>12 DEF vars, fuzzer, server, children
<1> QED BY <1>1, <1>2, <1>3, <1>4, <1>5, <1>6, <1>7, <1>8, <1>9, <1>10, <1>11, <1>12,
           Zenon DEF Next, FuzzerStep, ServerStep

LEMMA IdleStep == TypeOK /\ Wires /\ TimerInv /\ ChildInv /\ [Next]_vars => Idle'
<1> SUFFICES ASSUME TypeOK, Wires, TimerInv, LastChild, Idle, [Next]_vars PROVE Idle'
  BY DEF ChildInv
<1>a. /\ proc \in [Pids -> Alive \cup Ended \cup {"none", "reaped"}]
      /\ forks \in 0 .. MaxRuns
  BY Zenon DEF TypeOK
<1>b. /\ mode # "no_forkserver" => spid = forks /\ pc # "fork" /\ spc # "none"
      /\ mode = "no_forkserver" => spc = "none"
  BY DEF Wires, NoServer
<1>c. mode' = mode
  BY ModeFixed
<1> USE <1>a, <1>b, <1>c DEF Idle, Alive, Ended
<1>1. CASE ServerHello \/ ServerRead \/ ServerWritePid \/ ServerWriteStatus
  BY <1>1 DEF ServerHello, ServerRead, ServerWritePid, ServerWriteStatus, AfterRead,
     fuzzer, children
<1>2. CASE ServerFails
  BY <1>2 DEF ServerFails, fuzzer, children
<1>3. CASE ServerReap
  BY <1>3 DEF ServerReap, Reaped, fuzzer
<1>4. CASE ServerFork \/ ServerContinue
  BY <1>4 DEF ServerFork, ServerContinue
<1>5. CASE ServerWait
  BY <1>5 DEF ServerWait, Reaped, fuzzer, Outcomes, LastChild
<1>6. CASE ReadHello \/ HelloFails \/ Disarm \/ Start \/ Request
  BY <1>6 DEF ReadHello, HelloFails, Disarm, Start, Request, server, children, signals
<1>7. CASE ReadPid \/ Arm \/ ReadStatus \/ ReadFails \/ Clear \/ Judge \/ End
  BY <1>7 DEF ReadPid, Arm, ReadStatus, ReadFails, Clear, Judge, End, server, children,
     signals
<1>8. CASE Fork \/ Waitpid
  BY <1>8 DEF Fork, Waitpid, server, Wires, NoServer
<1>9. CASE Finish \/ Crash
  BY <1>9 DEF Finish, Crash, fuzzer, server, signals
<1>10. CASE Alarm
  <2>1. CASE spc' = spc
    BY <1>10, <2>1 DEF Alarm, Killed
  <2>2. CASE spc' # spc /\ ~stop_soon
    <3>1. proc' = proc /\ timer /\ child_pid = -1 /\ pc \notin Gone /\ mode # "no_forkserver"
      BY <1>10, <2>2 DEF Alarm
    <3>2. pc \in {"hello", "helloDisarm"}
      BY <2>2, <3>1 DEF TimerInv
    <3>3. spc \in {"hello", "read", "dead"}
      BY <3>1, <3>2 DEF Wires, Exchange, Greeting, Between, Server
    <3> QED BY <2>2, <3>1, <3>3
  <2>3. CASE spc' # spc /\ stop_soon
    BY <1>10, <2>3 DEF Alarm
  <2> QED BY <2>1, <2>2, <2>3
<1>11. CASE Stop
  BY <1>11 DEF Stop, Killed
<1>12. CASE UNCHANGED vars
  BY <1>12 DEF vars, fuzzer, server, children, signals
<1> QED BY <1>1, <1>2, <1>3, <1>4, <1>5, <1>6, <1>7, <1>8, <1>9, <1>10, <1>11, <1>12,
           Zenon DEF Next, FuzzerStep, ServerStep

LEMMA ChildInvariant == Spec => [](TypeOK /\ Wires /\ TimerInv /\ ChildInv)
<1>1. TypeOK /\ Wires /\ TimerInv /\ ChildInv /\ [Next]_vars => ChildInv'
  BY LastChildStep, IdleStep DEF ChildInv
<1> QED BY <1>1, TypeInit, TypeStep, WiresInit, WiresStep, TimerInit, TimerStep, ChildInit,
           PTL DEF Spec

\* There is never more than one child that could write to trace_bits.
THEOREM AtMostOneChild == Spec => []OneChild
<1>1. ChildInv => OneChild
  BY DEF ChildInv, LastChild, OneChild
<1> QED BY <1>1, ChildInvariant, PTL

\* From the end of a run until the next request no child runs: what the fuzzer
\* clears, classifies or compares in trace_bits does not change meanwhile.
THEOREM TraceIsQuiet == Spec => []TraceQuiet
<1>1. Wires /\ ChildInv => TraceQuiet
  <2> SUFFICES ASSUME Wires, ChildInv, ~stop_soon, NEW p \in Pids,
                      pc \in {"clear", "disarm", "judge", "idle", "request"}
               PROVE  proc[p] # "running"
    BY DEF TraceQuiet
  <2>1. CASE mode = "no_forkserver"
    BY <2>1 DEF ChildInv, LastChild, Alive
  <2>2. CASE mode # "no_forkserver"
    <3>1. spc \in {"read", "dead"}
      BY <2>2 DEF Wires, Exchange, Between, Server
    <3> QED BY <3>1 DEF ChildInv, Idle
  <2> QED BY <2>1, <2>2
<1> QED BY <1>1, ChildInvariant, PTL

-----------------------------------------------------------------------------
(* The verdict.                                                            *)

LEMMA StoppedStep ==
  TypeOK /\ Wires /\ TimerInv /\ ChildInv /\ ~stop_soon /\ StoppedInv /\ [Next]_vars /\ ~stop_soon'
    => StoppedInv'
<1> SUFFICES ASSUME TypeOK, Wires, TimerInv, LastChild, ~stop_soon, StoppedInv, [Next]_vars,
                    ~stop_soon', child_stopped', proc'[spid'] # "stopped"
             PROVE  StoppedInv'
  BY DEF ChildInv, StoppedInv
<1>a. proc \in [Pids -> Alive \cup Ended \cup {"none", "reaped"}]
  BY Zenon DEF TypeOK
<1>b. spid \in Pids \cup {0} /\ (child_stopped => spid \in Pids)
  BY DEF TypeOK, Wires, NoServer, Exchange
<1>c. mode = "no_forkserver" => ~child_stopped
  BY DEF Wires, NoServer
<1> USE <1>a, <1>b DEF StoppedInv, Gone
<1>1. CASE ServerRead
  BY <1>1, RequestRead DEF ServerRead, fuzzer, children
<1>2. CASE ServerHello \/ ServerWritePid \/ ServerWriteStatus \/ ServerFails
  BY <1>2 DEF ServerHello, ServerWritePid, ServerWriteStatus, ServerFails, fuzzer, children,
     LastChild, signals
<1>3. CASE ServerReap \/ ServerContinue
  BY <1>3 DEF ServerReap, ServerContinue
<1>4. CASE ServerFork
  BY <1>4 DEF ServerFork
<1>5. CASE ServerWait
  BY <1>5 DEF ServerWait, Reaped, Ended
<1>6. CASE ReadHello \/ HelloFails \/ Disarm \/ End \/ Clear
  BY <1>6 DEF ReadHello, HelloFails, Disarm, End, Clear, server, children, signals
<1>7. CASE Start
  BY <1>7, <1>c DEF Start, server, children, signals
<1>8. CASE Judge
  BY <1>8 DEF Judge, server, children, signals
<1>9. CASE Request
  <2>1. /\ pc = "request" /\ pc' \in {"fatal", "readPid"} /\ (pc' = "readPid" => ctl' # <<>>)
        /\ spc' = spc
    BY <1>9, RequestWritten, OneRead DEF Request, AtEof, server
  <2> QED BY <1>9, <2>1 DEF Request, server, children, signals
<1>10. CASE ReadPid
  <2>1. spc # "reap" /\ ctl = <<>>
    BY <1>10, PidRead DEF ReadPid, Server
  <2> QED BY <1>10, <2>1 DEF ReadPid, server, children, signals
<1>11. CASE Arm
  <2>1. spc # "reap"
    BY <1>11, <1>c DEF Arm, Wires, Exchange, Waiting, Server, server
  <2> QED BY <1>11, <2>1 DEF Arm, server, children
<1>12. CASE ReadStatus \/ ReadFails
  BY <1>12 DEF ReadStatus, ReadFails, AtEof, server, children, signals
<1>13. CASE Fork \/ Waitpid
  BY <1>13 DEF Fork, Waitpid, server, Wires, NoServer
<1>14. CASE Finish \/ Crash
  BY <1>14 DEF Finish, Crash, fuzzer, server, signals
<1>15. CASE Alarm
  <2>1. pc \in {"hello", "helloDisarm"} => child_pid <= 0 /\ spc # "reap"
    BY <1>15, <1>c DEF Alarm, TimerInv, Wires, Started, Exchange, Greeting, Between, Server,
       TypeOK
  <2>2. pc \in {"hello", "helloDisarm", "wait", "clear", "disarm"}
    BY <1>15 DEF Alarm, TimerInv
  <2>3. pc' = pc /\ spid' = spid /\ child_stopped' = child_stopped
    BY <1>15, Zenon DEF Alarm
  <2>4. child_pid \in {-1, 0} \cup Pids /\ child_pid \in Int
    BY DEF TypeOK, Pids
  <2>5. CASE child_pid > 0
    <3>1. child_timed_out'
      BY <1>15, <2>5, Zenon DEF Alarm
    <3>2. pc \in {"wait", "clear", "disarm"}
      BY <2>1, <2>2, <2>4, <2>5
    <3> QED BY <2>3, <3>1, <3>2
  <2>6. CASE child_pid = 0
    <3>1. proc' = proc /\ spc' = spc /\ child_timed_out' = child_timed_out
      BY <1>15, <2>6 DEF Alarm
    <3> QED BY <2>2, <2>3, <3>1
  <2>7. CASE child_pid = -1
    <3>1. proc' = proc /\ pc \in {"hello", "helloDisarm"} /\ spc # "reap"
      BY <1>15, <2>1, <2>2, <2>7 DEF Alarm, TimerInv
    <3> QED BY <2>2, <2>3, <3>1
  <2> QED BY <2>4, <2>5, <2>6, <2>7 DEF Pids
<1>16. CASE Stop
  BY <1>16 DEF Stop
<1>17. CASE UNCHANGED vars
  BY <1>17 DEF vars, fuzzer, server, children, signals
<1> QED BY <1>1, <1>2, <1>3, <1>4, <1>5, <1>6, <1>7, <1>8, <1>9, <1>10, <1>11, <1>12,
           <1>13, <1>14, <1>15, <1>16, <1>17, Zenon DEF Next, FuzzerStep, ServerStep

\* What has become of an input is not taken back before the next run.
LEMMA HistoryGrows ==
  TypeOK /\ [Next]_vars /\ ~Start =>
    /\ run' = run
    /\ child_timed_out => child_timed_out'
    /\ finished \subseteq finished' /\ crashed \subseteq crashed' /\ alarmed \subseteq alarmed'
<1> SUFFICES ASSUME TypeOK, [Next]_vars, ~Start
             PROVE  /\ run' = run
                    /\ child_timed_out => child_timed_out'
                    /\ finished \subseteq finished' /\ crashed \subseteq crashed'
                    /\ alarmed \subseteq alarmed'
  OBVIOUS
<1>1. CASE \/ ReadHello \/ HelloFails \/ Disarm \/ Fork \/ Request \/ ReadPid \/ Arm
           \/ ReadStatus \/ ReadFails \/ Waitpid \/ Clear \/ Judge \/ End
  BY <1>1 DEF ReadHello, HelloFails, Disarm, Fork, Request, ReadPid, Arm, ReadStatus,
     ReadFails, Waitpid, Clear, Judge, End, signals, history
<1>2. CASE ServerHello \/ ServerStep \/ ServerFails
  BY <1>2 DEF ServerHello, ServerStep, ServerFails, ServerRead, ServerReap, ServerFork,
     ServerContinue, ServerWritePid, ServerWait, ServerWriteStatus, fuzzer, signals, history
<1>3. CASE Finish \/ Crash
  BY <1>3 DEF Finish, Crash, fuzzer, signals
<1>4. CASE Alarm
  BY <1>4 DEF Alarm
<1>5. CASE Stop \/ UNCHANGED vars
  BY <1>5 DEF Stop, vars, fuzzer, signals, history
<1> QED BY <1>1, <1>2, <1>3, <1>4, <1>5, Zenon DEF Next, FuzzerStep

LEMMA FateKept ==
  TypeOK /\ [Next]_vars /\ ~Start => \A outcome : Fate(outcome) => Fate(outcome)'
<1> SUFFICES ASSUME TypeOK, [Next]_vars, ~Start, NEW outcome, Fate(outcome)
             PROVE  Fate(outcome)'
  OBVIOUS
<1>1. /\ run' = run
      /\ child_timed_out => child_timed_out'
      /\ finished \subseteq finished' /\ crashed \subseteq crashed' /\ alarmed \subseteq alarmed'
  BY HistoryGrows, Zenon
<1> QED BY <1>1 DEF Fate

\* The pid is not taken for a status.
LEMMA PidIsNoStatus ==
  ASSUME TypeOK
  PROVE  <<StatusSent>> # <<PidSent>> /\ <<PidSent, StatusSent>> # <<PidSent>>
<1>1. StatusSent.msg # PidSent.msg
  BY DEF TypeOK, StatusSent, PidSent, Outcomes, Ended
<1>2. Head(<<StatusSent>>) # Head(<<PidSent>>)
  BY <1>1, OneRead
<1>3. Len(<<PidSent, StatusSent>>) # Len(<<PidSent>>)
  BY OneRead, TwoRead
<1> QED BY <1>2, <1>3


LEMMA ServedStep ==
  TypeOK /\ Wires /\ ~stop_soon /\ StoppedInv /\ ServedFate /\ [Next]_vars /\ ~stop_soon'
    => ServedFate'
<1> SUFFICES ASSUME TypeOK, Wires, ~stop_soon, StoppedInv, ServedFate, [Next]_vars, ~stop_soon'
             PROVE  ServedFate'
  OBVIOUS
<1>a. /\ proc \in [Pids -> Alive \cup Ended \cup {"none", "reaped"}]
      /\ input \in [Pids -> 0 .. MaxRuns]
      /\ spid \in Pids \cup {0} /\ forks \in 0 .. MaxRuns
  BY Zenon DEF TypeOK
<1>b. spc \in {"writePid", "wait"} => spid \in Pids /\ mode # "no_forkserver"
  BY <1>a DEF Wires, NoServer, Exchange
<1>1. CASE ServerFork
  <2>1. run' = run
    BY <1>1 DEF ServerFork, fuzzer
  <2>2. forks + 1 \in Pids /\ run \in 0 .. MaxRuns
    BY <1>1, RunsAssumption DEF ServerFork, TypeOK, Pids
  <2>3. input'[spid'] = run' /\ proc'[spid'] = "running"
    BY <1>1, <1>a, <2>1, <2>2 DEF ServerFork, Forked
  <2> QED BY <2>3 DEF ServedFate, Fate
<1>2. CASE ServerContinue
  <2>1. proc[spid] = "stopped" /\ run' = run
    BY <1>2, AtStart DEF ServerContinue, StoppedInv, Gone, fuzzer
  <2>2. spid \in Pids
    BY <1>2, <1>a DEF ServerContinue, Wires, Exchange, NoServer
  <2>3. input'[spid'] = run' /\ proc'[spid'] = "running"
    BY <1>2, <1>a, <2>1, <2>2 DEF ServerContinue
  <2> QED BY <2>3 DEF ServedFate, Fate
<1>3. CASE Start
  <2>1. spc \in {"read", "dead", "none"} /\ spc' = spc
    BY <1>3 DEF Start, server, Wires, NoServer, Exchange, Between, Server
  <2> QED BY <2>1 DEF ServedFate
<1>4. CASE spc' \in {"writePid", "wait"} /\ ~Start /\ ~ServerFork /\ ~ServerContinue
  <2>1. spc \in {"writePid", "wait"} /\ spid' = spid
    BY <1>4 DEF Next, FuzzerStep, ServerStep, vars, server, ServerHello, ServerRead, ServerReap,
       AfterRead, ServerWritePid, ServerWait, ServerWriteStatus, ServerFails, ReadHello,
       HelloFails, Disarm, Fork, Request, ReadPid, Arm, ReadStatus, ReadFails, Waitpid, Clear,
       Judge, End, Finish, Crash, Alarm, Stop
  <2>2. input[spid] = run /\ Fate(proc[spid]) /\ spid \in Pids /\ mode # "no_forkserver"
    BY <1>b, <2>1 DEF ServedFate
  <2>3. run' = run /\ \A outcome : Fate(outcome) => Fate(outcome)'
    BY <1>4, HistoryGrows, FateKept, Zenon
  <2>4. CASE UNCHANGED <<children, spid>>
    BY <2>2, <2>3, <2>4 DEF ServedFate, Fate, children
  <2>5. CASE Finish
    BY <1>a, <2>2, <2>3, <2>5 DEF ServedFate, Fate, Finish, server
  <2>6. CASE Crash
    BY <1>a, <2>2, <2>3, <2>6 DEF ServedFate, Fate, Crash, server
  <2>7. CASE Alarm
    BY <1>a, <2>2, <2>3, <2>7 DEF ServedFate, Fate, Alarm, Killed
  <2>8. CASE ServerReap \/ ServerWait
    BY <1>4, <2>8 DEF ServerReap, ServerWait
  <2>9. CASE Fork \/ Waitpid
    BY <2>2, <2>9 DEF Fork, Waitpid, Wires, NoServer
  <2>10. CASE Stop
    BY <2>10 DEF Stop
  <2> QED BY <1>4, <2>4, <2>5, <2>6, <2>7, <2>8, <2>9, <2>10, ChildrenMoved, Zenon
<1> QED BY <1>1, <1>2, <1>3, <1>4 DEF ServedFate

LEMMA DirectStep ==
  TypeOK /\ Wires /\ ~stop_soon /\ DirectFate /\ [Next]_vars /\ ~stop_soon' => DirectFate'
<1> SUFFICES ASSUME TypeOK, Wires, ~stop_soon, DirectFate, [Next]_vars, ~stop_soon',
                    mode = "no_forkserver", pc' \in {"arm", "wait"}
             PROVE  DirectFate'
  BY ModeFixed DEF DirectFate
<1>a. /\ proc \in [Pids -> Alive \cup Ended \cup {"none", "reaped"}]
      /\ input \in [Pids -> 0 .. MaxRuns]
      /\ spid \in Pids \cup {0} /\ forks \in 0 .. MaxRuns
  BY Zenon DEF TypeOK
<1>b. spc = "none" /\ st = <<>> /\ pc \notin {"readPid", "request", "hello", "helloDisarm"}
  BY DEF Wires, NoServer
<1>1. CASE Fork
  <2>1. forks + 1 \in Pids /\ run \in 0 .. MaxRuns
    BY <1>1, RunsAssumption DEF Fork, Wires, NoServer, TypeOK, Pids
  <2>2. input'[forks'] = run' /\ proc'[forks'] = "running"
    BY <1>1, <1>a, <2>1 DEF Fork, Forked
  <2> QED BY <2>2 DEF DirectFate, Fate
<1>2. CASE ~Fork
  <2>1. pc \in {"arm", "wait"} /\ ~Start
    BY <1>2, <1>b DEF Next, FuzzerStep, ServerStep, vars, fuzzer, ServerHello, ServerRead,
       ServerReap, ServerFork, ServerContinue, ServerWritePid, ServerWait, ServerWriteStatus,
       ServerFails, ReadHello, HelloFails, Disarm, Start, Request, ReadPid, Arm, ReadStatus,
       ReadFails, Waitpid, Clear, Judge, End, AtEof, Finish, Crash, Alarm, Stop
  <2>2. input[forks] = run /\ Fate(proc[forks]) /\ run # 0 /\ forks = run
    BY <2>1 DEF DirectFate, Wires, Started, NoServer, InRun
  <2>3. forks \in Pids
    BY <1>a, <2>2, RunsAssumption DEF Pids
  <2>4. run' = run /\ \A outcome : Fate(outcome) => Fate(outcome)'
    BY <2>1, HistoryGrows, FateKept, Zenon
  <2>5. CASE UNCHANGED <<children, spid>>
    BY <2>2, <2>4, <2>5 DEF DirectFate, Fate, children
  <2>6. CASE Finish
    BY <1>a, <2>2, <2>3, <2>4, <2>6 DEF DirectFate, Fate, Finish
  <2>7. CASE Crash
    BY <1>a, <2>2, <2>3, <2>4, <2>7 DEF DirectFate, Fate, Crash
  <2>8. CASE Alarm
    BY <1>a, <2>2, <2>3, <2>4, <2>8 DEF DirectFate, Fate, Alarm, Killed
  <2>9. CASE ServerReap \/ ServerWait \/ ServerFork \/ ServerContinue
    BY <1>b, <2>9 DEF ServerReap, ServerWait, ServerFork, ServerContinue
  <2>10. CASE Waitpid
    BY <2>10 DEF Waitpid
  <2>11. CASE Stop
    BY <2>11 DEF Stop
  <2> QED BY <1>2, <2>5, <2>6, <2>7, <2>8, <2>9, <2>10, <2>11, ChildrenMoved, Zenon
<1> QED BY <1>1, <1>2

LEMMA ReapedStep ==
  TypeOK /\ Wires /\ ServedFate /\ ReapedFate /\ [Next]_vars => ReapedFate'
<1> SUFFICES ASSUME TypeOK, Wires, ServedFate, ReapedFate, [Next]_vars, spc' = "writeStatus"
             PROVE  Fate(sstatus)'
  BY DEF ReapedFate
<1>1. ~Start
  BY DEF Start, server, Wires, NoServer, Exchange, Between, Server
<1>2. \A outcome : Fate(outcome) => Fate(outcome)'
  BY <1>1, FateKept, Zenon
<1>3. CASE ServerWait
  <2>1. Fate(proc[spid]) /\ sstatus' = proc[spid]
    BY <1>3 DEF ServerWait, ServedFate
  <2> QED BY <1>2, <2>1 DEF Fate
<1>4. CASE ~ServerWait
  <2>1. spc = "writeStatus" /\ sstatus' = sstatus
    BY <1>4 DEF Next, FuzzerStep, ServerStep, vars, server, ServerHello, ServerRead, ServerReap,
       AfterRead, ServerFork, ServerContinue, ServerWritePid, ServerWriteStatus, ServerFails,
       ReadHello, HelloFails, Disarm, Start, Fork, Request, ReadPid, Arm, ReadStatus, ReadFails,
       Waitpid, Clear, Judge, End, Finish, Crash, Alarm, Stop
  <2> QED BY <1>2, <2>1 DEF ReapedFate, Fate
<1> QED BY <1>3, <1>4

LEMMA SentStep ==
  TypeOK /\ Wires /\ ReapedFate /\ SentFate /\ [Next]_vars => SentFate'
<1> SUFFICES ASSUME TypeOK, Wires, ReapedFate, SentFate, [Next]_vars,
                    pc' \in {"readPid", "arm", "wait"}, st' # <<>>, (st # <<PidSent>>)'
             PROVE  Fate(sstatus)'
  BY DEF SentFate
<1>1. ~Start
  BY DEF Start, Wires, NoServer, Exchange, Between
<1>2. \A outcome : Fate(outcome) => Fate(outcome)'
  BY <1>1, FateKept, Zenon
<1>3. CASE UNCHANGED <<ctl, st>>
  <2>1. CASE ServerFork
    BY <1>3, <2>1, AtStart DEF ServerFork
  <2>2. CASE ServerWait
    <3>1. pc \in {"readPid", "arm", "wait"} => st = <<>> \/ st = <<PidSent>>
      BY <2>2 DEF ServerWait, Wires, NoServer, Exchange, Asked, Waiting, Server
    <3>2. PidSent' = PidSent /\ pc' = pc
      BY <2>2 DEF ServerWait, PidSent, fuzzer
    <3> QED BY <1>3, <3>1, <3>2
  <2>3. CASE Fork
    BY <1>3, <2>3 DEF Fork, Wires, NoServer
  <2>4. CASE Request \/ ReadPid
    BY <1>3, <2>4, RequestWritten, OneRead, PidRead, TwoRead DEF Request
  <2>5. CASE ~ServerFork /\ ~ServerWait /\ ~Fork /\ ~Request /\ ~ReadPid
    <3>1. pc \in {"readPid", "arm", "wait"} /\ sstatus' = sstatus /\ spid' = spid
      BY <1>1, <2>5 DEF Next, FuzzerStep, ServerStep, vars, server, fuzzer, ServerHello, ServerRead,
         ServerReap, ServerContinue, ServerWritePid, ServerWriteStatus, ServerFails, ReadHello,
         HelloFails, Disarm, Arm, ReadStatus, ReadFails, Waitpid, Clear, Judge, End, AtEof, Finish,
         Crash, Alarm, Stop
    <3>2. PidSent' = PidSent
      BY <3>1 DEF PidSent
    <3>3. Fate(sstatus)
      BY <1>3, <3>1, <3>2 DEF SentFate
    <3> QED BY <1>2, <3>1, <3>3 DEF Fate
  <2> QED BY <2>1, <2>2, <2>3, <2>4, <2>5
<1>4. CASE ServerHello \/ ServerRead \/ ReadHello \/ Request \/ ReadStatus
  BY <1>4, HelloWritten, RequestRead, RequestWritten, StatusRead
     DEF ServerHello, fuzzer, ReadHello, ReadStatus
<1>5. CASE ServerWritePid
  <2>1. PidSent' = PidSent
    BY <1>5 DEF ServerWritePid, PidSent
  <2> QED BY <1>5, <2>1, PidWritten
<1>6. CASE ServerWriteStatus
  <2>1. Fate(sstatus) /\ sstatus' = sstatus
    BY <1>6 DEF ServerWriteStatus, ReapedFate
  <2> QED BY <1>2, <2>1 DEF Fate
<1>7. CASE ReadPid
  <2>1. st = <<PidSent, StatusSent>>
    BY <1>7, PidRead
  <2>2. st # <<PidSent>> /\ st # <<>>
    BY <2>1, PidIsNoStatus, TwoRead
  <2>3. Fate(sstatus) /\ sstatus' = sstatus
    BY <1>7, <2>2 DEF ReadPid, SentFate, server
  <2> QED BY <1>2, <2>3 DEF Fate
<1> QED BY <1>3, <1>4, <1>5, <1>6, <1>7, PipesMoved, Zenon

LEMMA ReadStep ==
  TypeOK /\ Wires /\ DirectFate /\ SentFate /\ ReadFate /\ [Next]_vars => ReadFate'
<1> SUFFICES ASSUME TypeOK, Wires, DirectFate, SentFate, ReadFate, [Next]_vars,
                    pc' \in {"clear", "disarm", "judge"}
             PROVE  status' \in Outcomes /\ Fate(status)'
  BY DEF ReadFate
<1>1. ~Start
  BY DEF Start
<1>2. \A outcome : Fate(outcome) => Fate(outcome)'
  BY <1>1, FateKept, Zenon
<1>3. CASE ReadStatus
  <2>1. st = <<StatusSent>> /\ status' = sstatus /\ sstatus \in Outcomes /\ pc = "wait"
    BY <1>3, StatusRead DEF ReadStatus
  <2>2. Fate(sstatus)
    BY <2>1, PidIsNoStatus, OneRead DEF SentFate
  <2> QED BY <1>2, <2>1, <2>2 DEF Fate
<1>4. CASE Waitpid
  <2>1. status' = proc[forks] /\ proc[forks] \in Outcomes /\ Fate(proc[forks])
    BY <1>4 DEF Waitpid, Wires, NoServer, DirectFate, Outcomes
  <2> QED BY <1>2, <2>1 DEF Fate
<1>5. CASE ~ReadStatus /\ ~Waitpid
  <2>1. pc \in {"clear", "disarm", "judge"} /\ status' = status
    BY <1>1, <1>5 DEF Next, FuzzerStep, ServerStep, vars, fuzzer, ServerHello, ServerRead, ServerReap,
       ServerFork, ServerContinue, ServerWritePid, ServerWait, ServerWriteStatus, ServerFails,
       ReadHello, HelloFails, Disarm, Fork, Request, ReadPid, Arm, ReadFails, Clear, Judge, End,
       AtEof, Finish, Crash, Alarm, Stop
  <2> QED BY <1>2, <2>1 DEF ReadFate, Fate
<1> QED BY <1>3, <1>4, <1>5

LEMMA RunInit == Init => RunInv
<1> SUFFICES ASSUME Init PROVE StoppedInv /\ FateInv
  BY DEF RunInv
<1>1. StoppedInv
  BY DEF Init, StoppedInv
<1>2. ServedFate /\ ReapedFate
  BY DEF Init, ServedFate, ReapedFate
<1>3. DirectFate /\ SentFate /\ ReadFate
  BY DEF Init, DirectFate, SentFate, ReadFate
<1> QED BY <1>1, <1>2, <1>3 DEF FateInv

LEMMA RunStays ==
  TypeOK /\ Wires /\ TimerInv /\ ChildInv /\ RunInv /\ [Next]_vars => RunInv'
<1>1. [Next]_vars /\ ~stop_soon' => ~stop_soon
  BY FlagsMoved DEF ServerReap, ServerContinue, ServerWait, Disarm, Start, Arm, Judge, Alarm, Stop,
     fuzzer, signals
<1> QED BY <1>1, StoppedStep, ServedStep, DirectStep, ReapedStep, SentStep, ReadStep, Zenon
        DEF RunInv, FateInv

LEMMA JudgeRight ==
  ASSUME TypeOK, ~stop_soon, ReadFate, Judge
  PROVE  \/ verdict' = "none" /\ run \in finished
         \/ verdict' = "crash" /\ run \in crashed
         \/ verdict' = "tmout" /\ run \in alarmed
<1>1. status \in Outcomes /\ Fate(status) /\ verdict' = Fault
  BY DEF Judge, ReadFate
<1>2. CASE status \in {"exited", "stopped"}
  BY <1>1, <1>2 DEF Fate, Fault
<1>3. CASE status = "crashed"
  BY <1>1, <1>3 DEF Fate, Fault
<1>4. CASE status = "killed"
  BY <1>1, <1>4 DEF Fate, Fault
<1> QED BY <1>1, <1>2, <1>3, <1>4 DEF Outcomes, Ended

LEMMA VerdictStep ==
  TypeOK /\ Wires /\ TimerInv /\ RunInv /\ VerdictOfThisRun /\ [Next]_vars => VerdictOfThisRun'
<1> SUFFICES ASSUME TypeOK, Wires, TimerInv, RunInv, VerdictOfThisRun, [Next]_vars,
                    pc' = "idle", run' > 0, ~stop_soon'
             PROVE  VerdictOfThisRun'
  BY DEF VerdictOfThisRun
<1>1. ~stop_soon
  BY FlagsMoved DEF ServerReap, ServerContinue, ServerWait, Disarm, Start, Arm, Judge, Alarm, Stop,
     fuzzer, signals
<1>2. ~Start
  BY DEF Start
<1>3. /\ run' = run
      /\ finished \subseteq finished' /\ crashed \subseteq crashed' /\ alarmed \subseteq alarmed'
  BY <1>2, HistoryGrows, Zenon
<1>4. CASE Judge
  <2>1. \/ verdict' = "none" /\ run \in finished
        \/ verdict' = "crash" /\ run \in crashed
        \/ verdict' = "tmout" /\ run \in alarmed
    BY <1>1, <1>4, JudgeRight DEF RunInv, FateInv
  <2> QED BY <1>3, <2>1 DEF VerdictOfThisRun
<1>5. CASE Disarm
  <2>1. run = 0
    BY <1>5 DEF Disarm, TimerInv
  <2> QED BY <1>3, <2>1
<1>6. CASE ~Judge /\ ~Disarm
  <2>1. pc = "idle" /\ verdict' = verdict
    BY <1>1, <1>2, <1>6 DEF Next, FuzzerStep, ServerStep, vars, fuzzer, ServerHello, ServerRead,
       ServerReap, ServerFork, ServerContinue, ServerWritePid, ServerWait, ServerWriteStatus,
       ServerFails, ReadHello, HelloFails, Fork, Request, ReadPid, Arm, ReadStatus, ReadFails,
       Waitpid, Clear, End, AtEof, Finish, Crash, Alarm, Stop
  <2> QED BY <1>1, <1>3, <2>1 DEF VerdictOfThisRun
<1> QED BY <1>4, <1>5, <1>6

\* What run_target reports is what became of its own input, whenever the timer expires
\* and whatever child of an earlier run it finds: a crash is this input's crash, a
\* timeout this run's, and FAULT_NONE means that it was executed to its end.
THEOREM VerdictIsRight == Spec => []VerdictOfThisRun
<1>1. Init => VerdictOfThisRun
  BY DEF Init, VerdictOfThisRun
<1> QED BY <1>1, TypeInit, TypeStep, WiresInit, WiresStep, TimerInit, TimerStep, ChildInit,
           LastChildStep, IdleStep, RunInit, RunStays, VerdictStep, PTL DEF Spec, ChildInv
=============================================================================
