-------------------------- MODULE CaseInfo_proofs --------------------------
(***************************************************************************)
(* What the mailbox protocol guarantees for any number of clients, any     *)
(* routes, any patience and any number of crashes and restarts, and what   *)
(* it is worth as a lock on the data areas.                                *)
(***************************************************************************)
EXTENDS CaseInfo, TLAPS

\* The client steps that load or copy leave the mailbox, the fuzzer and the
\* pending raise alone; only Raise and Post store into the mailbox.
LEMMA ClientFrame ==
  ASSUME NEW c \in Clients, Request(c) \/ ClientStep(c)
  PROVE  /\ UNCHANGED <<fuzzer, mapped, held>>
         /\ ~ Raise(c) => UNCHANGED <<status, wanted>>
         /\ ~ Post(c) => UNCHANGED op
  BY DEF Request, ClientStep, WaitOver, WaitMore, GiveUp, Store, StoreThrows,
         Raise, Post, Fetch, Reply, Sigbus, mailbox, fuzzer, history

-----------------------------------------------------------------------------
(* Type correctness.                                                       *)

LEMMA RouteOps == \A r \in Routes : OpOf(r) \in Ops /\ Entry(r) \in {"preWait", "opWait"}
  BY DEF Routes, OpOf, Entry, Ops, Reads, Writes, READ_QUEUE, WRITE_QUEUE,
         PAUSE_FUZZER, RESUME_FUZZER, READ_QUEUE_CUR, WRITE_QUEUE_CUR

LEMMA PhaseTypes ==
  ASSUME NEW c \in Clients
  PROVE  /\ cpc[c] \in Waiting => AfterWait(c) \in {"store", "raise", "fetch", "reply"}
         /\ AfterPost(c) \in {"resWait", "reply"}
  BY DEF AfterWait, AfterPost, Waiting

LEMMA GoToType ==
  ASSUME TypeOK, NEW c \in Clients, NEW phase \in Touching \cup {"reply"},
         GoTo(c, phase)
  PROVE  /\ cpc' \in [Clients -> Touching \cup {"idle", "reply", "killed"}]
         /\ tries' \in [Clients -> Nat]
         /\ resp' \in [Clients -> {0, 200, 500}]
  BY DEF TypeOK, GoTo

LEMMA FailType ==
  ASSUME TypeOK, NEW c \in Clients, Fail(c)
  PROVE  /\ cpc' \in [Clients -> Touching \cup {"idle", "reply", "killed"}]
         /\ tries' \in [Clients -> Nat]
         /\ resp' \in [Clients -> {0, 200, 500}]
  BY DEF TypeOK, Fail

LEMMA FuzzerTyped == TypeOK /\ (FuzzerStep \/ Environment) => TypeOK'
<1> SUFFICES ASSUME TypeOK, FuzzerStep \/ Environment PROVE TypeOK'
  OBVIOUS
<1> USE BoundsAssumption DEF TypeOK, mailbox, fuzzer, client, history,
        FuzzerAlive
<1>1. CASE Poll
  BY <1>1 DEF Poll, PollTarget
<1>2. CASE SetRunning
  BY <1>2 DEF SetRunning, Statuses, NoStatus, TASK_FINISHED, RUNNING
<1>3. CASE ReadOp
  BY <1>3 DEF ReadOp
<1>4. CASE Serve
  <2>1. status' \in Statuses
    BY <1>4, Z3 DEF Serve, Outcome, Statuses, NoStatus, TASK_FINISHED, PAUSE, READY
  <2>2. answered' \in [Clients -> BOOLEAN]
    <3>1. \A c \in Clients : (answered[c] \/ Served(c)) \in BOOLEAN
      BY DEF Served
    <3> QED BY <1>4, <3>1 DEF Serve
  <2>3. held' \in BOOLEAN
    BY <1>4 DEF Serve
  <2> QED BY <1>4, <2>1, <2>2, <2>3 DEF Serve
<1>5. CASE Exec
  BY <1>5 DEF Exec
<1>6. CASE Resize
  BY <1>6 DEF Resize
<1>7. CASE InitStatus
  BY <1>7 DEF InitStatus, Statuses, NoStatus, TASK_FINISHED, RUNNING
<1>8. CASE InitOp
  BY <1>8 DEF InitOp, Ops, READ_QUEUE, READ_QUEUE_CUR, WRITE_QUEUE_CUR
<1>9. CASE ClearEntries
  BY <1>9 DEF ClearEntries
<1>10. CASE Signal
  BY <1>10 DEF Signal
<1>11. CASE Crash
  BY <1>11 DEF Crash
<1>12. CASE Restart
  <2>1. starts' \in 0 .. MaxStarts
    BY <1>12 DEF Restart
  <2>2. status' \in Statuses
    BY <1>12 DEF Restart, Statuses, NoStatus, TASK_FINISHED
  <2> QED BY <1>12, <2>1, <2>2 DEF Restart
<1> QED
  BY <1>1, <1>2, <1>3, <1>4, <1>5, <1>6, <1>7, <1>8, <1>9, <1>10, <1>11, <1>12
     DEF FuzzerStep, Environment

LEMMA ClientTyped ==
  ASSUME TypeOK, NEW c \in Clients, Request(c) \/ ClientStep(c)
  PROVE  TypeOK'
<1> USE DEF mailbox, fuzzer, history
<1>1. CASE Request(c)
  <2>1. PICK r \in Handlers :
          /\ req' = [req EXCEPT ![c] = r]
          /\ want' = [want EXCEPT ![c] = OpOf(r)]
          /\ answered' = [answered EXCEPT ![c] = FALSE]
          /\ GoTo(c, Entry(r))
          /\ UNCHANGED <<mailbox, fuzzer, wanted, held, overtaken>>
    BY <1>1 DEF Request
  <2>2. r \in Routes /\ OpOf(r) \in Ops /\ Entry(r) \in Touching
    BY HandlersAssumption, RouteOps DEF Touching, Waiting
  <2> QED BY <2>1, <2>2, GoToType DEF TypeOK
<1>2. CASE WaitOver(c)
  BY <1>2, GoToType, PhaseTypes DEF TypeOK, WaitOver, Touching
<1>3. CASE WaitMore(c)
  BY <1>3 DEF TypeOK, WaitMore
<1>4. CASE GiveUp(c)
  <2>1. CASE cpc[c] = "opWait"
    BY <1>4, <2>1, GoToType, PhaseTypes DEF TypeOK, GiveUp, Touching, Waiting
  <2>2. CASE cpc[c] # "opWait"
    BY <1>4, <2>2, FailType DEF TypeOK, GiveUp
  <2> QED BY <2>1, <2>2
<1>5. CASE Store(c)
  BY <1>5, GoToType DEF TypeOK, Store, Touching, Waiting
<1>6. CASE StoreThrows(c)
  BY <1>6, FailType DEF TypeOK, StoreThrows
<1>7. CASE Raise(c)
  <2>1. INTERRUPT \in Statuses /\ "post" \in Touching
    BY DEF Touching, Statuses, NoStatus, TASK_FINISHED, INTERRUPT
  <2>2. overtaken \cup Inside \subseteq Clients
    BY DEF TypeOK, Inside
  <2> QED BY <1>7, <2>1, <2>2, GoToType DEF TypeOK, Raise
<1>8. CASE Post(c)
  BY <1>8, GoToType, PhaseTypes DEF TypeOK, Post, Touching, Waiting
<1>9. CASE Fetch(c)
  <2>1. CASE req[c] = "/read/all" /\ want[c] = READ_QUEUE
    <3>1. READ_QUEUE_CUR \in Ops
      BY DEF Ops, READ_QUEUE, READ_QUEUE_CUR, WRITE_QUEUE_CUR
    <3>2. GoTo(c, "opWait") /\ "opWait" \in Touching
      BY <1>9, <2>1 DEF Fetch, Touching, Waiting
    <3>3. /\ want' = [want EXCEPT ![c] = READ_QUEUE_CUR]
          /\ answered' = [answered EXCEPT ![c] = FALSE]
          /\ overtaken' = overtaken \ {c}
          /\ UNCHANGED <<mailbox, fuzzer, req, wanted, held>>
      BY <1>9, <2>1 DEF Fetch
    <3> QED BY <3>1, <3>2, <3>3, GoToType DEF TypeOK
  <2>2. CASE ~ (req[c] = "/read/all" /\ want[c] = READ_QUEUE)
    BY <1>9, <2>2, GoToType DEF TypeOK, Fetch
  <2> QED BY <2>1, <2>2
<1>10. CASE Reply(c)
  BY <1>10 DEF TypeOK, Reply
<1>11. CASE Sigbus(c)
  BY <1>11 DEF TypeOK, Sigbus
<1> QED
  BY <1>1, <1>2, <1>3, <1>4, <1>5, <1>6, <1>7, <1>8, <1>9, <1>10, <1>11
     DEF ClientStep

\* The mailbox, the fuzzer and every client keep their types.
THEOREM TypeCorrect == Spec => []TypeOK
<1>1. Init => TypeOK
  <2>1. RUNNING \in Statuses
    BY DEF Statuses, NoStatus, TASK_FINISHED, RUNNING
  <2>2. READ_QUEUE_CUR \in Ops
    BY DEF Ops, READ_QUEUE, READ_QUEUE_CUR, WRITE_QUEUE_CUR
  <2>3. 0 \in 0 .. MaxCrashes /\ 0 \in 0 .. MaxStarts
    BY BoundsAssumption
  <2> SUFFICES ASSUME Init PROVE TypeOK
    OBVIOUS
  <2>4. /\ cpc \in [Clients -> Touching \cup {"idle", "reply", "killed"}]
        /\ req \in [Clients -> Routes \cup {"none"}]
        /\ want \in [Clients -> Ops \cup {NoOp}]
        /\ tries \in [Clients -> Nat]
        /\ resp \in [Clients -> {0, 200, 500}]
        /\ answered \in [Clients -> BOOLEAN]
    BY DEF Init
  <2>5. /\ status \in Statuses /\ op \in Ops \cup {NoOp}
        /\ mapped \in BOOLEAN /\ stop \in BOOLEAN /\ held \in BOOLEAN
        /\ fpc \in FuzzerAlive \cup {"dead", "exited"}
        /\ fop \in Ops \cup {NoOp} /\ wanted \in Ops \cup {NoOp}
    BY <2>1, <2>2 DEF Init, FuzzerAlive
  <2>6. crashes \in 0 .. MaxCrashes /\ starts \in 0 .. MaxStarts /\ overtaken \subseteq Clients
    BY <2>3 DEF Init
  <2> QED BY <2>4, <2>5, <2>6 DEF TypeOK
<1>2. TypeOK /\ [Next]_vars => TypeOK'
  <2> SUFFICES ASSUME TypeOK, [Next]_vars PROVE TypeOK'
    OBVIOUS
  <2>1. CASE UNCHANGED vars
    BY <2>1 DEF vars, mailbox, fuzzer, client, history, TypeOK
  <2>2. CASE Next
    BY <2>2, FuzzerTyped, ClientTyped DEF Next
  <2> QED BY <2>1, <2>2
<1> QED BY <1>1, <1>2, PTL DEF Spec

-----------------------------------------------------------------------------
(* The mailbox stays at INTERRUPT while the fuzzer is busy with it.        *)

LEMMA NoEarlyAnswerStep == NoEarlyAnswer /\ [Next]_vars => NoEarlyAnswer'
<1> SUFFICES ASSUME NoEarlyAnswer, [Next]_vars PROVE NoEarlyAnswer'
  OBVIOUS
<1> USE DEF NoEarlyAnswer, Busy
<1>1. CASE FuzzerStep \/ Environment
  <2>1. CASE Poll
    BY <2>1 DEF Poll, PollTarget, mailbox, RUNNING, READY, TASK_FINISHED, INTERRUPT
  <2>2. CASE ~ Poll
    BY <1>1, <2>2
       DEF FuzzerStep, Environment, SetRunning, ReadOp, Serve, Exec, Resize,
           InitStatus, InitOp, ClearEntries, Signal, Crash, Restart, mailbox
  <2> QED BY <2>1, <2>2
<1>2. CASE \E c \in Clients : Request(c) \/ ClientStep(c)
  <2> PICK c \in Clients : Request(c) \/ ClientStep(c)
    BY <1>2
  <2>1. CASE Raise(c)
    BY <2>1 DEF Raise, fuzzer
  <2>2. CASE ~ Raise(c)
    BY <2>2, ClientFrame DEF fuzzer
  <2> QED BY <2>1, <2>2
<1>3. CASE UNCHANGED vars
  BY <1>3 DEF vars, mailbox, fuzzer
<1> QED BY <1>1, <1>2, <1>3 DEF Next

\* While common_fuzz_stuff handles an operation, status stays INTERRUPT: no
\* client can take the operation for finished, nor find the mailbox free.
THEOREM NoEarlyAnswerHolds == Spec => []NoEarlyAnswer
<1>1. Init => NoEarlyAnswer
  BY DEF Init, NoEarlyAnswer, Busy
<1> QED BY <1>1, NoEarlyAnswerStep, PTL DEF Spec

-----------------------------------------------------------------------------
(* A status of PAUSE is a fuzzer at rest.                                  *)

\* A status of PAUSE means that no target is being executed: only the fuzzer
\* stores PAUSE, and it stores it in the loop it then sleeps in.
THEOREM PauseQuiescesHolds == Spec => []PauseQuiesces
<1> USE DEF PauseQuiesces
<1>1. Init => PauseQuiesces
  BY DEF Init, RUNNING, PAUSE
<1>2. PauseQuiesces /\ [Next]_vars => PauseQuiesces'
  <2> SUFFICES ASSUME PauseQuiesces, [Next]_vars PROVE PauseQuiesces'
    OBVIOUS
  <2>1. CASE FuzzerStep \/ Environment
    <3>1. CASE Poll
      BY <3>1 DEF Poll, PollTarget, mailbox, PAUSE, RUNNING, READY,
                  TASK_FINISHED, INTERRUPT
    <3>2. CASE ~ Poll
      BY <2>1, <3>2
         DEF FuzzerStep, Environment, SetRunning, ReadOp, Serve, Exec, Resize,
             InitStatus, InitOp, ClearEntries, Signal, Crash, Restart, mailbox,
             PAUSE, RUNNING, NoStatus
    <3> QED BY <3>1, <3>2
  <2>2. CASE \E c \in Clients : Request(c) \/ ClientStep(c)
    <3> PICK c \in Clients : Request(c) \/ ClientStep(c)
      BY <2>2
    <3>1. CASE Raise(c)
      BY <3>1 DEF Raise, INTERRUPT, PAUSE
    <3>2. CASE ~ Raise(c)
      BY <3>2, ClientFrame DEF fuzzer
    <3> QED BY <3>1, <3>2
  <2>3. CASE UNCHANGED vars
    BY <2>3 DEF vars, mailbox, fuzzer
  <2> QED BY <2>1, <2>2, <2>3 DEF Next
<1> QED BY <1>1, <1>2, PTL DEF Spec

-----------------------------------------------------------------------------
(* One service per raise.                                                  *)

\* A client inside a request knows which operation it wants.
WantKnown == \A c \in Clients : cpc[c] \in Touching => want[c] \in Ops

\* A mailbox at INTERRUPT carries a raise nobody has served.
RaiseKnown == status = INTERRUPT => wanted # NoOp

LEMMA WantKnownStep == TypeOK /\ WantKnown /\ [Next]_vars => WantKnown'
<1> SUFFICES ASSUME TypeOK, WantKnown, [Next]_vars PROVE WantKnown'
  OBVIOUS
<1>1. CASE FuzzerStep \/ Environment
  <2>1. UNCHANGED client
    BY <1>1 DEF FuzzerStep, Environment, Poll, SetRunning, ReadOp, Serve, Exec,
       Resize, InitStatus, InitOp, ClearEntries, Signal, Crash, Restart
  <2> QED BY <2>1 DEF WantKnown, client
<1>2. CASE \E c \in Clients : Request(c) \/ ClientStep(c)
  <2> PICK c \in Clients : Request(c) \/ ClientStep(c)
    BY <1>2
  <2> SUFFICES ASSUME NEW d \in Clients, cpc'[d] \in Touching
               PROVE  want'[d] \in Ops
    BY DEF WantKnown
  <2> USE DEF TypeOK, WantKnown
  <2>1. CASE Request(c)
    BY <2>1, HandlersAssumption, RouteOps DEF Request, GoTo, Touching, Waiting
  <2>2. CASE WaitOver(c) \/ WaitMore(c) \/ Store(c) \/ Raise(c) \/ Post(c) \/ StoreThrows(c)
    BY <2>2 DEF WaitOver, WaitMore, Store, Raise, Post, StoreThrows, GoTo, Fail,
                Touching
  <2>3. CASE GiveUp(c)
    BY <2>3 DEF GiveUp, GoTo, Fail, Touching
  <2>4. CASE Fetch(c)
    <3>1. READ_QUEUE_CUR \in Ops
      BY DEF Ops, READ_QUEUE, READ_QUEUE_CUR, WRITE_QUEUE_CUR
    <3> QED BY <2>4, <3>1 DEF Fetch, GoTo, Touching
  <2>5. CASE Reply(c)
    BY <2>5 DEF Reply, Touching, Waiting
  <2>6. CASE Sigbus(c)
    BY <2>6 DEF Sigbus, Touching, Waiting
  <2> QED BY <2>1, <2>2, <2>3, <2>4, <2>5, <2>6 DEF ClientStep
<1>3. CASE UNCHANGED vars
  BY <1>3 DEF vars, client, WantKnown
<1> QED BY <1>1, <1>2, <1>3 DEF Next

LEMMA RaiseKnownStep ==
  NoEarlyAnswer /\ WantKnown /\ RaiseKnown /\ [Next]_vars => RaiseKnown'
<1> SUFFICES ASSUME NoEarlyAnswer, WantKnown, RaiseKnown, [Next]_vars
             PROVE  RaiseKnown'
  OBVIOUS
<1> USE DEF RaiseKnown
<1>1. CASE FuzzerStep \/ Environment
  <2>1. CASE Serve
    BY <2>1 DEF Serve, Outcome, INTERRUPT, PAUSE, READY, TASK_FINISHED
  <2>2. CASE ~ Serve
    BY <1>1, <2>2
       DEF FuzzerStep, Environment, Poll, SetRunning, ReadOp, Exec, Resize,
           InitStatus, InitOp, ClearEntries, Signal, Crash, Restart, mailbox,
           history, INTERRUPT, RUNNING, NoStatus
  <2> QED BY <2>1, <2>2
<1>2. CASE \E c \in Clients : Request(c) \/ ClientStep(c)
  <2> PICK c \in Clients : Request(c) \/ ClientStep(c)
    BY <1>2
  <2>1. CASE Raise(c)
    BY <2>1 DEF Raise, WantKnown, Touching, Ops, NoOp, READ_QUEUE
  <2>2. CASE ~ Raise(c)
    BY <2>2, ClientFrame
  <2> QED BY <2>1, <2>2
<1>3. CASE UNCHANGED vars
  BY <1>3 DEF vars, mailbox, history
<1> QED BY <1>1, <1>2, <1>3 DEF Next

\* The fuzzer never handles an operation nobody raised, and never two for one
\* raise: an outcome it stores always consumes the raise.
THEOREM OneServicePerRaiseHolds == Spec => []OneServicePerRaise
<1> DEFINE IInv == NoEarlyAnswer /\ WantKnown /\ RaiseKnown
<1>1. Init => IInv
  BY DEF Init, NoEarlyAnswer, Busy, WantKnown, RaiseKnown, Touching, Waiting,
         RUNNING, INTERRUPT
<1>2. TypeOK /\ IInv /\ [Next]_vars => IInv'
  BY NoEarlyAnswerStep, WantKnownStep, RaiseKnownStep
<1>3. IInv => OneServicePerRaise
  BY DEF NoEarlyAnswer, RaiseKnown, OneServicePerRaise
<1> QED BY <1>1, <1>2, <1>3, TypeCorrect, PTL DEF Spec

-----------------------------------------------------------------------------
(* The data areas.                                                         *)

\* Where a change of phase takes a client.
LEMMA Goes ==
  ASSUME TypeOK, NEW c \in Clients, NEW phase, cpc' = [cpc EXCEPT ![c] = phase]
  PROVE  /\ phase \in {"store", "fetch"} => Inside' = Inside \cup {c}
         /\ phase \notin {"store", "fetch"} => Inside' = Inside \ {c}
  BY DEF TypeOK, Inside

\* The phases from which a client goes in, and those in which it is inside.
LEMMA Phases ==
  ASSUME NEW c \in Clients
  PROVE  /\ cpc[c] \in Waiting \cup {"idle", "raise", "post", "reply"} => c \notin Inside
         /\ cpc[c] \in {"store", "fetch"} => c \in Inside
  BY DEF Inside, Waiting

LEMMA Aside ==
  ASSUME TypeOK, NEW c \in Clients, NEW phase, phase \notin {"store", "fetch"},
         cpc[c] \in Waiting \cup {"idle", "raise", "post", "reply"},
         cpc' = [cpc EXCEPT ![c] = phase]
  PROVE  UNCHANGED Inside
<1>1. Inside' = Inside \ {c}
  BY Goes
<1>2. c \notin Inside
  BY Phases
<1> QED BY <1>1, <1>2

\* What a step of a client is to the areas.
Enters(c) ==
  /\ status # INTERRUPT /\ c \notin Inside /\ Inside' = Inside \cup {c}
  /\ UNCHANGED <<status, wanted, overtaken>>
Leaves(c) ==
  /\ c \in Inside /\ Inside' = Inside \ {c} /\ overtaken' = overtaken \ {c}
  /\ UNCHANGED <<status, wanted>>
Claims(c) ==
  /\ cpc[c] = "raise" /\ status' = INTERRUPT /\ wanted' = want[c]
  /\ overtaken' = overtaken \cup Inside /\ UNCHANGED Inside
Dies == Inside' = {} /\ overtaken' = {} /\ UNCHANGED <<status, wanted>>
StaysOut == UNCHANGED <<Inside, overtaken, status, wanted>>

LEMMA ClientMoves ==
  ASSUME TypeOK, NEW c \in Clients, Request(c) \/ ClientStep(c)
  PROVE  Enters(c) \/ Leaves(c) \/ Claims(c) \/ Dies \/ StaysOut
<1> USE DEF mailbox, history
<1>1. CASE Request(c)
  <2>1. PICK phase \in {"preWait", "opWait"} : GoTo(c, phase)
    BY <1>1, HandlersAssumption, RouteOps DEF Request
  <2>2. cpc[c] = "idle" /\ cpc' = [cpc EXCEPT ![c] = phase]
    BY <1>1, <2>1 DEF Request, GoTo
  <2>3. UNCHANGED Inside
    BY <2>2, Aside
  <2> QED BY <1>1, <2>3 DEF Request, StaysOut
<1>2. CASE WaitOver(c)
  <2>1. cpc[c] \in Waiting /\ status # INTERRUPT /\ GoTo(c, AfterWait(c))
        /\ UNCHANGED <<status, wanted, overtaken>>
    BY <1>2 DEF WaitOver
  <2>2. c \notin Inside
    BY <2>1, Phases
  <2>3. Inside' = Inside \cup {c} \/ UNCHANGED Inside
    <3>1. PICK phase : phase = AfterWait(c)
      OBVIOUS
    <3>2. cpc' = [cpc EXCEPT ![c] = phase]
      BY <2>1, <3>1 DEF GoTo
    <3>3. Inside' = Inside \cup {c} \/ Inside' = Inside \ {c}
      BY <3>2, Goes, Zenon
    <3>4. Inside \ {c} = Inside
      BY <2>2
    <3> QED BY <3>3, <3>4
  <2> QED BY <2>1, <2>2, <2>3 DEF Enters, StaysOut
<1>3. CASE WaitMore(c)
  BY <1>3 DEF WaitMore, StaysOut, Inside
<1>4. CASE GiveUp(c)
  <2>1. PICK phase \in {"resWait", "reply"} : cpc' = [cpc EXCEPT ![c] = phase]
    BY <1>4, PhaseTypes DEF GiveUp, GoTo, Fail
  <2>2. UNCHANGED Inside
    BY <1>4, <2>1, Aside DEF GiveUp
  <2> QED BY <1>4, <2>2 DEF GiveUp, StaysOut
<1>5. CASE Store(c) \/ StoreThrows(c) \/ Fetch(c)
  <2>1. PICK phase \in {"opWait", "reply"} : cpc' = [cpc EXCEPT ![c] = phase]
    BY <1>5 DEF Store, StoreThrows, Fetch, GoTo, Fail
  <2>2. c \in Inside /\ overtaken' = overtaken \ {c} /\ UNCHANGED <<status, wanted>>
    BY <1>5, Phases DEF Store, StoreThrows, Fetch
  <2>3. Inside' = Inside \ {c}
    BY <2>1, Goes
  <2> QED BY <2>2, <2>3 DEF Leaves
<1>6. CASE Raise(c)
  <2>1. /\ cpc[c] = "raise" /\ status' = INTERRUPT /\ wanted' = want[c]
        /\ overtaken' = overtaken \cup Inside
    BY <1>6 DEF Raise
  <2>2. UNCHANGED Inside
    <3>1. PICK phase \in {"post"} : cpc' = [cpc EXCEPT ![c] = phase]
      BY <1>6 DEF Raise, GoTo
    <3> QED BY <2>1, <3>1, Aside
  <2> QED BY <2>1, <2>2 DEF Claims
<1>7. CASE Post(c)
  <2>1. PICK phase \in {"resWait", "reply"} : cpc' = [cpc EXCEPT ![c] = phase]
    BY <1>7, PhaseTypes DEF Post, GoTo
  <2>2. UNCHANGED Inside
    BY <1>7, <2>1, Aside DEF Post
  <2> QED BY <1>7, <2>2 DEF Post, StaysOut
<1>8. CASE Reply(c)
  <2>1. PICK phase \in {"idle"} : cpc' = [cpc EXCEPT ![c] = phase]
    BY <1>8 DEF Reply
  <2>2. UNCHANGED Inside
    BY <1>8, <2>1, Aside DEF Reply
  <2> QED BY <1>8, <2>2 DEF Reply, StaysOut
<1>9. CASE Sigbus(c)
  <2>1. Inside' = {}
    BY <1>9 DEF Sigbus, Inside
  <2> QED BY <1>9, <2>1 DEF Sigbus, Dies
<1> QED
  BY <1>1, <1>2, <1>3, <1>4, <1>5, <1>6, <1>7, <1>8, <1>9 DEF ClientStep

\* No step of the fuzzer moves a client or raises INTERRUPT.
LEMMA FuzzerMoves ==
  ASSUME FuzzerStep \/ Environment
  PROVE  UNCHANGED <<Inside, overtaken>> /\ (status' = status \/ status' # INTERRUPT)
<1>1. UNCHANGED <<cpc, overtaken>>
  BY DEF FuzzerStep, Environment, Poll, SetRunning, ReadOp, Serve, Exec, Resize,
     InitStatus, InitOp, ClearEntries, Signal, Crash, Restart, client, history
<1>2. status' = status \/ status' # INTERRUPT
  BY DEF FuzzerStep, Environment, Poll, SetRunning, ReadOp, Serve, Exec, Resize,
     InitStatus, InitOp, ClearEntries, Signal, Crash, Restart, mailbox, Outcome,
     INTERRUPT, PAUSE, READY, TASK_FINISHED, RUNNING, NoStatus
<1> QED BY <1>1, <1>2 DEF Inside

\* A client goes in when the status is not INTERRUPT, and whoever raises it next
\* overtakes that client.
InsideInv ==
  /\ overtaken \subseteq Inside
  /\ status = INTERRUPT => Inside \subseteq overtaken

LEMMA InsideStep == TypeOK /\ InsideInv /\ [Next]_vars => InsideInv'
<1> SUFFICES ASSUME TypeOK, InsideInv, [Next]_vars PROVE InsideInv'
  OBVIOUS
<1> USE DEF InsideInv
<1>1. CASE FuzzerStep \/ Environment
  BY <1>1, FuzzerMoves
<1>2. CASE \E c \in Clients : Request(c) \/ ClientStep(c)
  <2> PICK c \in Clients : Request(c) \/ ClientStep(c)
    BY <1>2
  <2> QED BY ClientMoves DEF Enters, Leaves, Claims, Dies, StaysOut
<1>3. CASE UNCHANGED vars
  BY <1>3 DEF vars, mailbox, client, history, Inside
<1> QED BY <1>1, <1>2, <1>3 DEF Next

\* The fuzzer never serves an operation while a client is in the data areas that
\* found the mailbox free and has not been overtaken since: of any number of clients,
\* whatever times out, gives up, crashes or restarts.
THEOREM AreaExclusionHolds == Spec => []AreaExclusion
<1>1. Init => NoEarlyAnswer /\ InsideInv
  BY DEF Init, NoEarlyAnswer, Busy, InsideInv, Inside, RUNNING, INTERRUPT
<1>2. TypeOK /\ NoEarlyAnswer /\ InsideInv /\ [Next]_vars
        => (NoEarlyAnswer /\ InsideInv)'
  BY NoEarlyAnswerStep, InsideStep
<1>3. NoEarlyAnswer /\ InsideInv => AreaExclusion
  BY DEF NoEarlyAnswer, InsideInv, AreaExclusion
<1> QED BY <1>1, <1>2, <1>3, TypeCorrect, PTL DEF Spec

\* What a step of the fuzzer is to the lock: a service begins only with a raise
\* pending and everybody inside overtaken.
LEMMA FuzzerRefines ==
  ASSUME RaiseKnown, InsideInv, FuzzerStep \/ Environment
  PROVE  [Area!Next]_Area!vars
<1>1. UNCHANGED <<Inside, overtaken>>
  BY FuzzerMoves
<1> USE <1>1 DEF Area!Next, Area!vars, Area!Serve, Area!Answer, Area!Clear,
                 Area!Stop, Busy, Clearing, mailbox, history
<1>2. CASE Poll
  <2>1. CASE status = INTERRUPT
    BY <1>2, <2>1 DEF Poll, RaiseKnown, InsideInv, PollTarget, RUNNING, READY,
       TASK_FINISHED, INTERRUPT
  <2>2. CASE status # INTERRUPT
    BY <1>2, <2>2 DEF Poll, PollTarget
  <2> QED BY <2>1, <2>2
<1>3. CASE SetRunning
  BY <1>3 DEF SetRunning
<1>4. CASE ReadOp
  BY <1>4 DEF ReadOp
<1>5. CASE Serve
  BY <1>5 DEF Serve
<1>6. CASE Exec \/ Resize \/ InitStatus \/ Signal
  BY <1>6 DEF Exec, Resize, InitStatus, Signal
<1>7. CASE InitOp
  BY <1>7 DEF InitOp
<1>8. CASE ClearEntries
  BY <1>8 DEF ClearEntries
<1>9. CASE Crash
  BY <1>9 DEF Crash
<1>10. CASE Restart
  BY <1>10 DEF Restart
<1> QED
  BY <1>2, <1>3, <1>4, <1>5, <1>6, <1>7, <1>8, <1>9, <1>10 DEF FuzzerStep, Environment

LEMMA ClientRefines ==
  ASSUME TypeOK, NoEarlyAnswer, WantKnown, InsideInv,
         NEW c \in Clients, Request(c) \/ ClientStep(c)
  PROVE  [Area!Next]_Area!vars
<1>1. UNCHANGED fpc
  BY ClientFrame DEF fuzzer
<1>2. UNCHANGED <<Busy, Clearing>>
  BY <1>1 DEF Busy, Clearing
<1>3. CASE Enters(c)
  <2>1. ~Busy
    BY <1>3 DEF Enters, NoEarlyAnswer
  <2>2. Area!Enter(c)
    BY <1>2, <1>3, <2>1 DEF Enters, Area!Enter
  <2> QED BY <2>2 DEF Area!Next
<1>4. CASE Leaves(c)
  <2>1. Area!Leave(c)
    BY <1>2, <1>4 DEF Leaves, Area!Leave
  <2> QED BY <2>1 DEF Area!Next
<1>5. CASE Claims(c)
  <2>1. want[c] # NoOp
    BY <1>5 DEF Claims, WantKnown, Touching, Ops, NoOp, READ_QUEUE
  <2>2. overtaken' = Inside
    BY <1>5 DEF Claims, InsideInv
  <2>3. Area!Claim
    BY <1>2, <1>5, <2>1, <2>2 DEF Claims, Area!Claim
  <2> QED BY <2>3 DEF Area!Next
<1>6. CASE Dies
  <2>1. Area!Die
    BY <1>2, <1>6 DEF Dies, Area!Die
  <2> QED BY <2>1 DEF Area!Next
<1>7. CASE StaysOut
  BY <1>2, <1>7 DEF StaysOut, Area!vars
<1> QED BY <1>3, <1>4, <1>5, <1>6, <1>7, ClientMoves

\* The protocol implements the lock of DataArea: clients go in whenever the fuzzer is
\* not serving, also while it clears the areas at start-up, and the fuzzer serves once
\* for each claim, with nobody inside but those whom a claim has overtaken.
THEOREM ImplementsDataArea == Spec => AreaSpec
<1> DEFINE IInv == NoEarlyAnswer /\ WantKnown /\ RaiseKnown /\ InsideInv
<1>1. Init => Area!Init
  BY DEF Init, Area!Init, Busy, Clearing, Inside
<1>2. Init => IInv
  BY DEF Init, NoEarlyAnswer, Busy, WantKnown, RaiseKnown, Touching, Waiting,
         RUNNING, INTERRUPT, InsideInv, Inside
<1>3. TypeOK /\ IInv /\ [Next]_vars => IInv'
  BY NoEarlyAnswerStep, WantKnownStep, RaiseKnownStep, InsideStep
<1>4. TypeOK /\ IInv /\ [Next]_vars => [Area!Next]_Area!vars
  <2> SUFFICES ASSUME TypeOK, IInv, [Next]_vars PROVE [Area!Next]_Area!vars
    OBVIOUS
  <2>1. CASE FuzzerStep \/ Environment
    BY <2>1, FuzzerRefines
  <2>2. CASE \E c \in Clients : Request(c) \/ ClientStep(c)
    BY <2>2, ClientRefines
  <2>3. CASE UNCHANGED vars
    BY <2>3 DEF vars, mailbox, fuzzer, client, history, Area!vars, Busy, Clearing, Inside
  <2> QED BY <2>1, <2>2, <2>3 DEF Next
<1> QED BY <1>1, <1>2, <1>3, <1>4, TypeCorrect, PTL DEF Spec, AreaSpec, Area!Spec

-----------------------------------------------------------------------------
(* A fuzzer that has served a pause stays in its poll loop.                *)

\* It sleeps on PAUSE, or it is about to serve what was raised since.
PausedInv ==
  held => /\ fpc \in {"poll", "readOp", "serve", "dead"}
          /\ fpc = "poll" => status \in {PAUSE, INTERRUPT}

LEMMA PausedStep == PausedInv /\ NoEarlyAnswer /\ [Next]_vars => PausedInv'
<1> SUFFICES ASSUME PausedInv, NoEarlyAnswer, [Next]_vars PROVE PausedInv'
  OBVIOUS
<1> USE DEF PausedInv, mailbox, fuzzer, history
<1>1. CASE Poll
  BY <1>1 DEF Poll, PollTarget, PAUSE, INTERRUPT, RUNNING, READY, TASK_FINISHED
<1>2. CASE ReadOp
  BY <1>2 DEF ReadOp, NoEarlyAnswer, Busy
<1>3. CASE Serve
  <2>1. held' = (fop = PAUSE_FUZZER) /\ fpc' = "poll" /\ status' = Outcome(fop)
    BY <1>3 DEF Serve
  <2>2. fop = PAUSE_FUZZER => Outcome(fop) = PAUSE
    BY DEF Outcome, PAUSE_FUZZER, RESUME_FUZZER
  <2> QED BY <2>1, <2>2
<1>4. CASE Restart
  BY <1>4 DEF Restart
<1>5. CASE FuzzerStep /\ ~Poll /\ ~ReadOp /\ ~Serve
  BY <1>5 DEF FuzzerStep, SetRunning, Exec, Resize, InitStatus, InitOp, ClearEntries
<1>6. CASE Signal \/ Crash
  BY <1>6 DEF Signal, Crash
<1>7. CASE \E c \in Clients : Request(c) \/ ClientStep(c)
  <2> PICK c \in Clients : Request(c) \/ ClientStep(c)
    BY <1>7
  <2>1. CASE Raise(c)
    BY <2>1 DEF Raise
  <2>2. CASE ~Raise(c)
    BY <2>2, ClientFrame
  <2> QED BY <2>1, <2>2
<1>8. CASE UNCHANGED vars
  BY <1>8 DEF vars
<1> QED
  BY <1>1, <1>2, <1>3, <1>4, <1>5, <1>6, <1>7, <1>8 DEF Next, Environment

\* A fuzzer that has handled a pause runs no target before it has handled another
\* operation: neither its own steps nor those of any client get it out of PAUSE.
THEOREM PausedStaysPausedHolds == Spec => []PausedStaysPaused
<1>1. Init => NoEarlyAnswer /\ PausedInv
  BY DEF Init, NoEarlyAnswer, Busy, PausedInv
<1>2. NoEarlyAnswer /\ PausedInv /\ [Next]_vars => (NoEarlyAnswer /\ PausedInv)'
  BY NoEarlyAnswerStep, PausedStep
<1>3. PausedInv => PausedStaysPaused
  BY DEF PausedInv, PausedStaysPaused
<1> QED BY <1>1, <1>2, <1>3, PTL DEF Spec
=============================================================================
