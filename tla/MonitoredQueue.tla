--------------------------- MODULE MonitoredQueue ---------------------------
(***************************************************************************)
(* The data that the monitor and the fuzzer exchange, and what it does to  *)
(* the queue: the areas queue, queue_len and queue_cur of struct CaseInfo, *)
(* the four functions that copy between them and the queue entries, and a  *)
(* client that writes back, edited, what it has read, or what it has made  *)
(* up.  The fuzzer goes on between the request and its service, and may be *)
(* killed and started again, with -i - or with its corpus.                 *)
(*                                                                         *)
(* One client: CaseInfo is shown to implement the lock of DataArea, where  *)
(* only another client's claim lets the service and a client into the      *)
(* areas together, so filling an area, serving and fetching the answer are *)
(* single steps here.                                                      *)
(***************************************************************************)
EXTENDS Triage

CONSTANTS
  MaxQueueLen,      \* MAX_QUEUE_LEN
  MadeUp,           \* entries that a client may send without having read them
  MaxRequests,      \* bound: requests of the client
  MaxLives          \* bound: sessions of the fuzzer

ASSUME LimitAssumption == MaxQueueLen \in Nat \ {0}
ASSUME RequestsAssumption == MaxRequests \in Nat /\ MaxLives \in Nat \ {0}

VARIABLES
  op,               \* the operation raised, "none" if the mailbox is free
  area, queue_len,  \* struct CaseInfo: the array queue, and behind it queue_cur
  cur,              \* the place of queue_cur in the fuzzer's list, 0 before any
  polling,          \* fuzz_one has come to the stages that poll the mailbox
  alive,            \* FALSE once a copy has run past the list or the struct
  life, requests,
  copy, copy_cur,   \* what the client has last read
  \* history: the session that copy and the list in area were read in (0 if none),
  \* whether the list came without distances, whether queue_cur has moved on since the client read
  \* it, and whether a write was served in this session
  copyLife, areaLife, omitted, moved, edited

client == <<requests, copy, copy_cur, copyLife>>
areas == <<op, area, queue_len, areaLife, omitted>>
monitorVars == <<areas, cur, polling, alive, life, moved, edited, client>>
vars == <<triageVars, monitorVars>>

Reads == {"READ_QUEUE", "READ_QUEUE_CUR"}
Writes == {"WRITE_QUEUE", "WRITE_QUEUE_CUR"}
NoEntry == [fname |-> 0, distance |-> 0, marks |-> "default"]    \* after memset
AreaEntry == [fname : 0 .. MaxSeeds, distance : Distances, marks : Marks]
CurPlace == MaxQueueLen + 1
ASSUME MadeUpAssumption == MadeUp \subseteq AreaEntry
Cleared == [i \in 1 .. CurPlace |-> NoEntry]                     \* init_case_info

TypeOK ==
  /\ TriageTypeOK
  /\ op \in Reads \cup Writes \cup {"none"}
  /\ area \in [1 .. CurPlace -> AreaEntry] /\ queue_len \in 0 .. CurPlace
  /\ cur \in 0 .. Len(queue) /\ polling \in BOOLEAN /\ (polling => cur > 0)
  /\ \A flag \in {alive, omitted, moved, edited} : flag \in BOOLEAN
  /\ life \in 1 .. MaxLives /\ areaLife \in 0 .. life /\ copyLife \in 0 .. life
  /\ requests \in 0 .. MaxRequests
  /\ copy \in Seq(AreaEntry) /\ Len(copy) <= CurPlace /\ copy_cur \in AreaEntry

Init ==
  /\ TriageInit
  /\ op = "none"
  /\ area = Cleared /\ queue_len = 0 /\ areaLife = 0 /\ omitted = FALSE
  /\ cur = 0 /\ polling = FALSE /\ alive = TRUE /\ life = 1 /\ moved = TRUE /\ edited = FALSE
  /\ requests = 0
  /\ copy = <<>> /\ copy_cur = NoEntry /\ copyLife = 0

-----------------------------------------------------------------------------
(* The fuzzer.                                                             *)

FuzzStep ==
  /\ alive
  /\ \/ DryRun
     \/ \E t \in Traces : Boring(t) \/ Crash(t) \/ Hang(t)
     \/ \E t \in Traces, d \in Distances : Interesting(t, d)
  /\ UNCHANGED monitorVars

\* The main loop goes on to the next entry.  fuzz_one skips it, by chance or because
\* it has used up its calibrations, or scores and fuzzes it, if need be after another
\* calibration.  What cull_queue and fuzz_one make of the marks is in SeedQueue.
NextEntry ==
  /\ alive /\ Fuzzing
  /\ cur' = IF cur = Len(queue) THEN 1 ELSE cur + 1
  /\ \/ polling' = FALSE /\ UNCHANGED triageVars
     \/ /\ queue[cur'].cal_failed = 0
        /\ polling' = TRUE
        /\ queue' = [queue EXCEPT ![cur'] = Scored(@)]
        /\ UNCHANGED <<virgin, dry, distances, files, born, history>>
     \/ \E good \in BOOLEAN : polling' = good /\ Recalibrate(cur', good)
  /\ moved' = TRUE
  /\ UNCHANGED <<areas, alive, life, edited, client>>

InArea(q) == [fname |-> q.fname, distance |-> q.distance, marks |-> q.marks]

\* Mutant: the distance is left behind.
Loaded_MarksOnly(q, e) == [q EXCEPT !.marks = e.marks]

Loaded(q, e) == [q EXCEPT !.distance = e.distance, !.marks = e.marks]

\* write_queue_to_case_info_mm knows no bound: one entry more than the array has
\* lands on queue_cur, which follows it, and the next one runs past the struct.
ServeReadQueue ==
  /\ op = "READ_QUEUE"
  /\ IF Len(queue) > CurPlace
       THEN alive' = FALSE /\ UNCHANGED <<queue, area, queue_len, areaLife, copy, copyLife>>
       ELSE /\ area' = [i \in DOMAIN area |->
                          IF i \in DOMAIN queue THEN InArea(queue[i]) ELSE area[i]]
            /\ queue_len' = Len(queue)
            /\ queue' = [i \in DOMAIN queue |-> Scored(queue[i])]
            /\ areaLife' = life
            /\ copy' = SubSeq(area', 1, queue_len') /\ copyLife' = life
            /\ UNCHANGED alive
  /\ UNCHANGED <<copy_cur, moved>>

\* Mutant: the loop runs once too often.
ServeWriteQueue_OneMore ==
  /\ op = "WRITE_QUEUE"
  /\ IF queue_len >= Len(queue)
       THEN alive' = FALSE /\ UNCHANGED queue
       ELSE /\ queue' = [i \in DOMAIN queue |->
                           IF i <= queue_len THEN Loaded(queue[i], area[i]) ELSE queue[i]]
            /\ UNCHANGED alive
  /\ UNCHANGED <<area, queue_len, areaLife, copy, copyLife, copy_cur, moved>>

\* load_queue_from_case_info_mm goes by place, and trusts queue_len.
ServeWriteQueue ==
  /\ op = "WRITE_QUEUE"
  /\ IF queue_len > Len(queue)
       THEN alive' = FALSE /\ UNCHANGED queue
       ELSE /\ queue' = [i \in DOMAIN queue |->
                           IF i <= queue_len THEN Loaded(queue[i], area[i]) ELSE queue[i]]
            /\ UNCHANGED alive
  /\ UNCHANGED <<area, queue_len, areaLife, copy, copyLife, copy_cur, moved>>

ServeReadCur ==
  /\ op = "READ_QUEUE_CUR"
  /\ area' = [area EXCEPT ![CurPlace] = InArea(queue[cur])]
  /\ queue' = [queue EXCEPT ![cur] = Scored(@)]
  /\ copy_cur' = area'[CurPlace] /\ moved' = FALSE
  /\ UNCHANGED <<alive, queue_len, areaLife, copy, copyLife>>

ServeWriteCur ==
  /\ op = "WRITE_QUEUE_CUR"
  /\ queue' = [queue EXCEPT ![cur] = Loaded(@, area[CurPlace])]
  /\ UNCHANGED <<alive, area, queue_len, areaLife, copy, copyLife, copy_cur, moved>>

\* The poll before an execution.  A service the fuzzer does not survive leaves the
\* mailbox as it is.
Serve ==
  /\ alive /\ polling
  /\ ServeReadQueue \/ ServeWriteQueue \/ ServeReadCur \/ ServeWriteCur
  /\ op' = IF alive' THEN "none" ELSE op
  /\ omitted' = FALSE
  /\ edited' = (edited \/ op \in Writes)
  /\ UNCHANGED <<virgin, dry, distances, files, born, history, cur, polling, life, requests>>

\* Killed, or dead of what it has served; the mailbox is made anew, and the session
\* starts with the names of the old queue (-i -) or of the corpus.
Restart ==
  /\ life < MaxLives
  /\ life' = life + 1
  /\ \E n \in {InitSeeds, Len(queue)} :
       queue' = FreshQueue([i \in 1 .. n |-> queue[i].fname])
  /\ dry' = 0
  /\ virgin_bits' = AllBits /\ virgin_tmout' = AllSimple /\ virgin_crash' = AllSimple
  /\ max_distance' = 0 /\ min_distance' = 0
  /\ crashes' = {} /\ hangs' = {} /\ unique_tmouts' = 0
  /\ ranBits' = {} /\ crashBits' = {} /\ hangBits' = {} /\ unconfirmed' = {}
  /\ cur' = 0 /\ polling' = FALSE /\ alive' = TRUE /\ moved' = TRUE /\ edited' = FALSE
  /\ op' = "none"
  /\ area' = Cleared /\ queue_len' = 0 /\ areaLife' = 0 /\ omitted' = FALSE
  /\ UNCHANGED <<born, client>>

-----------------------------------------------------------------------------
(* The client.                                                             *)

Post(o) ==
  /\ requests < MaxRequests
  /\ op = "none"
  /\ op' = o
  /\ requests' = requests + 1

Read == /\ \E o \in Reads : Post(o)
        /\ UNCHANGED <<triageVars, area, queue_len, areaLife, omitted, cur, polling, alive,
                       life, moved, edited, copy, copy_cur, copyLife>>

\* queue_entry_from_json.  A field that the body leaves out, here the distance, keeps
\* what the area holds.
FromJson(old, body, leaveOut) ==
  IF leaveOut THEN [body EXCEPT !.distance = old.distance] ELSE body

\* An entry that was read, with the marks changed (bound: always), and with the
\* distance it was or another.
Bodies(e) == [fname : {e.fname}, marks : {"set"}, distance : Distances]

\* queue_from_json puts the entries of the body in place, however many they are
\* (bound: those that fit in the struct, which the monitor itself would run past).
SendList(list, leaveOut) ==
  /\ Post("WRITE_QUEUE")
  /\ area' = [k \in DOMAIN area |-> IF k \in DOMAIN list
                                     THEN FromJson(area[k], list[k], leaveOut)
                                     ELSE area[k]]
  /\ queue_len' = Len(list)
  /\ omitted' = leaveOut

\* The list as it was read, with one entry edited, or another one.
WriteQueue ==
  /\ \/ /\ \E i \in DOMAIN copy, leaveOut \in BOOLEAN : \E body \in Bodies(copy[i]) :
             SendList([copy EXCEPT ![i] = body], leaveOut)
        /\ areaLife' = copyLife
     \/ /\ \E n \in 0 .. CurPlace : \E list \in [1 .. n -> MadeUp] : SendList(list, FALSE)
        /\ areaLife' = 0
  /\ UNCHANGED <<triageVars, cur, polling, alive, life, moved, edited, copy, copy_cur,
                 copyLife>>

WriteCur ==
  /\ Post("WRITE_QUEUE_CUR")
  /\ \E leaveOut \in BOOLEAN, body \in MadeUp \cup Bodies(copy_cur) :
       /\ copy_cur # NoEntry \/ body \in MadeUp
       /\ area' = [area EXCEPT ![CurPlace] = FromJson(@, body, leaveOut)]
  /\ UNCHANGED <<triageVars, queue_len, areaLife, omitted, cur, polling, alive, life, moved,
                 edited, copy, copy_cur, copyLife>>

Next == FuzzStep \/ NextEntry \/ Serve \/ Restart \/ Read \/ WriteQueue \/ WriteCur

Spec == Init /\ [][Next]_vars

-----------------------------------------------------------------------------
(* Properties.                                                             *)

\* Until a client writes, every known distance is within the limits by which it is
\* normalised, though two functions keep them: so no entry's score leaves the range
\* from 3 to 1600, whose lower end no code checks.
DistancesBounded ==
  ~edited =>
    \A i \in DOMAIN queue :
      queue[i].distance > 0 => /\ min_distance <= queue[i].distance
                               /\ queue[i].distance <= max_distance
                               /\ CalculateScore(queue[i]) \in 3 .. 1600

ReadServed == op \in Reads /\ Serve

\* Monitoring does not disturb the fuzzing: to serve a read changes no entry's score,
\* although calculate_score uses up its handicap.
ReadsHarmless ==
  [][ReadServed => \A i \in DOMAIN queue :
                     /\ InArea(queue'[i]) = InArea(queue[i])
                     /\ CalculateScore(queue[i])' = CalculateScore(queue[i])]_vars

WriteServed == op \in Writes /\ Serve /\ alive'

\* What a client writes reaches the entries it has read, although neither copy looks
\* at the names: a list of the same session, even if entries were added since; a
\* queue_cur if the fuzzer has not taken up another entry.  A distance that the list
\* leaves out is not lost if it was known when the list was read, although what
\* stands in for it is what the array holds; one that a calibration finds later is.
WritesLand ==
  [][WriteServed =>
       /\ op = "WRITE_QUEUE" /\ areaLife = life => \A i \in 1 .. queue_len :
            /\ InArea(queue'[i]) = area[i]
            /\ omitted /\ ~edited /\ i <= MaxQueueLen /\ area[i].distance > 0 =>
                 queue'[i].distance = queue[i].distance
       /\ op = "WRITE_QUEUE_CUR" /\ ~moved /\ area[CurPlace].fname = copy_cur.fname =>
            InArea(queue'[cur]) = area[CurPlace]]_vars

\* A request ends the fuzzer only by reading a queue that has outgrown the array by
\* more than the one entry there is accidentally room for, or by writing a list that
\* is longer than the queue: never one read in the same session, but one of a session
\* before it, or made up.
SurvivesRequests ==
  ~alive => \/ op = "READ_QUEUE" /\ Len(queue) > CurPlace
            \/ op = "WRITE_QUEUE" /\ queue_len > Len(queue) /\ areaLife # life
=============================================================================
