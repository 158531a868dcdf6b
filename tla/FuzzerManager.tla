--------------------------- MODULE FuzzerManager ---------------------------
(***************************************************************************)
(* The registry of the monitor: class FuzzerManager, an unordered_map from *)
(* fuzzer ids to Fuzzer objects, and the connection of each object to the  *)
(* .case_info_file of its fuzzer.  The HTTP server runs one thread per     *)
(* connection and the map has no lock: every lookup and insertion is a     *)
(* step (the container itself is taken to survive them).                   *)
(***************************************************************************)
EXTENDS Naturals

CONSTANTS
  Threads,      \* threads of the monitor that serve requests
  Ids,          \* fuzzer ids the requests name
  MaxObjects    \* bound: Fuzzer objects ever created

ASSUME IdsAssumption == Ids # {}
ASSUME ObjectsAssumption == MaxObjects \in Nat

Objects == 1 .. MaxObjects
None == 0

VARIABLES
  fuzzers,    \* id -> Fuzzer object, or None
  created,    \* how many objects were created
  case_info,  \* each object's mapping: "null", "mapped" or "MAP_FAILED"
  pc,         \* what each thread is doing
  id,         \* the fuzzer_id of its request
  fuzzer,     \* the object it works on
  alive,      \* the monitor has not crashed
  raced       \* history: ids two /add requests found free at the same time

vars == <<fuzzers, created, case_info, pc, id, fuzzer, alive, raced>>

Phases == {"idle", "check", "insert", "connect", "get", "guard", "use",
           "reply200", "reply500"}

WithObject == {"check", "insert", "connect", "guard", "use", "reply200"}

TypeOK ==
  /\ fuzzers \in [Ids -> Objects \cup {None}]
  /\ created \in 0 .. MaxObjects
  /\ case_info \in [Objects -> {"null", "mapped", "MAP_FAILED"}]
  /\ pc \in [Threads -> Phases]
  /\ id \in [Threads -> Ids]
  /\ fuzzer \in [Threads -> Objects \cup {None}]
  /\ alive \in BOOLEAN
  /\ raced \in SUBSET Ids
  /\ \A t \in Threads : pc[t] \in WithObject => fuzzer[t] # None

Init ==
  /\ fuzzers = [k \in Ids |-> None]
  /\ created = 0
  /\ case_info = [o \in Objects |-> "null"]
  /\ pc = [t \in Threads |-> "idle"]
  /\ id \in [Threads -> {CHOOSE k \in Ids : TRUE}]
  /\ fuzzer = [t \in Threads |-> None]
  /\ alive = TRUE
  /\ raced = {}

GoTo(t, phase) == pc' = [pc EXCEPT ![t] = phase]

-----------------------------------------------------------------------------
(* POST /add                                                               *)

\* add_fuzzer(id, path) builds the object,
Add(t) == \E k \in Ids :
  /\ alive
  /\ pc[t] = "idle"
  /\ created < MaxObjects
  /\ created' = created + 1
  /\ id' = [id EXCEPT ![t] = k]
  /\ fuzzer' = [fuzzer EXCEPT ![t] = created + 1]
  /\ GoTo(t, "check")
  /\ UNCHANGED <<fuzzers, case_info, alive, raced>>

\* A thread has found k free, and not stored its object yet.
BeingAdded(k) == \E u \in Threads : pc[u] = "insert" /\ id[u] = k

\* looks for the id (an id already there: "already existed!"),
Check_Missing(t) ==
  /\ alive
  /\ pc[t] = "check"
  /\ GoTo(t, "insert")
  /\ UNCHANGED <<fuzzers, created, case_info, id, fuzzer, alive, raced>>
Check(t) ==
  /\ alive
  /\ pc[t] = "check"
  /\ GoTo(t, IF fuzzers[id[t]] = None THEN "insert" ELSE "reply500")
  /\ raced' = IF fuzzers[id[t]] = None /\ BeingAdded(id[t])
              THEN raced \cup {id[t]} ELSE raced
  /\ UNCHANGED <<fuzzers, created, case_info, id, fuzzer, alive>>

\* and stores the object, by assignment.
Insert(t) ==
  /\ alive
  /\ pc[t] = "insert"
  /\ fuzzers' = [fuzzers EXCEPT ![id[t]] = fuzzer[t]]
  /\ GoTo(t, "connect")
  /\ UNCHANGED <<created, case_info, id, fuzzer, alive, raced>>

\* Only then the handler connects it: open() may fail, and mmap() may, which
\* leaves MAP_FAILED in case_info.  The object stays registered.
Connect(t) == \E outcome \in {"null", "mapped", "MAP_FAILED"} :
  /\ alive
  /\ pc[t] = "connect"
  /\ case_info' = [case_info EXCEPT ![fuzzer[t]] = outcome]
  /\ GoTo(t, IF outcome = "mapped" THEN "reply200" ELSE "reply500")
  /\ UNCHANGED <<fuzzers, created, id, fuzzer, alive, raced>>

-----------------------------------------------------------------------------
(* Every other route: get_fuzzer, the method's guard, and its body.        *)

Lookup(t) == \E k \in Ids :
  /\ alive
  /\ pc[t] = "idle"
  /\ id' = [id EXCEPT ![t] = k]
  /\ GoTo(t, "get")
  /\ UNCHANGED <<fuzzers, created, case_info, fuzzer, alive, raced>>

Get_Unchecked(t) ==
  /\ alive
  /\ pc[t] = "get"
  /\ fuzzer' = [fuzzer EXCEPT ![t] = fuzzers[id[t]]]
  /\ GoTo(t, "guard")
  /\ UNCHANGED <<fuzzers, created, case_info, id, alive, raced>>
Get(t) ==
  /\ alive
  /\ pc[t] = "get"
  /\ fuzzer' = [fuzzer EXCEPT ![t] = fuzzers[id[t]]]
  /\ GoTo(t, IF fuzzers[id[t]] = None THEN "reply500" ELSE "guard")
  /\ UNCHANGED <<fuzzers, created, case_info, id, alive, raced>>

Guard_None(t) ==
  /\ alive
  /\ pc[t] = "guard"
  /\ GoTo(t, "use")
  /\ UNCHANGED <<fuzzers, created, case_info, id, fuzzer, alive, raced>>
Guard(t) ==
  /\ alive
  /\ pc[t] = "guard"
  /\ GoTo(t, IF case_info[fuzzer[t]] = "null" THEN "reply500" ELSE "use")
  /\ UNCHANGED <<fuzzers, created, case_info, id, fuzzer, alive, raced>>

\* The mailbox protocol of module CaseInfo, or a crash on MAP_FAILED.
Use(t) == \E answer \in {"reply200", "reply500"} :
  /\ alive
  /\ pc[t] = "use"
  /\ IF case_info[fuzzer[t]] = "mapped"
     THEN GoTo(t, answer) /\ alive' = TRUE
     ELSE pc' = pc /\ alive' = FALSE
  /\ UNCHANGED <<fuzzers, created, case_info, id, fuzzer, raced>>

Reply(t) ==
  /\ alive
  /\ pc[t] \in {"reply200", "reply500"}
  /\ GoTo(t, "idle")
  /\ fuzzer' = [fuzzer EXCEPT ![t] = None]
  /\ UNCHANGED <<fuzzers, created, case_info, id, alive, raced>>

Next == \E t \in Threads :
  \/ Add(t) \/ Check(t) \/ Insert(t) \/ Connect(t)
  \/ Lookup(t) \/ Get(t) \/ Guard(t) \/ Use(t) \/ Reply(t)

Spec == Init /\ [][Next]_vars

-----------------------------------------------------------------------------
(* Properties.                                                             *)

\* No method of an object that was never mapped gets past its "case_info is
\* NULL" guard, although an object is registered before it is connected.
NullNeverUsed == \A t \in Threads :
  pc[t] = "use" => case_info[fuzzer[t]] # "null"

\* An id that is registered keeps its Fuzzer: a second /add of the same id is
\* refused ("already existed!"), unless both had found the id free before either
\* was registered.
RegisteredForGood ==
  [][\A k \in Ids \ raced : fuzzers[k] # None => fuzzers'[k] = fuzzers[k]]_fuzzers

\* Every mapping the monitor holds can be reached through an id, but for those of
\* racing /add requests: no /add that fails half-way, and no other thread, takes
\* the place of a connected fuzzer.
ConnectedReachable == raced = {} =>
  \A o \in Objects : case_info[o] = "mapped" => \E k \in Ids : fuzzers[k] = o
=============================================================================
