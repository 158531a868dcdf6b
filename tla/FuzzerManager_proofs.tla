------------------------ MODULE FuzzerManager_proofs ------------------------
(***************************************************************************)
(* Theorems on FuzzerManager, for any threads, ids and number of objects.  *)
(***************************************************************************)
EXTENDS FuzzerManager, TLAPS

-----------------------------------------------------------------------------
(* The inductive invariant.                                                *)

\* A thread in add_fuzzer, or about to connect what it has registered.
Adding == {"check", "insert", "connect"}

\* Objects are numbered as they are created; one not created yet is not known.
Fresh ==
  /\ \A k \in Ids : fuzzers[k] <= created
  /\ \A t \in Threads : fuzzer[t] <= created
  /\ \A o \in Objects : o > created => case_info[o] = "null"

\* The object that a thread adds is not mapped yet, and no other thread adds it:
\* its case_info is written once, by that thread.
OwnObject == \A t \in Threads : pc[t] \in Adding =>
  /\ case_info[fuzzer[t]] = "null"
  /\ \A u \in Threads \ {t} : pc[u] \in Adding => fuzzer[u] # fuzzer[t]

ObjectInv == Fresh /\ OwnObject

\* A thread about to store an object under an id found it free; if it no longer
\* is, or another thread is about to do the same, the id is a raced one.
FreeUnlessRaced == \A t \in Threads : pc[t] = "insert" =>
  /\ fuzzers[id[t]] # None => id[t] \in raced
  /\ \A u \in Threads \ {t} : pc[u] = "insert" /\ id[u] = id[t] => id[t] \in raced

\* Without a race an object is registered when it is connected.
RegisteredFirst == raced = {} =>
  \A t \in Threads : pc[t] = "connect" => fuzzers[id[t]] = fuzzer[t]

-----------------------------------------------------------------------------
(* Types.                                                                  *)

LEMMA NoneIsNoObject == None \notin Objects
  BY DEF None, Objects

LEMMA TypeInit == Init => TypeOK
<1> SUFFICES ASSUME Init PROVE TypeOK
  OBVIOUS
<1>1. (CHOOSE k \in Ids : TRUE) \in Ids
  BY IdsAssumption
<1>2. id \in [Threads -> Ids]
  BY <1>1 DEF Init
<1>3. created \in 0 .. MaxObjects
  BY ObjectsAssumption DEF Init
<1>4. alive \in BOOLEAN
  BY DEF Init
<1> QED BY <1>2, <1>3, <1>4 DEF Init, TypeOK, Phases, WithObject

LEMMA TypeStep == TypeOK /\ [Next]_vars => TypeOK'
<1> SUFFICES ASSUME TypeOK, [Next]_vars PROVE TypeOK'
  OBVIOUS
<1> USE NoneIsNoObject DEF TypeOK, Phases, WithObject, GoTo
<1>1. ASSUME NEW t \in Threads, Add(t) PROVE TypeOK'
  <2>1. created + 1 \in Objects /\ created + 1 \in 0 .. MaxObjects
    BY <1>1, ObjectsAssumption DEF Add, Objects
  <2> QED BY <1>1, <2>1 DEF Add
<1>2. ASSUME NEW t \in Threads, Check(t) PROVE TypeOK'
  BY <1>2 DEF Check
<1>3. ASSUME NEW t \in Threads, Insert(t) PROVE TypeOK'
  BY <1>3 DEF Insert
<1>4. ASSUME NEW t \in Threads, Connect(t) PROVE TypeOK'
  BY <1>4 DEF Connect
<1>5. ASSUME NEW t \in Threads, Lookup(t) PROVE TypeOK'
  BY <1>5 DEF Lookup
<1>6. ASSUME NEW t \in Threads, Get(t) PROVE TypeOK'
  BY <1>6 DEF Get
<1>7. ASSUME NEW t \in Threads, Guard(t) PROVE TypeOK'
  BY <1>7 DEF Guard
<1>8. ASSUME NEW t \in Threads, Use(t) PROVE TypeOK'
  BY <1>8 DEF Use
<1>9. ASSUME NEW t \in Threads, Reply(t) PROVE TypeOK'
  BY <1>9 DEF Reply
<1>10. CASE UNCHANGED vars
  BY <1>10 DEF vars
<1> QED BY <1>1, <1>2, <1>3, <1>4, <1>5, <1>6, <1>7, <1>8, <1>9, <1>10 DEF Next

\* Every reachable state has the types of TypeOK; a thread whose next step works
\* on an object has one.
THEOREM TypeCorrect == Spec => []TypeOK
  BY TypeInit, TypeStep, PTL DEF Spec

-----------------------------------------------------------------------------
(* The mailbox of a request is one that was mapped.                        *)

LEMMA ObjectInit == Init => ObjectInv
<1> SUFFICES ASSUME Init PROVE ObjectInv
  OBVIOUS
<1>1. Fresh
  BY DEF Init, Fresh, None
<1>2. OwnObject
  BY DEF Init, OwnObject, Adding
<1> QED BY <1>1, <1>2 DEF ObjectInv

LEMMA ObjectStep == TypeOK /\ ObjectInv /\ [Next]_vars => ObjectInv'
<1> SUFFICES ASSUME TypeOK, ObjectInv, [Next]_vars PROVE ObjectInv'
  OBVIOUS
<1> USE DEF ObjectInv, GoTo
<1>0. created \in 0 .. MaxObjects /\ None \notin Objects
  BY NoneIsNoObject DEF TypeOK
<1>1. ASSUME NEW t \in Threads, Add(t) PROVE ObjectInv'
  <2>1. created + 1 \in Objects
    BY <1>1, ObjectsAssumption DEF Add, Objects, TypeOK
  <2>2. Fresh'
    BY <1>1, <2>1 DEF Add, Fresh, TypeOK, Objects, None
  <2>3. ASSUME NEW u \in Threads, u # t PROVE fuzzer[u] # created + 1
    BY <2>3 DEF Fresh, TypeOK, Objects, None
  <2>4. case_info[created + 1] = "null"
    BY <2>1 DEF Fresh, TypeOK, Objects
  <2>5. OwnObject'
    BY <1>1, <2>1, <2>3, <2>4 DEF Add, OwnObject, Adding, TypeOK
  <2> QED BY <2>2, <2>5
<1>2. ASSUME NEW t \in Threads, Check(t) PROVE ObjectInv'
  BY <1>2 DEF Check, Fresh, OwnObject, Adding, TypeOK
<1>3. ASSUME NEW t \in Threads, Insert(t) PROVE ObjectInv'
  <2>1. Fresh'
    BY <1>3 DEF Insert, Fresh, TypeOK
  <2>2. OwnObject'
    BY <1>3 DEF Insert, OwnObject, Adding, TypeOK
  <2> QED BY <2>1, <2>2
<1>4. ASSUME NEW t \in Threads, Connect(t) PROVE ObjectInv'
  <2>1. fuzzer[t] \in Objects /\ fuzzer[t] <= created
    BY <1>4 DEF Connect, Fresh, TypeOK, WithObject
  <2>2. \A o \in Objects : o # fuzzer[t] => case_info'[o] = case_info[o]
    BY <1>4 DEF Connect, TypeOK
  <2>3. Fresh'
    BY <1>4, <2>1, <2>2 DEF Connect, Fresh, TypeOK, Objects
  <2>4. ASSUME NEW u \in Threads, pc'[u] \in Adding
        PROVE  u # t /\ pc[u] \in Adding /\ fuzzer[u] # fuzzer[t]
    BY <1>4, <2>4 DEF Connect, OwnObject, Adding, TypeOK
  <2>5. \A u \in Threads : pc[u] \in Adding => fuzzer[u] \in Objects
    BY DEF Adding, TypeOK, WithObject
  <2>6. OwnObject'
    BY <1>4, <2>2, <2>4, <2>5 DEF Connect, OwnObject
  <2> QED BY <2>3, <2>6
<1>5. ASSUME NEW t \in Threads, Lookup(t) PROVE ObjectInv'
  BY <1>5 DEF Lookup, Fresh, OwnObject, Adding, TypeOK
<1>6. ASSUME NEW t \in Threads, Get(t) PROVE ObjectInv'
  BY <1>6 DEF Get, Fresh, OwnObject, Adding, TypeOK
<1>7. ASSUME NEW t \in Threads, Guard(t) PROVE ObjectInv'
  BY <1>7 DEF Guard, Fresh, OwnObject, Adding, TypeOK
<1>8. ASSUME NEW t \in Threads, Use(t) PROVE ObjectInv'
  BY <1>8 DEF Use, Fresh, OwnObject, Adding, TypeOK
<1>9. ASSUME NEW t \in Threads, Reply(t) PROVE ObjectInv'
  BY <1>9 DEF Reply, Fresh, OwnObject, Adding, TypeOK, None
<1>10. CASE UNCHANGED vars
  BY <1>10 DEF vars, Fresh, OwnObject
<1> QED BY <1>1, <1>2, <1>3, <1>4, <1>5, <1>6, <1>7, <1>8, <1>9, <1>10 DEF Next

LEMMA UseStep == TypeOK /\ ObjectInv /\ NullNeverUsed /\ [Next]_vars => NullNeverUsed'
<1> SUFFICES ASSUME TypeOK, ObjectInv, NullNeverUsed, [Next]_vars,
                    NEW u \in Threads, pc'[u] = "use"
             PROVE  case_info'[fuzzer'[u]] # "null"
  BY DEF NullNeverUsed
<1> USE DEF TypeOK, GoTo, NullNeverUsed
<1>1. ASSUME NEW t \in Threads, Connect(t) PROVE case_info'[fuzzer'[u]] # "null"
  <2>1. pc[u] = "use" /\ fuzzer'[u] = fuzzer[u]
    BY <1>1 DEF Connect
  <2>2. case_info[fuzzer[t]] = "null" /\ fuzzer[t] # fuzzer[u]
    BY <1>1, <2>1 DEF Connect, ObjectInv, OwnObject, Adding
  <2> QED BY <1>1, <2>1, <2>2 DEF Connect
<1>2. ASSUME NEW t \in Threads, Guard(t) PROVE case_info'[fuzzer'[u]] # "null"
  BY <1>2 DEF Guard
<1>3. ASSUME NEW t \in Threads,
             \/ Add(t) \/ Check(t) \/ Insert(t) \/ Lookup(t) \/ Get(t) \/ Use(t) \/ Reply(t)
      PROVE  case_info'[fuzzer'[u]] # "null"
  BY <1>3 DEF Add, Check, Insert, Lookup, Get, Use, Reply
<1>4. CASE UNCHANGED vars
  BY <1>4 DEF vars
<1> QED BY <1>1, <1>2, <1>3, <1>4 DEF Next

\* No method gets past its guard with an object that was never mapped: between the
\* guard and the use of a mapping nobody else connects that object.
THEOREM GuardHolds == Spec => []NullNeverUsed
<1>1. Init => NullNeverUsed
  BY DEF Init, NullNeverUsed
<1> QED BY <1>1, TypeInit, TypeStep, ObjectInit, ObjectStep, UseStep, PTL DEF Spec

-----------------------------------------------------------------------------
(* The registry keeps what it registered.                                  *)

LEMMA FreeStep == TypeOK /\ FreeUnlessRaced /\ [Next]_vars => FreeUnlessRaced'
<1> SUFFICES ASSUME TypeOK, FreeUnlessRaced, [Next]_vars PROVE FreeUnlessRaced'
  OBVIOUS
<1> USE DEF TypeOK, GoTo, FreeUnlessRaced
<1>1. ASSUME NEW t \in Threads, Check(t) PROVE FreeUnlessRaced'
  <2>1. CASE fuzzers[id[t]] = None /\ BeingAdded(id[t])
    BY <1>1, <2>1 DEF Check
  <2>2. CASE fuzzers[id[t]] = None /\ ~BeingAdded(id[t])
    BY <1>1, <2>2 DEF Check, BeingAdded
  <2>3. CASE fuzzers[id[t]] # None
    BY <1>1, <2>3 DEF Check
  <2> QED BY <2>1, <2>2, <2>3
<1>2. ASSUME NEW t \in Threads, Insert(t) PROVE FreeUnlessRaced'
  <2>1. raced' = raced /\ id' = id
    BY <1>2 DEF Insert
  <2>2. ASSUME NEW u \in Threads, pc'[u] = "insert"
        PROVE  u # t /\ pc[u] = "insert"
    BY <1>2, <2>2 DEF Insert
  <2>3. \A k \in Ids : k # id[t] => fuzzers'[k] = fuzzers[k]
    BY <1>2 DEF Insert
  <2>4. ASSUME NEW u \in Threads, pc'[u] = "insert", fuzzers'[id[u]] # None
        PROVE  id[u] \in raced
    BY <1>2, <2>2, <2>3, <2>4 DEF Insert
  <2> QED BY <2>1, <2>2, <2>4
<1>3. ASSUME NEW t \in Threads, Add(t) \/ Lookup(t) PROVE FreeUnlessRaced'
  BY <1>3 DEF Add, Lookup
<1>4. ASSUME NEW t \in Threads, Connect(t) \/ Get(t) \/ Guard(t) \/ Use(t) \/ Reply(t)
      PROVE  FreeUnlessRaced'
  BY <1>4 DEF Connect, Get, Guard, Use, Reply
<1>5. CASE UNCHANGED vars
  BY <1>5 DEF vars
<1> QED BY <1>1, <1>2, <1>3, <1>4, <1>5 DEF Next

LEMMA FreeInvariant == Spec => [](TypeOK /\ FreeUnlessRaced)
<1>1. Init => FreeUnlessRaced
  BY DEF Init, FreeUnlessRaced
<1> QED BY <1>1, TypeInit, TypeStep, FreeStep, PTL DEF Spec

\* No step takes the Fuzzer from an id, or gives it another one, unless two /add
\* of the id had found it free at the same time.
THEOREM RegisteredOnce == Spec => RegisteredForGood
<1>1. TypeOK /\ FreeUnlessRaced /\ [Next]_vars
      => [\A k \in Ids \ raced : fuzzers[k] # None => fuzzers'[k] = fuzzers[k]]_fuzzers
  <2> SUFFICES ASSUME TypeOK, FreeUnlessRaced, [Next]_vars,
                      NEW k \in Ids \ raced, fuzzers[k] # None, fuzzers' # fuzzers
               PROVE  fuzzers'[k] = fuzzers[k]
    OBVIOUS
  <2>1. PICK t \in Threads : Insert(t)
    BY DEF Next, vars, Add, Check, Connect, Lookup, Get, Guard, Use, Reply
  <2>2. id[t] # k
    BY <2>1 DEF Insert, FreeUnlessRaced
  <2> QED BY <2>1, <2>2 DEF Insert, TypeOK
<1> QED BY <1>1, FreeInvariant, PTL DEF Spec, RegisteredForGood

LEMMA ReachableStep ==
  TypeOK /\ FreeUnlessRaced /\ RegisteredFirst /\ ConnectedReachable /\ [Next]_vars
  => RegisteredFirst' /\ ConnectedReachable'
<1> SUFFICES ASSUME TypeOK, FreeUnlessRaced, RegisteredFirst, ConnectedReachable,
                    [Next]_vars, raced' = {}
             PROVE  RegisteredFirst' /\ ConnectedReachable'
  BY DEF RegisteredFirst, ConnectedReachable
<1>0. raced = {}
  BY DEF Next, vars, Add, Check, Insert, Connect, Lookup, Get, Guard, Use, Reply
<1> USE <1>0, NoneIsNoObject DEF TypeOK, GoTo, RegisteredFirst, ConnectedReachable, WithObject
<1>1. ASSUME NEW t \in Threads, Insert(t) PROVE RegisteredFirst' /\ ConnectedReachable'
  <2>1. fuzzers[id[t]] = None /\ fuzzer[t] \in Objects
    BY <1>1 DEF Insert, FreeUnlessRaced
  <2>2. \A k \in Ids : fuzzers[k] # None => fuzzers'[k] = fuzzers[k]
    BY <1>1, <2>1 DEF Insert
  <2>3. fuzzers'[id[t]] = fuzzer[t]
    BY <1>1 DEF Insert
  <2>4. RegisteredFirst'
    <3> SUFFICES ASSUME NEW u \in Threads, pc'[u] = "connect"
                 PROVE  fuzzers'[id'[u]] = fuzzer'[u]
      OBVIOUS
    <3>1. CASE u = t
      BY <1>1, <2>3, <3>1 DEF Insert
    <3>2. CASE u # t
      <4>1. pc[u] = "connect" /\ fuzzers[id[u]] = fuzzer[u] /\ fuzzer[u] # None
        BY <1>1, <3>2 DEF Insert
      <4> QED BY <1>1, <2>2, <4>1 DEF Insert
    <3> QED BY <3>1, <3>2
  <2>5. ConnectedReachable'
    BY <1>1, <2>2 DEF Insert
  <2> QED BY <2>4, <2>5
<1>2. ASSUME NEW t \in Threads, Connect(t) PROVE RegisteredFirst' /\ ConnectedReachable'
  <2>1. RegisteredFirst'
    BY <1>2 DEF Connect
  <2>2. ConnectedReachable'
    BY <1>2 DEF Connect
  <2> QED BY <2>1, <2>2
<1>3. ASSUME NEW t \in Threads, Add(t) \/ Check(t) \/ Lookup(t) \/ Get(t)
      PROVE  RegisteredFirst' /\ ConnectedReachable'
  BY <1>3 DEF Add, Check, Lookup, Get
<1>4. ASSUME NEW t \in Threads, Guard(t) \/ Use(t) \/ Reply(t)
      PROVE  RegisteredFirst' /\ ConnectedReachable'
  BY <1>4 DEF Guard, Use, Reply
<1>5. CASE UNCHANGED vars
  BY <1>5 DEF vars
<1> QED BY <1>1, <1>2, <1>3, <1>4, <1>5 DEF Next

\* As long as no two /add of one id have raced, every mapping of the monitor is that
\* of a registered fuzzer: an /add that fails half-way takes no connected one's place.
THEOREM MappedReachable == Spec => []ConnectedReachable
<1>1. Init => RegisteredFirst /\ ConnectedReachable
  BY DEF Init, RegisteredFirst, ConnectedReachable
<1> QED BY <1>1, FreeInvariant, ReachableStep, PTL DEF Spec
=============================================================================
