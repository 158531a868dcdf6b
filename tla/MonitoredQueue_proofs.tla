------------------------ MODULE MonitoredQueue_proofs ------------------------
(***************************************************************************)
(* Theorems on Triage and MonitoredQueue, for any bitmap, any distances,   *)
(* limits, requests and restarts.                                          *)
(***************************************************************************)
EXTENDS MonitoredQueue, FiniteSetTheorems, TLAPS

-----------------------------------------------------------------------------
(* Operators.                                                              *)

LEMMA BitsTyped == \A t \in Traces : Bits(t) \subseteq AllBits
  BY ClassesAssumption DEF Traces, Bits, AllBits

LEMMA SimplifiedTyped == \A t \in Traces : Simplified(t) \subseteq AllSimple
<1> SUFFICES ASSUME NEW t \in Traces, NEW e \in Edges
             PROVE  <<e, t[e] > 0>> \in Edges \X BOOLEAN
  BY Zenon DEF Simplified, AllSimple
<1>1. (t[e] > 0) \in BOOLEAN
  BY ClassesAssumption DEF Traces
<1> QED BY <1>1, Zenon

\* The greater and the lesser of two numbers.
LEMMA MaxOfTwo ==
  ASSUME NEW a \in Nat, NEW b \in Nat
  PROVE  Max({a, b}) \in {a, b} /\ Max({a, b}) >= a /\ Max({a, b}) >= b
<1>1. \E x \in {a, b} : \A y \in {a, b} : x >= y
  <2>1. CASE a >= b
    BY <2>1
  <2>2. CASE ~(a >= b)
    BY <2>2
  <2> QED BY <2>1, <2>2
<1> QED BY <1>1 DEF Max

LEMMA MinOfTwo ==
  ASSUME NEW a \in Nat, NEW b \in Nat
  PROVE  Min({a, b}) \in {a, b} /\ Min({a, b}) <= a /\ Min({a, b}) <= b
<1>1. \E x \in {a, b} : \A y \in {a, b} : x <= y
  <2>1. CASE a <= b
    BY <2>1
  <2>2. CASE ~(a <= b)
    BY <2>2
  <2> QED BY <2>1, <2>2
<1> QED BY <1>1 DEF Min

\* The limits of the distances stay distances.
LEMMA WidenTyped ==
  ASSUME max_distance \in Distances, min_distance \in Distances,
         NEW d \in Distances, AddWidens(d)
  PROVE  max_distance' \in Distances /\ min_distance' \in Distances
<1>1. max_distance \in Nat /\ min_distance \in Nat /\ d \in Nat
  BY DistancesAssumption
<1> QED BY <1>1, MaxOfTwo, MinOfTwo DEF AddWidens, distances

\* The two copies of the widening code do the same for an entry without distance, and
\* for one with a distance the second does nothing.
LEMMA CopiesAgree ==
  ASSUME NEW q, NEW d, CalibrationWidens(q, d)
  PROVE  IF q.distance > 0 THEN UNCHANGED distances ELSE AddWidens(d)
  BY DEF CalibrationWidens, AddWidens

\* How a calibration ends: with a handicap and a count of failures.
EndingTypes == Nat \X (0 .. CalChances)

LEMMA EndingsTyped ==
  ASSUME NEW q \in Entry, q.cal_failed < CalChances
  PROVE  Endings(q, Handicaps) \subseteq EndingTypes
<1>1. q.handicap \in Nat /\ q.cal_failed + 1 \in 0 .. CalChances
  BY ChancesAssumption DEF Entry
<1>2. <<q.handicap, q.cal_failed + 1>> \in EndingTypes
  BY <1>1 DEF EndingTypes
<1>3. ASSUME NEW h \in Handicaps PROVE <<h, 0>> \in EndingTypes
  BY HandicapsAssumption, ChancesAssumption DEF EndingTypes
<1>4. ASSUME NEW x \in Handicaps \X {0} PROVE x \in EndingTypes
  <2>1. x = <<x[1], 0>> /\ x[1] \in Handicaps
    OBVIOUS
  <2> QED BY <1>3, <2>1
<1> QED BY <1>2, <1>4, Zenon DEF Endings

\* What calibrate_case does to an entry and to the map.
LEMMA CalibratedTyped ==
  ASSUME NEW q \in Entry, NEW map, NEW t \in Traces, NEW d \in Distances,
         NEW ending \in EndingTypes
  PROVE  LET c == Calibrated(q, map, t, d, ending) IN
           /\ c.entry \in Entry
           /\ c.entry.fname = q.fname
           /\ q.bits \cup Bits(t) \in SUBSET c.entry.bits
           /\ c.entry.distance = IF q.distance = 0 THEN d ELSE q.distance
<1> DEFINE c == Calibrated(q, map, t, d, ending)
<1>1. /\ q.bits \cup Bits(t) \in SUBSET AllBits
      /\ (IF q.distance = 0 THEN d ELSE q.distance) \in Distances
  BY BitsTyped DEF Entry
<1>2. \A news \in BOOLEAN :
        [q EXCEPT !.bits = @ \cup Bits(t), !.distance = IF @ = 0 THEN d ELSE @,
                  !.has_new_cov = @ \/ news, !.handicap = ending[1],
                  !.cal_failed = ending[2]] \in Entry
  BY <1>1 DEF Entry, EndingTypes
<1>3. c.entry \in Entry
  BY <1>2 DEF Calibrated
<1>4. /\ c.entry.fname = q.fname
      /\ c.entry.bits = q.bits \cup Bits(t)
      /\ c.entry.distance = IF q.distance = 0 THEN d ELSE q.distance
  BY DEF Calibrated, Entry
<1> QED BY <1>3, <1>4

LEMMA NewEntryTyped ==
  ASSUME NEW n \in 1 .. MaxSeeds, NEW bits \in SUBSET AllBits, NEW d \in Distances
  PROVE  /\ NewEntry(n, bits, d) \in Entry /\ NewEntry(n, bits, d).bits = bits
         /\ NewEntry(n, bits, d).distance = d /\ NewEntry(n, bits, d).cal_failed = 0
  BY ChancesAssumption DEF NewEntry, Entry, Marks

LEMMA ScoredTyped ==
  \A q \in Entry : /\ Scored(q) \in Entry /\ Scored(q).bits = q.bits
                   /\ InArea(Scored(q)) = InArea(q)
                   /\ Scored(q).distance = q.distance /\ Scored(q).fname = q.fname
  BY DEF Scored, Entry, InArea

LEMMA InAreaTyped == \A q \in Entry : InArea(q) \in AreaEntry
  BY DEF InArea, AreaEntry, Entry

LEMMA LoadedTyped ==
  \A q \in Entry, e \in AreaEntry : /\ Loaded(q, e) \in Entry
                                    /\ Loaded(q, e).bits = q.bits
                                    /\ Loaded(q, e).fname = q.fname
                                    /\ Loaded(q, e).distance = e.distance
                                    /\ Loaded(q, e).marks = e.marks
  BY DEF Loaded, AreaEntry, Entry

\* A function on 1 .. n is a sequence of that length.
LEMMA Listed ==
  ASSUME NEW S, NEW n \in Nat, NEW f \in [1 .. n -> S]
  PROVE  f \in Seq(S) /\ Len(f) = n /\ DOMAIN f = 1 .. n
  OBVIOUS

LEMMA FreshTyped ==
  ASSUME NEW n \in 1 .. MaxSeeds, NEW names \in [1 .. n -> 1 .. MaxSeeds]
  PROVE  LET q == FreshQueue(names) IN
           /\ q \in Seq(Entry) /\ Len(q) = n /\ DOMAIN q = 1 .. n
           /\ \A i \in 1 .. n : q[i].bits = {}
<1> DEFINE q == FreshQueue(names)
<1>1. \A k \in 1 .. MaxSeeds : NewEntry(k, {}, 0) \in Entry /\ NewEntry(k, {}, 0).bits = {}
  BY NewEntryTyped, DistancesAssumption
<1>2. q = [i \in 1 .. n |-> NewEntry(names[i], {}, 0)]
  BY DEF FreshQueue
<1>3. q \in [1 .. n -> Entry] /\ \A i \in 1 .. n : q[i].bits = {}
  BY <1>1, <1>2
<1>4. n \in Nat
  BY SeedsAssumption
<1> QED BY <1>3, <1>4, Listed

\* One entry replaced, or every one.
LEMMA ReplacedTyped ==
  ASSUME NEW q \in Seq(Entry), NEW k \in DOMAIN q, NEW e \in Entry
  PROVE  LET r == [q EXCEPT ![k] = e] IN
           r \in Seq(Entry) /\ Len(r) = Len(q) /\ DOMAIN r = DOMAIN q
  OBVIOUS

LEMMA MappedTyped ==
  ASSUME NEW q \in Seq(Entry), NEW r \in [DOMAIN q -> Entry]
  PROVE  r \in Seq(Entry) /\ Len(r) = Len(q) /\ DOMAIN r = DOMAIN q
<1>1. DOMAIN q = 1 .. Len(q) /\ Len(q) \in Nat
  OBVIOUS
<1> QED BY <1>1, Listed

LEMMA CurPlaceTyped == CurPlace \in Nat /\ CurPlace >= 2 /\ CurPlace \in 1 .. CurPlace
  BY LimitAssumption DEF CurPlace

LEMMA NoEntryTyped == NoEntry \in AreaEntry
  BY SeedsAssumption, DistancesAssumption DEF NoEntry, AreaEntry, Marks

-----------------------------------------------------------------------------
(* Type correctness.  A queue has room for one entry more while born has not *)
(* reached its bound, and what is added to crashes and hangs is counted.     *)

SizeInv == InitSeeds <= Len(queue) /\ Len(queue) <= born
FilesInv == IsFiniteSet(crashes) /\ IsFiniteSet(hangs)
TypeInv == TypeOK /\ SizeInv /\ FilesInv

LEMMA TypeInit == Init => TypeInv
<1> SUFFICES ASSUME Init PROVE TypeInv
  OBVIOUS
<1> USE DEF Init, TriageInit
<1>1. /\ InitSeeds \in 1 .. MaxSeeds
      /\ [i \in 1 .. InitSeeds |-> i] \in [1 .. InitSeeds -> 1 .. MaxSeeds]
  BY SeedsAssumption
<1>2. queue \in Seq(Entry) /\ Len(queue) = InitSeeds /\ DOMAIN queue = 1 .. InitSeeds
  BY <1>1, FreshTyped
<1>3. IsFiniteSet({}) /\ Cardinality({}) = 0
  BY FS_EmptySet
<1>4. TriageTypeOK
  BY <1>1, <1>2, <1>3, DistancesAssumption, KeepAssumption, SeedsAssumption DEF TriageTypeOK
<1>5. area \in [1 .. CurPlace -> AreaEntry]
  BY NoEntryTyped DEF Cleared
<1>6. copy \in Seq(AreaEntry) /\ Len(copy) <= CurPlace
  BY CurPlaceTyped
<1>7. TypeOK
  <2>1. \A flag \in {alive, omitted, moved, edited} : flag \in BOOLEAN
    BY Zenon
  <2>2. op \in Reads \cup Writes \cup {"none"}
    BY Zenon
  <2>3. /\ life \in 1 .. MaxLives /\ areaLife \in 0 .. life /\ copyLife \in 0 .. life
        /\ requests \in 0 .. MaxRequests /\ queue_len \in 0 .. CurPlace
        /\ cur \in 0 .. Len(queue)
    BY <1>1, <1>2, CurPlaceTyped, RequestsAssumption
  <2>4. copy_cur \in AreaEntry /\ polling = FALSE
    BY NoEntryTyped, Zenon
  <2> QED BY <1>4, <1>5, <1>6, <2>1, <2>2, <2>3, <2>4, Zenon DEF TypeOK
<1> QED BY <1>1, <1>2, <1>3, <1>7 DEF TypeInv, SizeInv, FilesInv

LEMMA KeepAsCrashTyped ==
  ASSUME TypeInv, NEW t \in Traces, KeepAsCrash(t)
  PROVE  /\ virgin_crash' \subseteq AllSimple /\ crashBits' \subseteq AllSimple
         /\ crashes' \subseteq SUBSET AllSimple /\ Cardinality(crashes') <= KeepCrashes
         /\ IsFiniteSet(crashes')
<1>1. Simplified(t) \subseteq AllSimple
  BY SimplifiedTyped
<1>2. virgin_crash' \subseteq AllSimple /\ crashBits' \subseteq AllSimple
  BY <1>1 DEF KeepAsCrash, TypeInv, TypeOK, TriageTypeOK
<1>3. CASE Cardinality(crashes) < KeepCrashes /\ crashes' = crashes \cup {Simplified(t)}
  <2>1. IsFiniteSet(crashes) /\ Cardinality(crashes) \in Nat
    BY FS_CardinalityType DEF TypeInv, FilesInv
  <2>2. /\ IsFiniteSet(crashes')
        /\ Cardinality(crashes') = Cardinality(crashes)
           \/ Cardinality(crashes') = Cardinality(crashes) + 1
    BY <1>3, <2>1, FS_AddElement
  <2>3. Cardinality(crashes') <= KeepCrashes
    BY <1>3, <2>1, <2>2, KeepAssumption
  <2>4. crashes' \subseteq SUBSET AllSimple
    BY <1>1, <1>3 DEF TypeInv, TypeOK, TriageTypeOK
  <2> QED BY <1>2, <2>2, <2>3, <2>4
<1>4. CASE UNCHANGED crashes
  BY <1>2, <1>4 DEF TypeInv, TypeOK, TriageTypeOK, FilesInv
<1> QED BY <1>3, <1>4 DEF KeepAsCrash

\* What a step on the fuzzer's side must keep.
TriageInv == TriageTypeOK /\ SizeInv /\ FilesInv

LEMMA Elements ==
  ASSUME TypeInv, NEW k \in DOMAIN queue
  PROVE  /\ queue[k] \in Entry /\ queue[k].distance \in Distances
         /\ queue[k].distance \in Nat
<1>1. queue \in Seq(Entry)
  BY DEF TypeInv, TypeOK, TriageTypeOK
<1>2. queue[k] \in Entry
  BY <1>1
<1>3. \A e \in Entry : e.distance \in Distances /\ e.distance \in Nat
  BY DistancesAssumption DEF Entry
<1> QED BY <1>2, <1>3

\* What every calibration of an entry of the queue comes down to, and all that the main
\* loop does to an entry: it becomes e, whose traces have the bits that the map loses,
\* and if it had no distance it may get one, by which the limits are widened.
Rerun(k, e, bits) ==
  /\ queue' = [queue EXCEPT ![k] = e]
  /\ e.fname = queue[k].fname
  /\ queue[k].bits \cup bits \in SUBSET e.bits
  /\ virgin_bits' = virgin_bits \ bits /\ ranBits' = ranBits \cup bits
  /\ IF queue[k].distance > 0 THEN e.distance = queue[k].distance /\ UNCHANGED distances
     ELSE AddWidens(e.distance)
  /\ UNCHANGED <<virgin_tmout, virgin_crash, files, born, crashBits, hangBits, unconfirmed>>

LEMMA CalibrationReruns ==
  ASSUME TypeInv, NEW k \in DOMAIN queue, NEW t \in Traces, NEW d \in Distances,
         NEW ending \in EndingTypes, NEW score \in BOOLEAN,
         LET c == Calibrated(queue[k], virgin_bits, t, d, ending) IN
           /\ queue' = [queue EXCEPT ![k] = IF score THEN Scored(c.entry) ELSE c.entry]
           /\ virgin_bits' = c.map,
         CalibrationWidens(queue[k], d),
         ranBits' = ranBits \cup Bits(t),
         UNCHANGED <<virgin_tmout, virgin_crash, files, born, crashBits, hangBits, unconfirmed>>
  PROVE  \E e \in Entry, bits \in SUBSET AllBits : Rerun(k, e, bits)
<1> DEFINE c == Calibrated(queue[k], virgin_bits, t, d, ending)
           e == IF score THEN Scored(c.entry) ELSE c.entry
<1>1. queue[k] \in Entry /\ queue[k].distance \in Nat
  BY Elements
<1>2. /\ c.entry \in Entry
      /\ c.entry.fname = queue[k].fname
      /\ queue[k].bits \cup Bits(t) \in SUBSET c.entry.bits
      /\ c.entry.distance = IF queue[k].distance = 0 THEN d ELSE queue[k].distance
  BY <1>1, CalibratedTyped
<1>10. c.map = virgin_bits \ Bits(t)
  BY Zenon DEF Calibrated
<1>3. queue' = [queue EXCEPT ![k] = e] /\ virgin_bits' = c.map
  BY Zenon
<1> HIDE DEF c
<1>4. /\ e \in Entry /\ e.fname = c.entry.fname /\ e.bits = c.entry.bits
      /\ e.distance = c.entry.distance
  BY <1>2, ScoredTyped
<1> HIDE DEF e
<1>5. IF queue[k].distance > 0 THEN UNCHANGED distances ELSE AddWidens(d)
  BY CopiesAgree
<1>6. IF queue[k].distance > 0 THEN e.distance = queue[k].distance /\ UNCHANGED distances
      ELSE AddWidens(e.distance)
  BY <1>1, <1>2, <1>4, <1>5
<1>7. Bits(t) \in SUBSET AllBits
  BY BitsTyped
<1>8. queue[k].bits \cup Bits(t) \in SUBSET e.bits
  BY <1>2, <1>4
<1>9. Rerun(k, e, Bits(t))
  BY <1>2, <1>3, <1>4, <1>6, <1>8, <1>10 DEF Rerun
<1> QED BY <1>4, <1>7, <1>9

\* An entry that keeps its name, its traces and its distance.
LEMMA StaysReruns ==
  ASSUME TypeInv, NEW k \in DOMAIN queue, NEW e \in Entry,
         e.fname = queue[k].fname, e.bits = queue[k].bits,
         e.distance = queue[k].distance,
         queue' = [queue EXCEPT ![k] = e],
         UNCHANGED <<virgin, distances, files, born, history>>
  PROVE  \E f \in Entry, bits \in SUBSET AllBits : Rerun(k, f, bits)
<1>1. queue[k] \in Entry /\ queue[k].distance \in Nat
  BY Elements
<1>2. IF queue[k].distance > 0 THEN e.distance = queue[k].distance /\ UNCHANGED distances
      ELSE AddWidens(e.distance)
  BY <1>1 DEF AddWidens
<1>3. Rerun(k, e, {})
  BY <1>2 DEF Rerun, virgin, history
<1> QED BY <1>3

LEMMA DryRunReruns ==
  ASSUME TypeInv, DryRun
  PROVE  /\ dry + 1 \in DOMAIN queue /\ dry' \in 0 .. Len(queue)
         /\ \E e \in Entry, bits \in SUBSET AllBits : Rerun(dry + 1, e, bits)
<1>1. /\ dry + 1 \in DOMAIN queue /\ queue[dry + 1] \in Entry /\ dry' \in 0 .. Len(queue)
  BY DEF DryRun, Fuzzing, TypeInv, TypeOK, TriageTypeOK
<1>2. UNCHANGED <<virgin_tmout, virgin_crash, files, born, crashBits, hangBits, unconfirmed>>
  BY Zenon DEF DryRun
<1>3. ASSUME NEW t \in Traces, NEW d \in Distances,
             NEW ending \in {<<0, 0>>, <<0, CalChances>>},
             LET c == Calibrated(queue[dry + 1], virgin_bits, t, d, ending) IN
               /\ queue' = [queue EXCEPT ![dry + 1] = c.entry]
               /\ virgin_bits' = c.map
               /\ CalibrationWidens(queue[dry + 1], d)
               /\ ranBits' = ranBits \cup Bits(t)
      PROVE  \E e \in Entry, bits \in SUBSET AllBits : Rerun(dry + 1, e, bits)
  <2>1. ending \in EndingTypes
    BY ChancesAssumption DEF EndingTypes
  <2>2. LET c == Calibrated(queue[dry + 1], virgin_bits, t, d, ending) IN
          /\ queue' = [queue EXCEPT ![dry + 1] = IF FALSE THEN Scored(c.entry) ELSE c.entry]
          /\ virgin_bits' = c.map
    BY <1>3, Zenon
  <2>3. CalibrationWidens(queue[dry + 1], d) /\ ranBits' = ranBits \cup Bits(t)
    BY <1>3, Zenon
  <2> QED BY <1>1, <1>2, <2>1, <2>2, <2>3, CalibrationReruns, Zenon
<1>4. CASE /\ queue' = [queue EXCEPT ![dry + 1].cal_failed = CalChances]
           /\ UNCHANGED <<virgin_bits, distances, ranBits>>
  <2> DEFINE e == [queue[dry + 1] EXCEPT !.cal_failed = CalChances]
  <2>1. /\ e \in Entry /\ e.fname = queue[dry + 1].fname
        /\ e.bits = queue[dry + 1].bits /\ e.distance = queue[dry + 1].distance
    BY <1>1, ChancesAssumption DEF Entry
  <2>2. queue' = [queue EXCEPT ![dry + 1] = e]
    BY <1>4
  <2>3. UNCHANGED <<virgin, distances, files, born, history>>
    BY <1>2, <1>4 DEF virgin, files, history
  <2> HIDE DEF e
  <2> QED BY <1>1, <2>1, <2>2, <2>3, StaysReruns
<1> QED BY <1>1, <1>3, <1>4, Zenon DEF DryRun

LEMMA RecalibrateReruns ==
  ASSUME TypeInv, NEW k \in DOMAIN queue, NEW good \in BOOLEAN, Recalibrate(k, good)
  PROVE  \E e \in Entry, bits \in SUBSET AllBits : Rerun(k, e, bits)
<1> DEFINE q == queue[k]
<1>1. q \in Entry /\ q.cal_failed < CalChances /\ q.cal_failed + 1 \in 0 .. CalChances
  BY ChancesAssumption DEF Recalibrate, TypeInv, TypeOK, TriageTypeOK
<1>2. UNCHANGED <<virgin_tmout, virgin_crash, files, born, crashBits, hangBits, unconfirmed>>
  BY Zenon DEF Recalibrate
<1>3. CASE /\ queue' = [queue EXCEPT ![k].cal_failed = @ + 1]
           /\ UNCHANGED <<virgin_bits, distances, ranBits>>
  <2> DEFINE e == [q EXCEPT !.cal_failed = q.cal_failed + 1]
  <2>1. /\ e \in Entry /\ e.fname = q.fname /\ e.bits = q.bits /\ e.distance = q.distance
    BY <1>1 DEF Entry
  <2>2. queue' = [queue EXCEPT ![k] = e]
    BY <1>3
  <2>3. UNCHANGED <<virgin, distances, files, born, history>>
    BY <1>2, <1>3 DEF virgin, files, history
  <2> HIDE DEF e
  <2> QED BY <2>1, <2>2, <2>3, StaysReruns
<1>4. ASSUME NEW t \in Traces, NEW d \in Shown(q), NEW ending \in Endings(q, Handicaps),
             LET c == Calibrated(q, virgin_bits, t, d, ending) IN
               /\ queue' = [queue EXCEPT ![k] = IF good THEN Scored(c.entry) ELSE c.entry]
               /\ virgin_bits' = c.map
               /\ CalibrationWidens(q, d)
               /\ ranBits' = ranBits \cup Bits(t)
      PROVE  \E e \in Entry, bits \in SUBSET AllBits : Rerun(k, e, bits)
  <2>1. d \in Distances /\ ending \in EndingTypes
    BY <1>1, EndingsTyped DEF Shown, Entry
  <2>2. LET c == Calibrated(queue[k], virgin_bits, t, d, ending) IN
          /\ queue' = [queue EXCEPT ![k] = IF good THEN Scored(c.entry) ELSE c.entry]
          /\ virgin_bits' = c.map
    BY <1>4, Zenon
  <2>3. CalibrationWidens(queue[k], d) /\ ranBits' = ranBits \cup Bits(t)
    BY <1>4, Zenon
  <2> QED BY <1>2, <2>1, <2>2, <2>3, CalibrationReruns, Zenon
<1> QED BY <1>3, <1>4, Zenon DEF Recalibrate

LEMMA NextEntryReruns ==
  ASSUME TypeInv, NextEntry
  PROVE  /\ cur' \in DOMAIN queue /\ UNCHANGED dry
         /\ \E e \in Entry, bits \in SUBSET AllBits : Rerun(cur', e, bits)
<1>1. /\ queue \in Seq(Entry) /\ Len(queue) \in Nat \ {0} /\ DOMAIN queue = 1 .. Len(queue)
      /\ cur \in 0 .. Len(queue)
  BY SeedsAssumption DEF TypeInv, TypeOK, TriageTypeOK, SizeInv
<1>2. cur' \in DOMAIN queue /\ queue[cur'] \in Entry
  <2>1. cur' = IF cur = Len(queue) THEN 1 ELSE cur + 1
    BY Zenon DEF NextEntry
  <2>2. cur' \in 1 .. Len(queue)
    <3>1. Len(queue) \in Nat \ {0} /\ cur \in 0 .. Len(queue)
      BY <1>1
    <3> QED BY ONLY <2>1, <3>1
  <2> QED BY <1>1, <2>2
<1> DEFINE k == cur'
<1> HIDE DEF k
<1>3. CASE UNCHANGED triageVars
  <2>1. queue' = [queue EXCEPT ![k] = queue[k]]
    BY <1>1, <1>3 DEF triageVars
  <2>2. UNCHANGED <<virgin, distances, files, born, history, dry>>
    BY <1>3 DEF triageVars
  <2>3. k \in DOMAIN queue /\ queue[k] \in Entry
    BY <1>2 DEF k
  <2>4. \E e \in Entry, bits \in SUBSET AllBits : Rerun(k, e, bits)
    BY <2>1, <2>2, <2>3, StaysReruns
  <2> QED BY <1>2, <2>2, <2>4 DEF k
<1>4. CASE /\ queue' = [queue EXCEPT ![cur'] = Scored(@)]
           /\ UNCHANGED <<virgin, dry, distances, files, born, history>>
  <2>1. queue' = [queue EXCEPT ![k] = Scored(queue[k])] /\ k \in DOMAIN queue
    BY <1>2, <1>4 DEF k
  <2>2. /\ Scored(queue[k]) \in Entry /\ Scored(queue[k]).fname = queue[k].fname
        /\ Scored(queue[k]).bits = queue[k].bits
        /\ Scored(queue[k]).distance = queue[k].distance
    BY <1>2, ScoredTyped DEF k
  <2>3. \E e \in Entry, bits \in SUBSET AllBits : Rerun(k, e, bits)
    BY <1>4, <2>1, <2>2, StaysReruns
  <2> QED BY <1>2, <1>4, <2>3 DEF k
<1>5. ASSUME NEW good \in BOOLEAN, Recalibrate(cur', good)
      PROVE  /\ cur' \in DOMAIN queue /\ UNCHANGED dry
             /\ \E e \in Entry, bits \in SUBSET AllBits : Rerun(cur', e, bits)
  <2>1. UNCHANGED dry
    BY <1>5, Zenon DEF Recalibrate
  <2>2. k \in DOMAIN queue /\ Recalibrate(k, good)
    BY <1>2, <1>5 DEF k
  <2>3. \E e \in Entry, bits \in SUBSET AllBits : Rerun(k, e, bits)
    BY <2>2, RecalibrateReruns
  <2> QED BY <1>2, <2>1, <2>3 DEF k
<1> QED BY <1>3, <1>4, <1>5, Zenon DEF NextEntry

\* All entries but one stay what they are.
LEMMA RerunEntries ==
  ASSUME TypeInv, NEW k \in DOMAIN queue, NEW e \in Entry, NEW bits, Rerun(k, e, bits)
  PROVE  /\ queue' \in Seq(Entry) /\ Len(queue') = Len(queue)
         /\ DOMAIN queue' = DOMAIN queue /\ queue'[k] = e
         /\ \A i \in DOMAIN queue : i # k => queue'[i] = queue[i]
<1>1. queue \in Seq(Entry) /\ queue' = [queue EXCEPT ![k] = e]
  BY DEF Rerun, TypeInv, TypeOK, TriageTypeOK
<1> QED BY <1>1, ReplacedTyped

LEMMA RerunTyped ==
  ASSUME TypeInv, NEW k \in DOMAIN queue, NEW e \in Entry, NEW bits \in SUBSET AllBits,
         Rerun(k, e, bits), dry' \in 0 .. Len(queue)
  PROVE  TriageInv'
<1>1. queue' \in Seq(Entry) /\ Len(queue') = Len(queue)
  BY RerunEntries
<1>2. max_distance' \in Distances /\ min_distance' \in Distances
  <2>1. e.distance \in Distances
    BY DEF Entry
  <2> QED BY <2>1, WidenTyped DEF Rerun, distances, TypeInv, TypeOK, TriageTypeOK
<1>3. virgin_bits' \subseteq AllBits /\ ranBits' \subseteq AllBits
  BY DEF Rerun, TypeInv, TypeOK, TriageTypeOK
<1>4. UNCHANGED <<virgin_tmout, virgin_crash, files, born, crashBits, hangBits, unconfirmed>>
  BY DEF Rerun
<1> QED BY <1>1, <1>2, <1>3, <1>4
        DEF TriageInv, TypeInv, TypeOK, TriageTypeOK, SizeInv, FilesInv, files

LEMMA DryRunTyped ==
  ASSUME TypeInv, DryRun
  PROVE  TriageInv' /\ Len(queue') = Len(queue)
  BY DryRunReruns, RerunEntries, RerunTyped

\* Likewise what becomes of a new entry, however its calibration ends: its traces have
\* the bits that the map loses, and the limits are widened by its distance.
Added(e, bits) ==
  /\ queue' = Append(queue, e)
  /\ bits \in SUBSET e.bits
  /\ virgin_bits' = virgin_bits \ bits /\ ranBits' = ranBits \cup bits
  /\ AddWidens(e.distance)

LEMMA InterestingAdds ==
  ASSUME TypeInv, NEW t \in Traces, NEW d \in Distances, Interesting(t, d)
  PROVE  \E e \in Entry, bits \in SUBSET AllBits : Added(e, bits)
<1> DEFINE new == NewEntry(born + 1, Bits(t), d)
           q == [new EXCEPT !.has_new_cov = (HasNewBits(virgin_bits, Bits(t)) = 2)]
           map == virgin_bits \ Bits(t)
<1>1. born + 1 \in 1 .. MaxSeeds /\ Bits(t) \subseteq AllBits
  <2>1. born < MaxSeeds
    BY DEF Interesting
  <2>2. InitSeeds \in Nat /\ MaxSeeds \in Nat /\ born \in InitSeeds .. MaxSeeds
    BY SeedsAssumption DEF TypeInv, TypeOK, TriageTypeOK
  <2>3. born + 1 \in 1 .. MaxSeeds
    BY ONLY <2>1, <2>2
  <2> QED BY <2>3, BitsTyped
<1>2. q \in Entry /\ q.bits = Bits(t) /\ q.distance = d /\ q.cal_failed = 0
  <2>1. new \in Entry /\ new.bits = Bits(t) /\ new.distance = d /\ new.cal_failed = 0
    BY <1>1, NewEntryTyped
  <2>2. (HasNewBits(virgin_bits, Bits(t)) = 2) \in BOOLEAN
    OBVIOUS
  <2> HIDE DEF new
  <2>3. \A e \in Entry, b \in BOOLEAN :
          LET f == [e EXCEPT !.has_new_cov = b] IN
            /\ f \in Entry /\ f.bits = e.bits /\ f.distance = e.distance
            /\ f.cal_failed = e.cal_failed
    BY DEF Entry
  <2> QED BY <2>1, <2>2, <2>3
<1>3. d \in Nat
  BY DistancesAssumption
<1> HIDE DEF q
<1>4. CASE /\ queue' = Append(queue, [q EXCEPT !.cal_failed = 1])
           /\ virgin_bits' = map
           /\ AddWidens(d)
           /\ ranBits' = ranBits \cup Bits(t)
  <2> DEFINE e == [q EXCEPT !.cal_failed = 1]
  <2>1. e \in Entry /\ e.bits = q.bits /\ e.distance = q.distance
    BY <1>2, ChancesAssumption DEF Entry
  <2> HIDE DEF e
  <2>2. Added(e, Bits(t))
    BY <1>2, <1>4, <2>1 DEF Added, e
  <2> QED BY <1>1, <2>1, <2>2
<1>5. ASSUME NEW t2 \in Traces, NEW d2 \in Shown(q), NEW ending \in Endings(q, Handicaps),
             LET c == Calibrated(q, map, t2, d2, ending) IN
               /\ queue' = Append(queue, c.entry)
               /\ virgin_bits' = c.map
               /\ IF d > 0 THEN AddWidens(d) ELSE CalibrationWidens(q, d2)
               /\ ranBits' = ranBits \cup Bits(t) \cup Bits(t2)
      PROVE  \E e \in Entry, bits \in SUBSET AllBits : Added(e, bits)
  <2> DEFINE c == Calibrated(q, map, t2, d2, ending)
             bits == Bits(t) \cup Bits(t2)
  <2>1. /\ d2 \in Distances /\ bits \in SUBSET AllBits
        /\ ending \in EndingTypes
    <3>1. q.cal_failed < CalChances
      BY <1>2, ChancesAssumption
    <3>2. ending \in EndingTypes
      BY <1>2, <3>1, EndingsTyped
    <3> QED BY <1>1, <1>2, <3>2, BitsTyped DEF Shown
  <2>2. /\ c.entry \in Entry
        /\ q.bits \cup Bits(t2) \in SUBSET c.entry.bits
        /\ c.entry.distance = IF q.distance = 0 THEN d2 ELSE q.distance
    <3>1. q \in Entry /\ d2 \in Distances /\ ending \in EndingTypes
      BY <1>2, <2>1
    <3>2. c.entry \in Entry
      BY <3>1, CalibratedTyped
    <3>3. q.bits \cup Bits(t2) \in SUBSET c.entry.bits
      BY <3>1, CalibratedTyped
    <3>4. c.entry.distance = IF q.distance = 0 THEN d2 ELSE q.distance
      BY <3>1, CalibratedTyped
    <3> QED BY <3>2, <3>3, <3>4
  <2>7. c.map = map \ Bits(t2)
    BY Zenon DEF Calibrated
  <2>3. /\ queue' = Append(queue, c.entry) /\ virgin_bits' = c.map
        /\ IF d > 0 THEN AddWidens(d) ELSE CalibrationWidens(q, d2)
        /\ ranBits' = ranBits \cup bits
    BY <1>5, Zenon
  <2> HIDE DEF c
  <2>4. AddWidens(c.entry.distance)
    BY <1>2, <1>3, <2>2, <2>3, CopiesAgree
  <2>5. virgin_bits' = virgin_bits \ bits /\ bits \in SUBSET c.entry.bits
    BY <1>2, <2>2, <2>3, <2>7
  <2>6. Added(c.entry, bits)
    BY <2>3, <2>4, <2>5 DEF Added
  <2> QED BY <2>1, <2>2, <2>6
<1> QED BY <1>4, <1>5, Zenon DEF Interesting, q

LEMMA InterestingTyped ==
  ASSUME TypeInv, NEW t \in Traces, NEW d \in Distances, Interesting(t, d)
  PROVE  TriageInv' /\ Len(queue') = Len(queue) + 1
<1>1. PICK e \in Entry, bits \in SUBSET AllBits : Added(e, bits)
  BY InterestingAdds
<1>2. queue' \in Seq(Entry) /\ Len(queue') = Len(queue) + 1
  BY <1>1 DEF Added, TypeInv, TypeOK, TriageTypeOK
<1>3. max_distance' \in Distances /\ min_distance' \in Distances
  <2>1. e.distance \in Distances
    BY DEF Entry
  <2> QED BY <1>1, <2>1, WidenTyped DEF Added, TypeInv, TypeOK, TriageTypeOK
<1>4. virgin_bits' \subseteq AllBits /\ ranBits' \subseteq AllBits
  BY <1>1 DEF Added, TypeInv, TypeOK, TriageTypeOK
<1>5. /\ Len(queue') <= MaxSeeds /\ dry' \in 0 .. Len(queue')
      /\ born' \in InitSeeds .. MaxSeeds /\ SizeInv'
  BY <1>2, SeedsAssumption DEF Interesting, TypeInv, TypeOK, TriageTypeOK, SizeInv
<1>6. UNCHANGED <<virgin_tmout, virgin_crash, files, crashBits, hangBits, unconfirmed>>
  BY Zenon DEF Interesting
<1> QED BY <1>2, <1>3, <1>4, <1>5, <1>6
        DEF TriageInv, TypeInv, TypeOK, TriageTypeOK, FilesInv, files

LEMMA CrashTyped ==
  ASSUME TypeInv, NEW t \in Traces, Crash(t)
  PROVE  TriageInv' /\ Len(queue') = Len(queue)
<1>1. KeepAsCrash(t)
  BY DEF Crash
<1> QED BY <1>1, KeepAsCrashTyped
        DEF Crash, TriageInv, TypeInv, TypeOK, TriageTypeOK, SizeInv, FilesInv, distances

LEMMA HangTyped ==
  ASSUME TypeInv, NEW t \in Traces, Hang(t)
  PROVE  TriageInv' /\ Len(queue') = Len(queue)
<1>1. Simplified(t) \subseteq AllSimple
  BY SimplifiedTyped
<1>2. /\ virgin_tmout' \subseteq AllSimple /\ hangBits' \subseteq AllSimple
      /\ unconfirmed' \subseteq hangBits' /\ unique_tmouts' \in Nat
  BY <1>1 DEF Hang, TypeInv, TypeOK, TriageTypeOK
<1>3. /\ hangs' \subseteq SUBSET AllSimple /\ Cardinality(hangs') <= KeepHangs
      /\ IsFiniteSet(hangs')
  <2>1. CASE Cardinality(hangs) < KeepHangs /\ hangs' = hangs \cup {Simplified(t)}
    <3>1. IsFiniteSet(hangs) /\ Cardinality(hangs) \in Nat
      BY FS_CardinalityType DEF TypeInv, FilesInv
    <3>2. /\ IsFiniteSet(hangs')
          /\ Cardinality(hangs') = Cardinality(hangs)
             \/ Cardinality(hangs') = Cardinality(hangs) + 1
      BY <2>1, <3>1, FS_AddElement
    <3>3. Cardinality(hangs') <= KeepHangs
      BY <2>1, <3>1, <3>2, KeepAssumption
    <3>4. hangs' \subseteq SUBSET AllSimple
      BY <1>1, <2>1 DEF TypeInv, TypeOK, TriageTypeOK
    <3> QED BY <3>2, <3>3, <3>4
  <2>2. CASE UNCHANGED hangs
    BY <2>2 DEF TypeInv, TypeOK, TriageTypeOK, FilesInv
  <2> QED BY <2>1, <2>2 DEF Hang
<1>4. /\ virgin_crash' \subseteq AllSimple /\ crashBits' \subseteq AllSimple
      /\ crashes' \subseteq SUBSET AllSimple /\ Cardinality(crashes') <= KeepCrashes
      /\ IsFiniteSet(crashes')
  <2>1. CASE UNCHANGED <<crashes, virgin_crash, crashBits>>
    BY <2>1 DEF TypeInv, TypeOK, TriageTypeOK, FilesInv
  <2>2. CASE \E t2 \in Traces : KeepAsCrash(t2)
    BY <2>2, KeepAsCrashTyped
  <2> QED BY <2>1, <2>2 DEF Hang
<1> QED BY <1>2, <1>3, <1>4
        DEF Hang, TriageInv, TypeInv, TypeOK, TriageTypeOK, SizeInv, FilesInv, distances

LEMMA FuzzStepTyped ==
  ASSUME TypeInv, FuzzStep
  PROVE  TriageInv' /\ Len(queue) <= Len(queue') /\ UNCHANGED monitorVars
<1>1. Len(queue) \in Nat
  BY DEF TypeInv, TypeOK, TriageTypeOK
<1>2. CASE DryRun
  BY <1>1, <1>2, DryRunTyped DEF FuzzStep
<1>3. ASSUME NEW t \in Traces, Boring(t) PROVE TriageInv' /\ Len(queue) <= Len(queue')
  <2>1. ranBits' \subseteq AllBits
    BY <1>3, BitsTyped DEF Boring, TypeInv, TypeOK, TriageTypeOK
  <2> QED BY <1>1, <1>3, <2>1
          DEF Boring, TriageInv, TypeInv, TypeOK, TriageTypeOK, SizeInv, FilesInv,
              virgin, distances, files
<1>4. ASSUME NEW t \in Traces, NEW d \in Distances, Interesting(t, d)
      PROVE  TriageInv' /\ Len(queue) <= Len(queue')
  BY <1>1, <1>4, InterestingTyped
<1>5. ASSUME NEW t \in Traces, Crash(t) \/ Hang(t)
      PROVE  TriageInv' /\ Len(queue) <= Len(queue')
  BY <1>1, <1>5, CrashTyped, HangTyped
<1>6. UNCHANGED monitorVars
  BY DEF FuzzStep
<1> QED BY <1>2, <1>3, <1>4, <1>5, <1>6, Zenon DEF FuzzStep

\* What the fuzzer keeps while it serves: nothing but entries are written.
LEMMA EntriesWritten ==
  ASSUME TypeInv, NEW r \in [DOMAIN queue -> Entry], queue' = r,
         UNCHANGED <<virgin, dry, distances, files, born, history>>
  PROVE  TriageInv' /\ DOMAIN queue' = DOMAIN queue
<1>1. queue' \in Seq(Entry) /\ Len(queue') = Len(queue) /\ DOMAIN queue' = DOMAIN queue
  BY MappedTyped DEF TypeInv, TypeOK, TriageTypeOK
<1> QED BY <1>1 DEF TriageInv, TypeInv, TypeOK, TriageTypeOK, SizeInv, FilesInv,
                    virgin, distances, files, history

\* The rest of TypeOK.
MonitorTypeOK ==
  /\ op \in Reads \cup Writes \cup {"none"}
  /\ area \in [1 .. CurPlace -> AreaEntry] /\ queue_len \in 0 .. CurPlace
  /\ \A flag \in {alive, omitted, moved, edited} : flag \in BOOLEAN
  /\ life \in 1 .. MaxLives /\ areaLife \in 0 .. life /\ copyLife \in 0 .. life
  /\ requests \in 0 .. MaxRequests
  /\ copy \in Seq(AreaEntry) /\ Len(copy) <= CurPlace /\ copy_cur \in AreaEntry

CurTypeOK == cur \in 0 .. Len(queue) /\ polling \in BOOLEAN /\ (polling => cur > 0)

LEMMA TypeInvNext ==
  ASSUME TriageInv', MonitorTypeOK', CurTypeOK' PROVE TypeInv'
  BY Zenon DEF TypeInv, TriageInv, TypeOK, MonitorTypeOK, CurTypeOK

LEMMA NextEntryTyped == ASSUME TypeInv, NextEntry PROVE TypeInv'
<1>1. PICK e \in Entry, bits \in SUBSET AllBits : Rerun(cur', e, bits)
  BY NextEntryReruns
<1>2. cur' \in DOMAIN queue /\ UNCHANGED dry /\ dry \in 0 .. Len(queue)
  BY NextEntryReruns DEF TypeInv, TypeOK, TriageTypeOK
<1> DEFINE k == cur'
<1> HIDE DEF k
<1>3. TriageInv' /\ Len(queue') = Len(queue)
  <2>1. k \in DOMAIN queue /\ Rerun(k, e, bits) /\ dry' \in 0 .. Len(queue)
    BY <1>1, <1>2 DEF k
  <2> QED BY <2>1, RerunEntries, RerunTyped
<1>4. MonitorTypeOK'
  <2>1. \A flag \in {alive', omitted', moved', edited'} : flag \in BOOLEAN
    BY Zenon DEF NextEntry, areas, client, TypeInv, TypeOK
  <2> QED BY <2>1 DEF NextEntry, areas, client, TypeInv, TypeOK, MonitorTypeOK
<1>5. CurTypeOK'
  <2>1. polling' \in BOOLEAN
    BY Zenon DEF NextEntry
  <2>2. cur' \in 1 .. Len(queue) /\ Len(queue) \in Nat
    BY <1>2 DEF TypeInv, TypeOK, TriageTypeOK
  <2> QED BY <1>3, <2>1, <2>2 DEF CurTypeOK
<1> QED BY <1>3, <1>4, <1>5, TypeInvNext

LEMMA FuzzTyped == ASSUME TypeInv, FuzzStep PROVE TypeInv'
<1>1. TriageInv' /\ Len(queue) <= Len(queue') /\ UNCHANGED monitorVars
  BY FuzzStepTyped
<1>2. CurTypeOK'
  <2>1. Len(queue) \in Nat /\ Len(queue') \in Nat /\ cur \in 0 .. Len(queue)
    BY <1>1 DEF TypeInv, TypeOK, TriageInv, TriageTypeOK
  <2>2. UNCHANGED <<cur, polling>>
    BY <1>1 DEF monitorVars
  <2> QED BY <1>1, <2>1, <2>2 DEF CurTypeOK, TypeInv, TypeOK
<1>3. MonitorTypeOK'
  BY <1>1 DEF monitorVars, areas, client, TypeInv, TypeOK, MonitorTypeOK
<1> QED BY <1>1, <1>2, <1>3, TypeInvNext

\* There is a current entry while the mailbox is polled.
LEMMA CurInside == ASSUME TypeInv, polling PROVE cur \in DOMAIN queue
<1>1. /\ queue \in Seq(Entry) /\ DOMAIN queue = 1 .. Len(queue) /\ Len(queue) \in Nat
      /\ cur \in 0 .. Len(queue) /\ cur > 0
  BY DEF TypeInv, TypeOK, TriageTypeOK
<1> QED BY <1>1

\* Each of the four services leaves entries in the queue, and in the struct.
LEMMA ReadQueueTyped ==
  ASSUME TypeInv, ServeReadQueue
  PROVE  /\ queue' \in [DOMAIN queue -> Entry] /\ alive' \in BOOLEAN
         /\ area' \in [1 .. CurPlace -> AreaEntry] /\ queue_len' \in 0 .. CurPlace
         /\ areaLife' \in 0 .. life /\ copyLife' \in 0 .. life
         /\ copy' \in Seq(AreaEntry) /\ Len(copy') <= CurPlace
<1>1. /\ queue \in [DOMAIN queue -> Entry] /\ DOMAIN queue = 1 .. Len(queue)
      /\ Len(queue) \in Nat
  BY DEF TypeInv, TypeOK, TriageTypeOK
<1>2. CASE Len(queue) > CurPlace
  <2>1. alive' = FALSE /\ UNCHANGED <<queue, area, queue_len, areaLife, copy, copyLife>>
    BY <1>2 DEF ServeReadQueue
  <2> QED BY <1>1, <2>1, Zenon DEF TypeInv, TypeOK
<1>3. CASE ~(Len(queue) > CurPlace)
  <2>1. area' = [i \in DOMAIN area |-> IF i \in DOMAIN queue THEN InArea(queue[i]) ELSE area[i]]
    BY <1>3, Zenon DEF ServeReadQueue
  <2>2. area \in [1 .. CurPlace -> AreaEntry]
    BY DEF TypeInv, TypeOK
  <2>3. area' \in [1 .. CurPlace -> AreaEntry]
    BY <1>1, <2>1, <2>2, InAreaTyped
  <2>4. queue_len' \in 0 .. CurPlace /\ queue_len' = Len(queue)
    BY <1>1, <1>3, CurPlaceTyped DEF ServeReadQueue
  <2>5. copy' = SubSeq(area', 1, queue_len') /\ areaLife' = life /\ copyLife' = life
    BY <1>3, Zenon DEF ServeReadQueue
  <2>6. area' \in Seq(AreaEntry) /\ Len(area') = CurPlace
    BY <2>3, CurPlaceTyped, Listed
  <2>7. copy' \in Seq(AreaEntry) /\ Len(copy') = queue_len'
    BY <2>4, <2>5, <2>6, CurPlaceTyped
  <2>8. queue' = [i \in DOMAIN queue |-> Scored(queue[i])] /\ UNCHANGED alive
    BY <1>3, Zenon DEF ServeReadQueue
  <2>9. queue' \in [DOMAIN queue -> Entry]
    BY <1>1, <2>8, ScoredTyped
  <2>10. alive' \in BOOLEAN
    BY <2>8, Zenon DEF TypeInv, TypeOK
  <2>11. life \in Nat
    BY RequestsAssumption DEF TypeInv, TypeOK
  <2> QED BY <2>3, <2>4, <2>5, <2>7, <2>9, <2>10, <2>11
<1> QED BY <1>2, <1>3

LEMMA WriteQueueTyped ==
  ASSUME TypeInv, ServeWriteQueue
  PROVE  queue' \in [DOMAIN queue -> Entry] /\ alive' \in BOOLEAN
<1>1. /\ queue \in [DOMAIN queue -> Entry] /\ DOMAIN queue = 1 .. Len(queue)
      /\ Len(queue) \in Nat /\ queue_len \in 0 .. CurPlace
      /\ area \in [1 .. CurPlace -> AreaEntry]
  BY DEF TypeInv, TypeOK, TriageTypeOK
<1>2. CASE queue_len > Len(queue)
  <2>1. alive' = FALSE /\ UNCHANGED queue
    BY <1>2 DEF ServeWriteQueue
  <2> QED BY <1>1, <2>1, Zenon
<1>3. CASE ~(queue_len > Len(queue))
  <2>1. /\ queue' = [i \in DOMAIN queue |->
                       IF i <= queue_len THEN Loaded(queue[i], area[i]) ELSE queue[i]]
        /\ UNCHANGED alive
    BY <1>3, Zenon DEF ServeWriteQueue
  <2>2. \A i \in DOMAIN queue : i <= queue_len => area[i] \in AreaEntry
    BY <1>1, CurPlaceTyped
  <2>3. queue' \in [DOMAIN queue -> Entry]
    BY <1>1, <2>1, <2>2, LoadedTyped
  <2> QED BY <2>1, <2>3, Zenon DEF TypeInv, TypeOK
<1> QED BY <1>2, <1>3

LEMMA ReadCurTyped ==
  ASSUME TypeInv, polling, ServeReadCur
  PROVE  /\ queue' \in [DOMAIN queue -> Entry]
         /\ area' \in [1 .. CurPlace -> AreaEntry] /\ copy_cur' \in AreaEntry
         /\ moved' \in BOOLEAN
<1>1. /\ queue \in [DOMAIN queue -> Entry] /\ cur \in DOMAIN queue
      /\ area \in [1 .. CurPlace -> AreaEntry]
  BY CurInside DEF TypeInv, TypeOK, TriageTypeOK
<1>2. InArea(queue[cur]) \in AreaEntry /\ Scored(queue[cur]) \in Entry
  BY <1>1, InAreaTyped, ScoredTyped
<1>3. queue' \in [DOMAIN queue -> Entry]
  BY <1>1, <1>2 DEF ServeReadCur
<1>4. area' \in [1 .. CurPlace -> AreaEntry]
  BY <1>1, <1>2 DEF ServeReadCur
<1>5. copy_cur' \in AreaEntry
  BY <1>4, CurPlaceTyped DEF ServeReadCur
<1> QED BY <1>3, <1>4, <1>5, Zenon DEF ServeReadCur

LEMMA WriteCurTyped ==
  ASSUME TypeInv, polling, ServeWriteCur
  PROVE  queue' \in [DOMAIN queue -> Entry]
<1>1. /\ queue \in [DOMAIN queue -> Entry] /\ cur \in DOMAIN queue
      /\ area[CurPlace] \in AreaEntry
  BY CurPlaceTyped, CurInside DEF TypeInv, TypeOK, TriageTypeOK
<1>2. Loaded(queue[cur], area[CurPlace]) \in Entry
  BY <1>1, LoadedTyped
<1> QED BY <1>1, <1>2 DEF ServeWriteCur

LEMMA ServeTyped == ASSUME TypeInv, Serve PROVE TypeInv'
<1> USE DEF TypeInv, TypeOK
<1>1. /\ queue' \in [DOMAIN queue -> Entry] /\ alive' \in BOOLEAN /\ moved' \in BOOLEAN
      /\ area' \in [1 .. CurPlace -> AreaEntry] /\ queue_len' \in 0 .. CurPlace
      /\ areaLife' \in 0 .. life /\ copyLife' \in 0 .. life
      /\ copy' \in Seq(AreaEntry) /\ Len(copy') <= CurPlace /\ copy_cur' \in AreaEntry
  <2>0. polling
    BY Zenon DEF Serve
  <2>1. CASE ServeReadQueue
    <3>1. UNCHANGED <<copy_cur, moved>>
      BY <2>1, Zenon DEF ServeReadQueue
    <3> QED BY <2>1, <3>1, ReadQueueTyped, Zenon
  <2>2. CASE ServeWriteQueue
    <3>1. UNCHANGED <<area, queue_len, areaLife, copy, copyLife, copy_cur, moved>>
      BY <2>2, Zenon DEF ServeWriteQueue
    <3> QED BY <2>2, <3>1, WriteQueueTyped, Zenon
  <2>3. CASE ServeReadCur
    <3>1. UNCHANGED <<alive, queue_len, areaLife, copy, copyLife>>
      BY <2>3, Zenon DEF ServeReadCur
    <3> QED BY <2>0, <2>3, <3>1, ReadCurTyped, Zenon
  <2>4. CASE ServeWriteCur
    <3>1. UNCHANGED <<alive, area, queue_len, areaLife, copy, copyLife, copy_cur, moved>>
      BY <2>4, Zenon DEF ServeWriteCur
    <3> QED BY <2>0, <2>4, <3>1, WriteCurTyped, Zenon
  <2> QED BY <2>1, <2>2, <2>3, <2>4, Zenon DEF Serve
<1>2. UNCHANGED <<virgin, dry, distances, files, born, history, cur, polling, life, requests>>
  BY Zenon DEF Serve
<1>3. TriageInv' /\ DOMAIN queue' = DOMAIN queue
  BY <1>1, <1>2, EntriesWritten
<1>4. op' \in Reads \cup Writes \cup {"none"} /\ omitted' \in BOOLEAN /\ edited' \in BOOLEAN
  <2>1. /\ op' = "none" \/ op' = op
        /\ omitted' = FALSE /\ edited' = (edited \/ op \in Writes)
    BY Zenon DEF Serve
  <2>2. (edited \/ op \in Writes) \in BOOLEAN
    BY Zenon
  <2> QED BY <2>1, <2>2, Zenon
<1>5. MonitorTypeOK'
  BY <1>1, <1>2, <1>4, Zenon DEF MonitorTypeOK
<1>6. CurTypeOK'
  <2>1. Len(queue') = Len(queue)
    BY <1>3 DEF TriageInv, TriageTypeOK
  <2> QED BY <1>2, <2>1 DEF CurTypeOK
<1> QED BY <1>3, <1>5, <1>6, TypeInvNext

LEMMA RestartQueue ==
  ASSUME TypeInv, Restart
  PROVE  /\ queue' \in Seq(Entry) /\ Len(queue') \in {InitSeeds, Len(queue)}
         /\ InitSeeds <= Len(queue') /\ Len(queue') <= Len(queue)
         /\ \A i \in DOMAIN queue' : queue'[i].bits = {}
<1>1. PICK n \in {InitSeeds, Len(queue)} :
        queue' = FreshQueue([i \in 1 .. n |-> queue[i].fname])
  BY Zenon DEF Restart
<1>2. queue \in Seq(Entry) /\ InitSeeds <= Len(queue) /\ Len(queue) <= MaxSeeds
  BY DEF TypeInv, TypeOK, TriageTypeOK, SizeInv
<1>3. n \in 1 .. MaxSeeds /\ n <= Len(queue) /\ InitSeeds <= n
  BY <1>2, SeedsAssumption
<1>4. [i \in 1 .. n |-> queue[i].fname] \in [1 .. n -> 1 .. MaxSeeds]
  <2>1. \A i \in 1 .. n : queue[i] \in Entry
    BY <1>2, <1>3
  <2>2. \A e \in Entry : e.fname \in 1 .. MaxSeeds
    BY DEF Entry
  <2> QED BY <2>1, <2>2
<1>5. /\ queue' \in Seq(Entry) /\ Len(queue') = n /\ DOMAIN queue' = 1 .. n
      /\ \A i \in 1 .. n : queue'[i].bits = {}
  BY <1>1, <1>3, <1>4, FreshTyped
<1> QED BY <1>3, <1>5

LEMMA RestartTyped == ASSUME TypeInv, Restart PROVE TypeInv'
<1>1. /\ queue' \in Seq(Entry) /\ InitSeeds <= Len(queue') /\ Len(queue') <= Len(queue)
  BY RestartQueue
<1>2. /\ queue \in Seq(Entry) /\ Len(queue) <= MaxSeeds /\ Len(queue) <= born
      /\ born \in InitSeeds .. MaxSeeds
  BY DEF TypeInv, TypeOK, TriageTypeOK, SizeInv
<1>3. /\ virgin_bits' = AllBits /\ virgin_tmout' = AllSimple /\ virgin_crash' = AllSimple
      /\ max_distance' = 0 /\ min_distance' = 0 /\ dry' = 0
      /\ crashes' = {} /\ hangs' = {} /\ unique_tmouts' = 0 /\ born' = born
      /\ ranBits' = {} /\ crashBits' = {} /\ hangBits' = {} /\ unconfirmed' = {}
  BY Zenon DEF Restart
<1>4. TriageTypeOK'
  <2>1. Cardinality({}) = 0
    BY FS_EmptySet
  <2>2. dry' \in 0 .. Len(queue') /\ Len(queue') <= MaxSeeds
    BY <1>1, <1>2, <1>3, SeedsAssumption
  <2> QED BY <1>1, <1>2, <1>3, <2>1, <2>2, DistancesAssumption, KeepAssumption
          DEF TriageTypeOK
<1>5. SizeInv'
  BY <1>1, <1>2, <1>3, SeedsAssumption DEF SizeInv
<1>6. FilesInv'
  BY <1>3, FS_EmptySet DEF FilesInv
<1>7. /\ life' = life + 1 /\ life < MaxLives /\ cur' = 0 /\ polling' = FALSE
      /\ alive' = TRUE /\ moved' = TRUE /\ edited' = FALSE /\ omitted' = FALSE /\ op' = "none"
      /\ area' = Cleared /\ queue_len' = 0 /\ areaLife' = 0
      /\ requests' = requests /\ copy' = copy /\ copy_cur' = copy_cur /\ copyLife' = copyLife
  BY Zenon DEF Restart, client
<1>8. /\ life' \in 1 .. MaxLives /\ areaLife' \in 0 .. life' /\ copyLife' \in 0 .. life'
      /\ queue_len' \in 0 .. CurPlace
  BY <1>7, RequestsAssumption, CurPlaceTyped DEF TypeInv, TypeOK
<1>9. area' \in [1 .. CurPlace -> AreaEntry]
  BY <1>7, NoEntryTyped DEF Cleared
<1>10. MonitorTypeOK'
  <2>1. alive' \in BOOLEAN /\ moved' \in BOOLEAN /\ edited' \in BOOLEAN /\ omitted' \in BOOLEAN
    BY <1>7, Zenon
  <2>2. requests' \in 0 .. MaxRequests /\ copy' \in Seq(AreaEntry) /\ Len(copy') <= CurPlace
        /\ copy_cur' \in AreaEntry
    BY <1>7, Zenon DEF TypeInv, TypeOK
  <2> QED BY <1>7, <1>8, <1>9, <2>1, <2>2, Zenon DEF MonitorTypeOK
<1>11. CurTypeOK'
  <2>1. Len(queue') \in Nat /\ cur' = 0
    BY <1>1, <1>7
  <2>2. polling' \in BOOLEAN /\ ~polling'
    BY <1>7, Zenon
  <2> QED BY <2>1, <2>2 DEF CurTypeOK
<1> QED BY <1>4, <1>5, <1>6, <1>10, <1>11, TypeInvNext DEF TriageInv

\* A request changes nothing that the fuzzer owns.
LEMMA PostedTyped ==
  ASSUME TypeInv, NEW o \in Reads \cup Writes, Post(o),
         UNCHANGED <<triageVars, cur, polling, alive, life, moved, edited, copy, copy_cur,
                     copyLife>>,
         area' \in [1 .. CurPlace -> AreaEntry], queue_len' \in 0 .. CurPlace,
         areaLife' \in 0 .. life, omitted' \in BOOLEAN
  PROVE  TypeInv'
<1>1. TriageInv' /\ CurTypeOK'
  BY DEF TypeInv, TypeOK, TriageTypeOK, TriageInv, SizeInv, FilesInv, CurTypeOK,
         triageVars, virgin, distances, files, history
<1>2. op' = o /\ requests' \in 0 .. MaxRequests
  BY RequestsAssumption DEF Post, TypeInv, TypeOK
<1>3. MonitorTypeOK'
  <2>1. op' \in Reads \cup Writes \cup {"none"}
    BY <1>2, Zenon
  <2> QED BY <1>2, <2>1, Zenon DEF MonitorTypeOK, TypeInv, TypeOK
<1> QED BY <1>1, <1>3, TypeInvNext

LEMMA ReadTyped == ASSUME TypeInv, Read PROVE TypeInv'
<1>1. PICK o \in Reads : Post(o)
  BY Zenon DEF Read
<1>2. UNCHANGED <<triageVars, area, queue_len, areaLife, omitted, cur, polling, alive, life,
                  moved, edited, copy, copy_cur, copyLife>>
  BY Zenon DEF Read
<1>3. /\ area' \in [1 .. CurPlace -> AreaEntry] /\ queue_len' \in 0 .. CurPlace
      /\ areaLife' \in 0 .. life /\ omitted' \in BOOLEAN
  BY <1>2, Zenon DEF TypeInv, TypeOK
<1> QED BY <1>1, <1>2, <1>3, PostedTyped, Zenon

\* What a client sends back is an entry.
LEMMA BodyTyped ==
  ASSUME NEW e \in AreaEntry, NEW body \in Bodies(e) PROVE body \in AreaEntry
  BY DEF Bodies, AreaEntry, Marks

LEMMA FromJsonTyped ==
  ASSUME NEW old \in AreaEntry, NEW body \in AreaEntry, NEW leaveOut \in BOOLEAN
  PROVE  FromJson(old, body, leaveOut) \in AreaEntry
<1>1. \A x, y \in AreaEntry : [x EXCEPT !.distance = y.distance] \in AreaEntry
  BY DEF AreaEntry
<1> QED BY <1>1, Zenon DEF FromJson

\* The list sent is either the one read, with an entry edited, or made up.
LEMMA ListSent ==
  ASSUME TypeInv, WriteQueue
  PROVE  \/ /\ areaLife' = copyLife /\ queue_len' = Len(copy)
            /\ \E list \in [1 .. Len(copy) -> AreaEntry], leaveOut \in BOOLEAN :
                 /\ SendList(list, leaveOut)
                 /\ \A k \in 1 .. Len(copy) : list[k].fname = copy[k].fname
         \/ /\ areaLife' = 0
            /\ \E n \in 0 .. CurPlace : \E list \in [1 .. n -> AreaEntry] :
                 SendList(list, FALSE)
<1>1. copy \in [1 .. Len(copy) -> AreaEntry] /\ Len(copy) \in Nat /\ DOMAIN copy = 1 .. Len(copy)
  BY DEF TypeInv, TypeOK
<1>2. ASSUME NEW i \in DOMAIN copy, NEW leaveOut \in BOOLEAN, NEW body \in Bodies(copy[i]),
             SendList([copy EXCEPT ![i] = body], leaveOut), areaLife' = copyLife
      PROVE  /\ areaLife' = copyLife /\ queue_len' = Len(copy)
             /\ \E list \in [1 .. Len(copy) -> AreaEntry], out \in BOOLEAN :
                  /\ SendList(list, out)
                  /\ \A k \in 1 .. Len(copy) : list[k].fname = copy[k].fname
  <2> DEFINE list == [copy EXCEPT ![i] = body]
  <2>1. body \in AreaEntry /\ body.fname = copy[i].fname
    BY <1>1, BodyTyped DEF Bodies
  <2>2. /\ list \in [1 .. Len(copy) -> AreaEntry]
        /\ \A k \in 1 .. Len(copy) : list[k].fname = copy[k].fname
    BY <1>1, <2>1
  <2>3. Len(list) = Len(copy)
    BY <1>1, <2>2, Listed
  <2>4. SendList(list, leaveOut)
    BY <1>2
  <2>5. queue_len' = Len(list)
    BY <2>4, Zenon DEF SendList
  <2> HIDE DEF list
  <2> QED BY <1>2, <2>2, <2>3, <2>4, <2>5
<1>3. ASSUME NEW n \in 0 .. CurPlace, NEW list \in [1 .. n -> MadeUp], SendList(list, FALSE)
      PROVE  \E m \in 0 .. CurPlace : \E l \in [1 .. m -> AreaEntry] : SendList(l, FALSE)
  <2>1. list \in [1 .. n -> AreaEntry]
    BY MadeUpAssumption
  <2> QED BY <1>3, <2>1
<1> QED BY <1>2, <1>3, Zenon DEF WriteQueue

\* Whatever is sent, its entries are in the area afterwards.
LEMMA SentTyped ==
  ASSUME TypeInv, NEW n \in 0 .. CurPlace, NEW list \in [1 .. n -> AreaEntry],
         NEW leaveOut \in BOOLEAN, SendList(list, leaveOut)
  PROVE  /\ area' \in [1 .. CurPlace -> AreaEntry] /\ queue_len' = n
         /\ omitted' = leaveOut
         /\ \A k \in 1 .. n : area'[k] = FromJson(area[k], list[k], leaveOut)
<1>1. n \in Nat /\ \A k \in 1 .. n : k \in 1 .. CurPlace
  BY CurPlaceTyped
<1>2. DOMAIN list = 1 .. n /\ Len(list) = n
  BY <1>1, Listed
<1>3. /\ area' = [k \in DOMAIN area |-> IF k \in DOMAIN list
                                         THEN FromJson(area[k], list[k], leaveOut)
                                         ELSE area[k]]
      /\ queue_len' = Len(list) /\ omitted' = leaveOut
  BY Zenon DEF SendList
<1>4. area \in [1 .. CurPlace -> AreaEntry]
  BY DEF TypeInv, TypeOK
<1>5. \A k \in 1 .. n : FromJson(area[k], list[k], leaveOut) \in AreaEntry
  BY <1>1, <1>4, FromJsonTyped
<1> QED BY <1>1, <1>2, <1>3, <1>4, <1>5

LEMMA WrittenListTyped == ASSUME TypeInv, WriteQueue PROVE TypeInv'
<1>0. PICK n \in 0 .. CurPlace :
        \E list \in [1 .. n -> AreaEntry], leaveOut \in BOOLEAN : SendList(list, leaveOut)
  <2>1. Len(copy) \in 0 .. CurPlace /\ FALSE \in BOOLEAN
    BY CurPlaceTyped DEF TypeInv, TypeOK
  <2> QED BY <2>1, ListSent, Zenon
<1>1. PICK list \in [1 .. n -> AreaEntry], leaveOut \in BOOLEAN : SendList(list, leaveOut)
  BY <1>0, Zenon
<1>2. Post("WRITE_QUEUE")
  BY <1>1, Zenon DEF SendList
<1>3. area' \in [1 .. CurPlace -> AreaEntry] /\ queue_len' = n /\ omitted' = leaveOut
  BY <1>1, SentTyped
<1>4. areaLife' \in 0 .. life
  <2>1. areaLife' = copyLife \/ areaLife' = 0
    BY Zenon DEF WriteQueue
  <2>2. copyLife \in 0 .. life /\ life \in Nat
    BY RequestsAssumption DEF TypeInv, TypeOK
  <2> QED BY <2>1, <2>2
<1>5. UNCHANGED <<triageVars, cur, polling, alive, life, moved, edited, copy, copy_cur,
                  copyLife>>
  BY Zenon DEF WriteQueue
<1>6. "WRITE_QUEUE" \in Reads \cup Writes
  BY Zenon DEF Writes
<1> QED BY <1>2, <1>3, <1>4, <1>5, <1>6, PostedTyped, Zenon

LEMMA WrittenCurTyped == ASSUME TypeInv, WriteCur PROVE TypeInv'
<1>1. Post("WRITE_QUEUE_CUR")
  BY Zenon DEF WriteCur
<1>2. PICK leaveOut \in BOOLEAN, body \in MadeUp \cup Bodies(copy_cur) :
        area' = [area EXCEPT ![CurPlace] = FromJson(@, body, leaveOut)]
  BY Zenon DEF WriteCur
<1>3. area \in [1 .. CurPlace -> AreaEntry] /\ copy_cur \in AreaEntry
  BY DEF TypeInv, TypeOK
<1>4. FromJson(area[CurPlace], body, leaveOut) \in AreaEntry
  BY <1>3, CurPlaceTyped, BodyTyped, MadeUpAssumption, FromJsonTyped
<1>5. area' \in [1 .. CurPlace -> AreaEntry]
  BY <1>2, <1>3, <1>4
<1>6. UNCHANGED <<triageVars, queue_len, areaLife, omitted, cur, polling, alive, life, moved,
                  edited, copy, copy_cur, copyLife>>
  BY Zenon DEF WriteCur
<1>7. queue_len' \in 0 .. CurPlace /\ areaLife' \in 0 .. life /\ omitted' \in BOOLEAN
  BY <1>6, Zenon DEF TypeInv, TypeOK
<1>8. "WRITE_QUEUE_CUR" \in Reads \cup Writes
  BY Zenon DEF Writes
<1> QED BY <1>1, <1>5, <1>6, <1>7, <1>8, PostedTyped, Zenon

LEMMA TypeNext == TypeInv /\ [Next]_vars => TypeInv'
<1> SUFFICES ASSUME TypeInv, [Next]_vars PROVE TypeInv'
  OBVIOUS
<1>1. CASE UNCHANGED vars
  BY <1>1 DEF vars, triageVars, virgin, distances, files, history, monitorVars, areas, client,
              TypeInv, TypeOK, TriageTypeOK, SizeInv, FilesInv
<1> QED BY <1>1, FuzzTyped, NextEntryTyped, ServeTyped, RestartTyped, ReadTyped,
           WrittenListTyped, WrittenCurTyped, Zenon DEF Next

\* The fuzzer and the areas it exchanges with the monitor stay well-formed: the files
\* kept and the queue within their limits, what the client holds within the struct.
THEOREM TypeCorrect == Spec => []TypeOK
<1>1. TypeInv => TypeOK
  BY DEF TypeInv
<1> QED BY <1>1, TypeInit, TypeNext, PTL DEF Spec

-----------------------------------------------------------------------------
(* Witnesses.  Witnessed speaks of the bits that were seen; what makes it    *)
(* inductive is the same of the bits that the virgin maps no longer hold.    *)

Seen(q) == UNION {q[i].bits : i \in DOMAIN q}

BitsInv == ranBits \cup (AllBits \ virgin_bits) \subseteq Seen(queue)
CrashInv == Cardinality(crashes) < KeepCrashes =>
              crashBits \cup (AllSimple \ virgin_crash) \subseteq UNION crashes
HangInv == Cardinality(hangs) < KeepHangs =>
             hangBits \cup (AllSimple \ virgin_tmout) \subseteq (UNION hangs) \cup unconfirmed
WitnessInv == BitsInv /\ CrashInv /\ HangInv

LEMMA SeenKept ==
  ASSUME NEW q, NEW r, DOMAIN q \subseteq DOMAIN r,
         \A i \in DOMAIN q : q[i].bits \subseteq r[i].bits
  PROVE  Seen(q) \subseteq Seen(r)
  BY DEF Seen

LEMMA SeenAt == ASSUME NEW q, NEW i \in DOMAIN q PROVE q[i].bits \subseteq Seen(q)
  BY DEF Seen

LEMMA RerunSeen ==
  ASSUME TypeInv, BitsInv, NEW k \in DOMAIN queue, NEW e \in Entry, NEW bits \in SUBSET AllBits,
         Rerun(k, e, bits)
  PROVE  BitsInv'
<1>1. /\ DOMAIN queue' = DOMAIN queue /\ queue'[k] = e
      /\ \A i \in DOMAIN queue : i # k => queue'[i] = queue[i]
  BY RerunEntries
<1>2. /\ virgin_bits' = virgin_bits \ bits /\ ranBits' = ranBits \cup bits
      /\ queue[k].bits \cup bits \in SUBSET e.bits
  BY Zenon DEF Rerun
<1>3. \A i \in DOMAIN queue : queue[i].bits \subseteq queue'[i].bits
  BY <1>1, <1>2
<1>4. Seen(queue) \subseteq Seen(queue')
  BY <1>1, <1>3, SeenKept
<1>5. bits \subseteq Seen(queue')
  BY <1>1, <1>2, SeenAt
<1> QED BY <1>2, <1>4, <1>5 DEF BitsInv

LEMMA BoringSeen == ASSUME BitsInv, NEW t \in Traces, Boring(t) PROVE BitsInv'
<1>1. Bits(t) \cap virgin_bits = {}
  BY DEF Boring, HasNewBits, SeesNew
<1>2. Bits(t) \subseteq AllBits
  BY BitsTyped
<1> QED BY <1>1, <1>2 DEF Boring, BitsInv, virgin

LEMMA InterestingSeen ==
  ASSUME TypeInv, BitsInv, NEW t \in Traces, NEW d \in Distances, Interesting(t, d)
  PROVE  BitsInv'
<1>1. PICK e \in Entry, bits \in SUBSET AllBits : Added(e, bits)
  BY InterestingAdds
<1>2. /\ queue' = Append(queue, e) /\ bits \in SUBSET e.bits
      /\ virgin_bits' = virgin_bits \ bits /\ ranBits' = ranBits \cup bits
  BY <1>1, Zenon DEF Added
<1>3. /\ DOMAIN queue \subseteq DOMAIN queue' /\ Len(queue) + 1 \in DOMAIN queue'
      /\ queue'[Len(queue) + 1] = e
      /\ \A i \in DOMAIN queue : queue'[i] = queue[i]
  BY <1>2 DEF TypeInv, TypeOK, TriageTypeOK
<1>4. Seen(queue) \subseteq Seen(queue')
  BY <1>3, SeenKept
<1>5. e.bits \subseteq Seen(queue')
  BY <1>3, SeenAt
<1> QED BY <1>2, <1>4, <1>5 DEF BitsInv

\* The entries served or written keep their traces.
LEMMA SameBitsSeen ==
  ASSUME BitsInv, DOMAIN queue' = DOMAIN queue,
         \A i \in DOMAIN queue : queue'[i].bits = queue[i].bits,
         UNCHANGED <<virgin_bits, ranBits>>
  PROVE  BitsInv'
<1>1. Seen(queue) \subseteq Seen(queue')
  BY SeenKept
<1> QED BY <1>1 DEF BitsInv

\* A trace in which the map sees nothing new is in what has been seen before.
LEMMA NothingNew ==
  ASSUME NEW map, NEW t \in Traces, ~SeesNew(map, Simplified(t))
  PROVE  Simplified(t) \subseteq AllSimple \ map
<1>1. Simplified(t) \subseteq AllSimple
  BY SimplifiedTyped
<1> QED BY <1>1 DEF SeesNew

LEMMA KeepAsCrashSeen ==
  ASSUME TypeInv, CrashInv, NEW t \in Traces, KeepAsCrash(t)
  PROVE  CrashInv'
<1> SUFFICES ASSUME Cardinality(crashes') < KeepCrashes
             PROVE  crashBits' \cup (AllSimple \ virgin_crash') \subseteq UNION crashes'
  BY DEF CrashInv
<1>1. IsFiniteSet(crashes) /\ Cardinality(crashes) \in Nat
  BY FS_CardinalityType DEF TypeInv, FilesInv
<1>2. crashBits' = crashBits \cup Simplified(t)
  BY DEF KeepAsCrash
<1>3. CASE Cardinality(crashes) < KeepCrashes /\ SeesNew(virgin_crash, Simplified(t))
  <2>1. /\ crashes' = crashes \cup {Simplified(t)}
        /\ virgin_crash' = virgin_crash \ Simplified(t)
    BY <1>3 DEF KeepAsCrash
  <2> QED BY <1>2, <1>3, <2>1 DEF CrashInv
<1>4. CASE ~(Cardinality(crashes) < KeepCrashes /\ SeesNew(virgin_crash, Simplified(t)))
  <2>1. UNCHANGED <<crashes, virgin_crash>>
    BY <1>4 DEF KeepAsCrash
  <2>2. Simplified(t) \subseteq AllSimple \ virgin_crash
    BY <1>4, <2>1, NothingNew
  <2> QED BY <1>2, <2>1, <2>2 DEF CrashInv
<1> QED BY <1>3, <1>4

LEMMA HangSeen ==
  ASSUME TypeInv, CrashInv, HangInv, NEW t \in Traces, Hang(t)
  PROVE  CrashInv' /\ HangInv'
<1>1. CrashInv'
  <2>1. CASE UNCHANGED <<crashes, virgin_crash, crashBits>>
    BY <2>1 DEF CrashInv
  <2>2. CASE \E t2 \in Traces : KeepAsCrash(t2)
    BY <2>2, KeepAsCrashSeen
  <2> QED BY <2>1, <2>2 DEF Hang
<1>2. HangInv'
  <2> SUFFICES ASSUME Cardinality(hangs') < KeepHangs
               PROVE  hangBits' \cup (AllSimple \ virgin_tmout')
                        \subseteq (UNION hangs') \cup unconfirmed'
    BY DEF HangInv
  <2>1. hangBits' = hangBits \cup Simplified(t)
    BY DEF Hang
  <2>2. CASE Cardinality(hangs) < KeepHangs /\ SeesNew(virgin_tmout, Simplified(t))
    <3>1. /\ virgin_tmout' = virgin_tmout \ Simplified(t)
          /\ \/ hangs' = hangs \cup {Simplified(t)} /\ UNCHANGED unconfirmed
             \/ unconfirmed' = unconfirmed \cup Simplified(t) /\ UNCHANGED hangs
      BY <2>2 DEF Hang
    <3> QED BY <2>1, <2>2, <3>1 DEF HangInv
  <2>3. CASE ~(Cardinality(hangs) < KeepHangs /\ SeesNew(virgin_tmout, Simplified(t)))
    <3>1. UNCHANGED <<virgin_tmout, hangs, unconfirmed>>
      BY <2>3 DEF Hang
    <3>2. Simplified(t) \subseteq AllSimple \ virgin_tmout
      BY <2>3, <3>1, NothingNew
    <3> QED BY <2>1, <3>1, <3>2 DEF HangInv
  <2> QED BY <2>2, <2>3
<1> QED BY <1>1, <1>2

LEMMA FuzzSeen == ASSUME TypeInv, WitnessInv, FuzzStep PROVE WitnessInv'
<1> USE DEF WitnessInv
<1>1. CASE DryRun
  <2>1. BitsInv'
    BY <1>1, DryRunReruns, RerunSeen
  <2>2. CrashInv' /\ HangInv'
    BY <1>1 DEF DryRun, CrashInv, HangInv, files
  <2> QED BY <2>1, <2>2
<1>2. ASSUME NEW t \in Traces, Boring(t) PROVE WitnessInv'
  <2>1. BitsInv'
    BY <1>2, BoringSeen
  <2>2. CrashInv' /\ HangInv'
    BY <1>2 DEF Boring, CrashInv, HangInv, files, virgin
  <2> QED BY <2>1, <2>2
<1>3. ASSUME NEW t \in Traces, NEW d \in Distances, Interesting(t, d) PROVE WitnessInv'
  <2>1. BitsInv'
    BY <1>3, InterestingSeen
  <2>2. CrashInv' /\ HangInv'
    BY <1>3 DEF Interesting, CrashInv, HangInv, files
  <2> QED BY <2>1, <2>2
<1>4. ASSUME NEW t \in Traces, Crash(t) PROVE WitnessInv'
  <2>1. CrashInv'
    BY <1>4, KeepAsCrashSeen DEF Crash
  <2>2. BitsInv' /\ HangInv'
    BY <1>4 DEF Crash, BitsInv, HangInv, Seen
  <2> QED BY <2>1, <2>2
<1>5. ASSUME NEW t \in Traces, Hang(t) PROVE WitnessInv'
  <2>1. CrashInv' /\ HangInv'
    BY <1>5, HangSeen
  <2>2. BitsInv'
    BY <1>5 DEF Hang, BitsInv, Seen
  <2> QED BY <2>1, <2>2
<1> QED BY <1>1, <1>2, <1>3, <1>4, <1>5, Zenon DEF FuzzStep

\* A service keeps the places of the entries, their traces and their names.
LEMMA ServedEntries ==
  ASSUME TypeInv, Serve
  PROVE  /\ DOMAIN queue' = DOMAIN queue
         /\ \A i \in DOMAIN queue : /\ queue'[i].bits = queue[i].bits
                                   /\ queue'[i].fname = queue[i].fname
<1>1. /\ queue \in [DOMAIN queue -> Entry] /\ DOMAIN queue = 1 .. Len(queue)
      /\ Len(queue) \in Nat /\ cur \in DOMAIN queue /\ polling
      /\ area \in [1 .. CurPlace -> AreaEntry] /\ queue_len \in 0 .. CurPlace
  <2>1. polling
    BY Zenon DEF Serve
  <2> QED BY <2>1, CurInside DEF TypeInv, TypeOK, TriageTypeOK
<1>2. CASE ServeReadQueue
  <2>1. UNCHANGED queue \/ queue' = [i \in DOMAIN queue |-> Scored(queue[i])]
    BY <1>2, Zenon DEF ServeReadQueue
  <2> QED BY <1>1, <2>1, ScoredTyped
<1>3. CASE ServeWriteQueue
  <2>1. \/ UNCHANGED queue
        \/ queue' = [i \in DOMAIN queue |->
                       IF i <= queue_len THEN Loaded(queue[i], area[i]) ELSE queue[i]]
    BY <1>3, Zenon DEF ServeWriteQueue
  <2>2. \A i \in DOMAIN queue : i <= queue_len => area[i] \in AreaEntry
    BY <1>1, CurPlaceTyped
  <2> QED BY <1>1, <2>1, <2>2, LoadedTyped
<1>4. CASE ServeReadCur
  <2>1. queue' = [queue EXCEPT ![cur] = Scored(@)]
    BY <1>4, Zenon DEF ServeReadCur
  <2> QED BY <1>1, <2>1, ScoredTyped
<1>5. CASE ServeWriteCur
  <2>1. queue' = [queue EXCEPT ![cur] = Loaded(@, area[CurPlace])]
    BY <1>5, Zenon DEF ServeWriteCur
  <2>2. area[CurPlace] \in AreaEntry
    BY <1>1, CurPlaceTyped
  <2> QED BY <1>1, <2>1, <2>2, LoadedTyped
<1> QED BY <1>2, <1>3, <1>4, <1>5 DEF Serve

LEMMA RestartSeen == ASSUME Restart PROVE WitnessInv'
<1>1. /\ virgin_bits' = AllBits /\ virgin_tmout' = AllSimple /\ virgin_crash' = AllSimple
      /\ ranBits' = {} /\ crashBits' = {} /\ hangBits' = {}
  BY Zenon DEF Restart
<1>2. BitsInv'
  BY <1>1 DEF BitsInv
<1>3. CrashInv' /\ HangInv'
  BY <1>1 DEF CrashInv, HangInv
<1> QED BY <1>2, <1>3 DEF WitnessInv

LEMMA WitnessNext == TypeInv /\ WitnessInv /\ [Next]_vars => WitnessInv'
<1> SUFFICES ASSUME TypeInv, WitnessInv, [Next]_vars PROVE WitnessInv'
  OBVIOUS
<1>1. CASE UNCHANGED triageVars
  BY <1>1 DEF triageVars, virgin, files, history, WitnessInv, BitsInv, CrashInv, HangInv, Seen
<1>2. CASE FuzzStep
  BY <1>2, FuzzSeen
<1>7. CASE NextEntry
  <2>1. PICK e \in Entry, bits \in SUBSET AllBits : Rerun(cur', e, bits)
    BY <1>7, NextEntryReruns
  <2>2. PICK k \in DOMAIN queue : k = cur'
    BY <1>7, NextEntryReruns
  <2>3. BitsInv'
    BY <2>1, <2>2, RerunSeen DEF WitnessInv
  <2>4. CrashInv' /\ HangInv'
    BY <2>1 DEF Rerun, WitnessInv, CrashInv, HangInv, files
  <2> QED BY <2>3, <2>4 DEF WitnessInv
<1>3. CASE Serve
  <2>1. /\ DOMAIN queue' = DOMAIN queue
        /\ \A i \in DOMAIN queue : queue'[i].bits = queue[i].bits
    BY <1>3, ServedEntries
  <2>2. UNCHANGED <<virgin, files, history>>
    BY <1>3, Zenon DEF Serve
  <2>3. BitsInv'
    BY <2>1, <2>2, SameBitsSeen DEF WitnessInv, virgin, history
  <2>4. CrashInv' /\ HangInv'
    BY <2>2 DEF WitnessInv, CrashInv, HangInv, virgin, files, history
  <2> QED BY <2>3, <2>4 DEF WitnessInv
<1>4. CASE Restart
  BY <1>4, RestartSeen
<1>5. CASE Read \/ WriteQueue \/ WriteCur
  BY <1>1, <1>5, Zenon DEF Read, WriteQueue, WriteCur
<1>6. CASE UNCHANGED vars
  BY <1>1, <1>6, Zenon DEF vars
<1> QED BY <1>2, <1>3, <1>4, <1>5, <1>6, <1>7, Zenon DEF Next

\* What the virgin maps no longer ask for has a witness: in the traces of a queue
\* entry, or in crashes/ and hangs/ while the limits on these files are not reached.
THEOREM WitnessedHolds == Spec => []Witnessed
<1>1. Init => WitnessInv
  <2> SUFFICES ASSUME Init PROVE WitnessInv
    OBVIOUS
  <2> QED BY DEF Init, TriageInit, WitnessInv, BitsInv, CrashInv, HangInv
<1>2. WitnessInv => Witnessed
  BY DEF WitnessInv, BitsInv, CrashInv, HangInv, Witnessed, Seen
<1> QED BY <1>1, <1>2, TypeInit, TypeNext, WitnessNext, PTL DEF Spec

-----------------------------------------------------------------------------
(* Requests and the fuzzer's life.                                           *)

\* A list read in this session, in the area or with the client, is not longer than the
\* queue, which only grows until the next one; and what has ended the fuzzer stays
\* true until it is started again.
SurviveInv ==
  /\ areaLife = life => queue_len <= Len(queue)
  /\ copyLife = life => Len(copy) <= Len(queue)
  /\ ~alive => \/ op = "READ_QUEUE" /\ Len(queue) > CurPlace
               \/ op = "WRITE_QUEUE" /\ queue_len > Len(queue) /\ areaLife # life

LEMMA FuzzSurvives == ASSUME TypeInv, SurviveInv, FuzzStep PROVE SurviveInv'
<1>1. Len(queue) <= Len(queue') /\ UNCHANGED monitorVars /\ TriageInv'
  BY FuzzStepTyped
<1>2. /\ Len(queue) \in Nat /\ Len(queue') \in Nat /\ Len(copy) \in Nat
      /\ queue_len \in Nat
  BY <1>1, CurPlaceTyped DEF TypeInv, TypeOK, TriageInv, TriageTypeOK
<1>3. UNCHANGED <<areaLife, life, queue_len, copyLife, copy, alive>> /\ alive
  BY <1>1, Zenon DEF FuzzStep, monitorVars, areas, client
<1> QED BY <1>1, <1>2, <1>3 DEF SurviveInv

LEMMA ServeSurvives == ASSUME TypeInv, SurviveInv, Serve PROVE SurviveInv'
<1>1. /\ DOMAIN queue' = DOMAIN queue /\ queue \in Seq(Entry)
      /\ queue_len \in Nat /\ CurPlace \in Nat
      /\ area \in [1 .. CurPlace -> AreaEntry]
  BY ServedEntries, CurPlaceTyped DEF TypeInv, TypeOK, TriageTypeOK
<1>2. Len(queue') = Len(queue) /\ Len(queue) \in Nat
  <2>1. queue' \in Seq(Entry)
    BY ServeTyped DEF TypeInv, TypeOK, TriageTypeOK
  <2> QED BY <1>1, <2>1
<1>3. op' = (IF alive' THEN "none" ELSE op) /\ life' = life /\ alive
  BY Zenon DEF Serve
<1>4. CASE ServeReadQueue
  <2>1. CASE Len(queue) > CurPlace
    <3>1. /\ UNCHANGED <<queue_len, areaLife, copy, copyLife>>
          /\ op = "READ_QUEUE" /\ alive' = FALSE
      BY <1>4, <2>1, Zenon DEF ServeReadQueue
    <3> QED BY <1>2, <1>3, <2>1, <3>1 DEF SurviveInv
  <2>2. CASE ~(Len(queue) > CurPlace)
    <3>1. /\ queue_len' = Len(queue) /\ areaLife' = life /\ copyLife' = life
          /\ copy' = SubSeq(area', 1, queue_len') /\ alive' = alive
      BY <1>4, <2>2, Zenon DEF ServeReadQueue
    <3>2. area' \in Seq(AreaEntry) /\ Len(area') = CurPlace
      <4>1. area' \in [1 .. CurPlace -> AreaEntry]
        BY <1>4, ReadQueueTyped
      <4> QED BY <1>1, <4>1, Listed
    <3>3. Len(copy') = Len(queue)
      BY <1>1, <1>2, <2>2, <3>1, <3>2
    <3> QED BY <1>2, <1>3, <3>1, <3>3 DEF SurviveInv
  <2> QED BY <2>1, <2>2
<1>5. CASE ServeWriteQueue
  <2>1. UNCHANGED <<queue_len, areaLife, copy, copyLife>> /\ op = "WRITE_QUEUE"
    BY <1>5, Zenon DEF ServeWriteQueue
  <2>2. alive' \/ (queue_len > Len(queue) /\ areaLife # life)
    <3>1. CASE queue_len > Len(queue)
      BY <1>1, <1>2, <2>1, <3>1 DEF SurviveInv
    <3>2. CASE ~(queue_len > Len(queue))
      BY <1>3, <1>5, <3>2, Zenon DEF ServeWriteQueue
    <3> QED BY <3>1, <3>2
  <2> QED BY <1>2, <1>3, <2>1, <2>2 DEF SurviveInv
<1>6. CASE ServeReadCur \/ ServeWriteCur
  <2>1. UNCHANGED <<alive, queue_len, areaLife, copy, copyLife>>
    BY <1>6, Zenon DEF ServeReadCur, ServeWriteCur
  <2> QED BY <1>2, <1>3, <2>1 DEF SurviveInv
<1> QED BY <1>4, <1>5, <1>6 DEF Serve

LEMMA SurviveNext == TypeInv /\ SurviveInv /\ [Next]_vars => SurviveInv'
<1> SUFFICES ASSUME TypeInv, SurviveInv, [Next]_vars PROVE SurviveInv'
  OBVIOUS
<1>1. CASE FuzzStep
  BY <1>1, FuzzSurvives
<1>2. CASE NextEntry
  <2>1. Len(queue') = Len(queue)
    <3>1. PICK k \in DOMAIN queue, e \in Entry, bits \in SUBSET AllBits : Rerun(k, e, bits)
      BY <1>2, NextEntryReruns
    <3> QED BY <3>1, RerunEntries
  <2>2. UNCHANGED <<areas, alive, life, client>>
    BY <1>2, Zenon DEF NextEntry
  <2> QED BY <2>1, <2>2 DEF areas, client, SurviveInv
<1>3. CASE Serve
  BY <1>3, ServeSurvives
<1>4. CASE Restart
  <2>1. /\ life' = life + 1 /\ areaLife' = 0 /\ copyLife' = copyLife /\ alive' = TRUE
    BY <1>4, Zenon DEF Restart, client
  <2>2. life \in Nat \ {0} /\ copyLife \in 0 .. life
    BY RequestsAssumption DEF TypeInv, TypeOK
  <2> QED BY <2>1, <2>2 DEF SurviveInv
<1>5. CASE Read
  <2>1. UNCHANGED <<queue, queue_len, areaLife, life, copyLife, copy, alive>> /\ op = "none"
    BY <1>5, Zenon DEF Read, Post, triageVars
  <2> QED BY <2>1 DEF SurviveInv
<1>6. CASE WriteQueue
  <2>1. UNCHANGED <<queue, life, copyLife, copy, alive>> /\ op = "none"
    BY <1>6, Zenon DEF WriteQueue, SendList, Post, triageVars
  <2>2. (areaLife' = copyLife /\ queue_len' = Len(copy)) \/ areaLife' = 0
    BY <1>6, ListSent, Zenon
  <2>3. life # 0
    BY DEF TypeInv, TypeOK
  <2> QED BY <2>1, <2>2, <2>3 DEF SurviveInv
<1>7. CASE WriteCur
  <2>1. UNCHANGED <<queue, queue_len, areaLife, life, copyLife, copy, alive>> /\ op = "none"
    BY <1>7, Zenon DEF WriteCur, Post, triageVars
  <2> QED BY <2>1 DEF SurviveInv
<1>8. CASE UNCHANGED vars
  BY <1>8 DEF vars, triageVars, monitorVars, areas, client, SurviveInv
<1> QED BY <1>1, <1>2, <1>3, <1>4, <1>5, <1>6, <1>7, <1>8, Zenon DEF Next

\* A request ends the fuzzer only by reading a queue that has outgrown the array by more
\* than one entry, or by writing a list longer than the queue that is not one read in
\* this session: made up, or of an earlier session.
THEOREM SurvivesRequestsHolds == Spec => []SurvivesRequests
<1>1. Init => SurviveInv
  <2> SUFFICES ASSUME Init PROVE SurviveInv
    OBVIOUS
  <2> QED BY DEF Init, SurviveInv
<1>2. SurviveInv => SurvivesRequests
  BY DEF SurviveInv, SurvivesRequests
<1> QED BY <1>1, <1>2, TypeInit, TypeNext, SurviveNext, PTL DEF Spec

\* To serve a read leaves what the monitor shows of an entry, and the entry's score,
\* as they were.
THEOREM ReadsHarmlessHolds == Spec => ReadsHarmless
<1> DEFINE Harmless == \A i \in DOMAIN queue :
                         /\ InArea(queue'[i]) = InArea(queue[i])
                         /\ CalculateScore(queue[i])' = CalculateScore(queue[i])
<1>1. TypeInv /\ [Next]_vars => [ReadServed => Harmless]_vars
  <2> SUFFICES ASSUME TypeInv, ReadServed, NEW i \in DOMAIN queue
               PROVE  /\ InArea(queue'[i]) = InArea(queue[i])
                      /\ CalculateScore(queue[i])' = CalculateScore(queue[i])
    BY Zenon
  <2>1. queue \in [DOMAIN queue -> Entry] /\ cur \in DOMAIN queue
    <3>1. polling
      BY Zenon DEF ReadServed, Serve
    <3> QED BY <3>1, CurInside DEF TypeInv, TypeOK, TriageTypeOK
  <2>2. op \in Reads /\ UNCHANGED distances
    BY Zenon DEF ReadServed, Serve
  <2>3. queue'[i] = queue[i] \/ queue'[i] = Scored(queue[i])
    <3>1. CASE ServeReadQueue
      <4>1. UNCHANGED queue \/ queue' = [k \in DOMAIN queue |-> Scored(queue[k])]
        BY <3>1, Zenon DEF ServeReadQueue
      <4> QED BY <4>1
    <3>2. CASE ServeReadCur
      <4>1. queue' = [queue EXCEPT ![cur] = Scored(@)]
        BY <3>2, Zenon DEF ServeReadCur
      <4> QED BY <2>1, <4>1
    <3>3. ~ServeWriteQueue /\ ~ServeWriteCur
      BY <2>2 DEF Reads, ServeWriteQueue, ServeWriteCur
    <3> QED BY <3>1, <3>2, <3>3, Zenon DEF ReadServed, Serve
  <2>4. /\ InArea(queue'[i]) = InArea(queue[i])
        /\ queue'[i].distance = queue[i].distance
    BY <2>1, <2>3, ScoredTyped
  <2>5. CalculateScore(queue[i])' = CalculateScore(queue[i])
    <3>1. UNCHANGED <<max_distance, min_distance>>
      BY <2>2 DEF distances
    <3> QED BY <2>4, <3>1 DEF CalculateScore
  <2> QED BY <2>4, <2>5
<1> QED BY <1>1, TypeInit, TypeNext, PTL DEF Spec, ReadsHarmless

-----------------------------------------------------------------------------
(* What a client writes lands.                                               *)

\* Before the dry run is over no request is served, and nothing of this session has been
\* read.  Afterwards a list read in it names the entries of the queue place by place, as
\* the list that is written back does, and until a write is served the array has their
\* distances, save those that a calibration has found since.
ListInv ==
  /\ dry < Len(queue) => copyLife # life /\ areaLife # life /\ moved /\ ~polling
  /\ copyLife = life => \A i \in 1 .. Len(copy) : copy[i].fname = queue[i].fname
  /\ areaLife = life /\ op = "WRITE_QUEUE" =>
       /\ copyLife = life /\ queue_len = Len(copy)
       /\ \A i \in 1 .. queue_len : area[i].fname = queue[i].fname
  /\ copyLife = life /\ ~edited /\ (op = "WRITE_QUEUE" => omitted) =>
       \A i \in 1 .. Len(copy) :
         i <= MaxQueueLen /\ area[i].distance > 0 => area[i].distance = queue[i].distance

\* And a queue_cur read since the fuzzer took up an entry names that one.
CurInv == ~moved => cur > 0 /\ copy_cur.fname = queue[cur].fname

LandInv == ListInv /\ CurInv

LEMMA Lengths ==
  ASSUME TypeInv
  PROVE  /\ queue \in [DOMAIN queue -> Entry] /\ DOMAIN queue = 1 .. Len(queue)
         /\ Len(queue) \in Nat /\ cur \in 0 .. Len(queue) /\ dry \in 0 .. Len(queue)
         /\ area \in [1 .. CurPlace -> AreaEntry] /\ queue_len \in 0 .. CurPlace
         /\ copy \in [1 .. Len(copy) -> AreaEntry] /\ Len(copy) \in 0 .. CurPlace
         /\ DOMAIN copy = 1 .. Len(copy)
         /\ copy_cur \in AreaEntry /\ life \in Nat \ {0} /\ copyLife \in 0 .. life
         /\ polling => cur \in DOMAIN queue
  BY RequestsAssumption, CurPlaceTyped, CurInside DEF TypeInv, TypeOK, TriageTypeOK

\* Nothing read of this session is disturbed by what the fuzzer does with the queue.
LEMMA FuzzKeeps ==
  ASSUME TypeInv, FuzzStep
  PROVE  \/ dry < Len(queue) /\ Len(queue') = Len(queue)
         \/ /\ dry' = Len(queue')
            /\ \A i \in DOMAIN queue : queue'[i] = queue[i]
<1>1. CASE DryRun
  BY <1>1, DryRunTyped, Lengths DEF DryRun, Fuzzing
<1>2. ASSUME NEW t \in Traces, Boring(t) \/ Crash(t) \/ Hang(t)
      PROVE  dry' = Len(queue') /\ UNCHANGED queue
  BY <1>2 DEF Boring, Crash, Hang, Fuzzing
<1>3. ASSUME NEW t \in Traces, NEW d \in Distances, Interesting(t, d)
      PROVE  dry' = Len(queue') /\ \A i \in DOMAIN queue : queue'[i] = queue[i]
  <2>1. \E e : queue' = Append(queue, e)
    BY <1>3, Zenon DEF Interesting
  <2>2. queue \in Seq(Entry)
    BY DEF TypeInv, TypeOK, TriageTypeOK
  <2>3. \A i \in DOMAIN queue : queue'[i] = queue[i]
    BY <2>1, <2>2
  <2>4. Len(queue') = Len(queue) + 1
    BY <1>3, InterestingTyped
  <2> QED BY <1>3, <2>3, <2>4 DEF Interesting, Fuzzing
<1> QED BY <1>1, <1>2, <1>3 DEF FuzzStep

LEMMA FuzzLands == ASSUME TypeInv, SurviveInv, LandInv, FuzzStep PROVE LandInv'
<1>1. UNCHANGED <<op, area, queue_len, areaLife, omitted, cur, polling, life, moved, edited,
                  copy, copy_cur, copyLife>>
  BY FuzzStepTyped DEF monitorVars, areas, client
<1>2. CASE dry < Len(queue)
  <2>1. copyLife # life /\ areaLife # life /\ moved /\ ~polling
    BY <1>2 DEF LandInv, ListInv
  <2> QED BY <1>1, <2>1 DEF LandInv, ListInv, CurInv
<1>3. CASE /\ dry' = Len(queue')
           /\ \A i \in DOMAIN queue : queue'[i] = queue[i]
  <2>1. /\ copyLife = life => \A i \in 1 .. Len(copy) : i \in DOMAIN queue
        /\ areaLife = life => \A i \in 1 .. queue_len : i \in DOMAIN queue
    BY Lengths DEF SurviveInv
  <2>2. ~(dry' < Len(queue'))
    BY <1>3, FuzzTyped DEF TypeInv, TypeOK, TriageTypeOK
  <2>6. cur > 0 => cur \in DOMAIN queue
    BY Lengths
  <2>3. ListInv'
    BY <1>1, <1>3, <2>1, <2>2 DEF LandInv, ListInv
  <2>4. CurInv'
    BY <1>1, <1>3, <2>6 DEF LandInv, CurInv
  <2> QED BY <2>3, <2>4 DEF LandInv
<1> QED BY <1>2, <1>3, FuzzKeeps

\* Taking up an entry keeps the names, and the distances that are known.
LEMMA NextEntryLands == ASSUME TypeInv, SurviveInv, LandInv, NextEntry PROVE LandInv'
<1>1. UNCHANGED <<op, area, queue_len, areaLife, omitted, life, edited,
                  copy, copy_cur, copyLife, dry>> /\ moved' /\ dry = Len(queue)
  <2>1. UNCHANGED dry
    BY NextEntryReruns
  <2> QED BY <2>1, Zenon DEF NextEntry, Fuzzing, areas, client
<1>2. PICK k \in DOMAIN queue, e \in Entry, bits \in SUBSET AllBits : Rerun(k, e, bits)
  BY NextEntryReruns
<1>3. \A i \in DOMAIN queue :
        /\ queue'[i].fname = queue[i].fname
        /\ queue[i].distance > 0 => queue'[i].distance = queue[i].distance
  BY <1>2, RerunEntries DEF Rerun
<1>4. /\ copyLife = life => \A i \in 1 .. Len(copy) : i \in DOMAIN queue
      /\ areaLife = life => \A i \in 1 .. queue_len : i \in DOMAIN queue
  BY Lengths DEF SurviveInv
<1>5. ~(dry' < Len(queue'))
  BY <1>1, <1>2, RerunEntries, Lengths
<1> QED BY <1>1, <1>3, <1>4, <1>5 DEF LandInv, ListInv, CurInv

\* No request is served during the dry run.
LEMMA ServedFuzzing == ASSUME TypeInv, LandInv, Serve PROVE dry = Len(queue)
<1>1. polling
  BY Zenon DEF Serve
<1> QED BY <1>1, Lengths DEF LandInv, ListInv

LEMMA ReadQueueLands ==
  ASSUME TypeInv, SurviveInv, LandInv, Serve, ServeReadQueue
  PROVE  LandInv'
<1>1. /\ op' # "WRITE_QUEUE" /\ UNCHANGED <<cur, life, copy_cur, moved, dry>>
      /\ dry = Len(queue)
  BY ServedFuzzing DEF Serve, ServeReadQueue
<1>2. edited' = edited
  <2>1. op \notin Writes /\ edited \in BOOLEAN /\ edited' = (edited \/ op \in Writes)
    <3>1. op \notin Writes
      BY DEF ServeReadQueue, Writes
    <3> QED BY <3>1, Zenon DEF Serve, TypeInv, TypeOK
  <2> QED BY <2>1, Zenon
<1>3. ~(dry' < Len(queue'))
  <2>1. queue' \in Seq(Entry) /\ DOMAIN queue' = DOMAIN queue
    BY ServeTyped, ServedEntries DEF TypeInv, TypeOK, TriageTypeOK
  <2> QED BY <1>1, <2>1, ServedFuzzing, Lengths
<1>4. \A i \in DOMAIN queue : queue'[i].fname = queue[i].fname
  BY ServedEntries
<1>5. CurInv'
  BY <1>1, <1>4, Lengths DEF LandInv, CurInv
<1>6. CASE Len(queue) > CurPlace
  <2>1. UNCHANGED <<queue, area, queue_len, areaLife, copy, copyLife>>
    BY <1>6 DEF ServeReadQueue
  <2>2. op # "WRITE_QUEUE"
    BY DEF ServeReadQueue
  <2> QED BY <1>1, <1>2, <1>3, <1>5, <2>1, <2>2 DEF LandInv, ListInv
<1>7. CASE ~(Len(queue) > CurPlace)
  <2>1. /\ area' = [i \in DOMAIN area |->
                      IF i \in DOMAIN queue THEN InArea(queue[i]) ELSE area[i]]
        /\ queue_len' = Len(queue)
        /\ queue' = [i \in DOMAIN queue |-> Scored(queue[i])]
        /\ copy' = SubSeq(area', 1, queue_len')
    BY <1>7, Zenon DEF ServeReadQueue
  <2>2. area' \in Seq(AreaEntry) /\ Len(area') = CurPlace
    BY ReadQueueTyped, CurPlaceTyped, Listed
  <2>3. Len(copy') = Len(queue) /\ \A i \in 1 .. Len(queue) : copy'[i] = area'[i]
    BY <1>7, <2>1, <2>2, Lengths, CurPlaceTyped
  <2>4. \A i \in 1 .. Len(queue) : /\ area'[i] = InArea(queue[i])
                                   /\ queue'[i] = Scored(queue[i])
    BY <1>7, <2>1, Lengths, CurPlaceTyped
  <2>5. \A i \in 1 .. Len(queue) : /\ area'[i].fname = queue'[i].fname
                                   /\ area'[i].distance = queue'[i].distance
    <3> SUFFICES ASSUME NEW i \in 1 .. Len(queue)
                 PROVE  /\ area'[i].fname = queue'[i].fname
                        /\ area'[i].distance = queue'[i].distance
      OBVIOUS
    <3>1. queue[i] \in Entry /\ area'[i] = InArea(queue[i]) /\ queue'[i] = Scored(queue[i])
      BY <2>4, Lengths
    <3>2. /\ Scored(queue[i]).fname = queue[i].fname
          /\ Scored(queue[i]).distance = queue[i].distance
      BY <3>1, ScoredTyped
    <3>3. /\ InArea(queue[i]).fname = queue[i].fname
          /\ InArea(queue[i]).distance = queue[i].distance
      BY DEF InArea
    <3> QED BY <3>1, <3>2, <3>3
  <2>6. ListInv'
    BY <1>1, <1>3, <2>3, <2>5 DEF ListInv
  <2> QED BY <1>5, <2>6 DEF LandInv
<1> QED BY <1>6, <1>7

\* Served writes end what is known of the distances, and leave the names.
LEMMA WritesLandInv ==
  ASSUME TypeInv, SurviveInv, LandInv, Serve, ServeWriteQueue \/ ServeWriteCur
  PROVE  LandInv'
<1>1. /\ op' = "none" \/ op' = op
      /\ UNCHANGED <<cur, life, copy_cur, moved, dry, area, queue_len, areaLife, copy, copyLife>>
  BY Zenon DEF Serve, ServeWriteQueue, ServeWriteCur
<1>2. edited'
  <2>1. op \in Writes
    BY DEF ServeWriteQueue, ServeWriteCur, Writes
  <2> QED BY <2>1, Zenon DEF Serve
<1>3. ~(dry' < Len(queue'))
  <2>1. queue' \in Seq(Entry) /\ DOMAIN queue' = DOMAIN queue
    BY ServeTyped, ServedEntries DEF TypeInv, TypeOK, TriageTypeOK
  <2> QED BY <1>1, <2>1, ServedFuzzing, Lengths
<1>4. \A i \in DOMAIN queue : queue'[i].fname = queue[i].fname
  BY ServedEntries
<1>5. /\ copyLife = life => \A i \in 1 .. Len(copy) : i \in DOMAIN queue
      /\ areaLife = life => \A i \in 1 .. queue_len : i \in DOMAIN queue
  BY Lengths DEF SurviveInv
<1>6. CurInv'
  BY <1>1, <1>4, Lengths DEF LandInv, CurInv
<1>7. ListInv'
  BY <1>1, <1>2, <1>3, <1>4, <1>5 DEF LandInv, ListInv
<1> QED BY <1>6, <1>7 DEF LandInv

LEMMA ReadCurLands ==
  ASSUME TypeInv, SurviveInv, LandInv, Serve, ServeReadCur
  PROVE  LandInv'
<1>1. /\ op' # "WRITE_QUEUE" /\ cur \in DOMAIN queue /\ cur > 0
      /\ UNCHANGED <<cur, life, dry, queue_len, areaLife, copy, copyLife>>
  <2>1. polling
    BY Zenon DEF Serve
  <2> QED BY <2>1, Lengths DEF Serve, ServeReadCur
<1>2. edited' = edited
  <2>1. op \notin Writes /\ edited \in BOOLEAN /\ edited' = (edited \/ op \in Writes)
    <3>1. op \notin Writes
      BY DEF ServeReadCur, Writes
    <3> QED BY <3>1, Zenon DEF Serve, TypeInv, TypeOK
  <2> QED BY <2>1, Zenon
<1>3. ~(dry' < Len(queue'))
  <2>1. queue' \in Seq(Entry) /\ DOMAIN queue' = DOMAIN queue
    BY ServeTyped, ServedEntries DEF TypeInv, TypeOK, TriageTypeOK
  <2> QED BY <1>1, <2>1, ServedFuzzing, Lengths
<1>4. /\ area' = [area EXCEPT ![CurPlace] = InArea(queue[cur])]
      /\ queue' = [queue EXCEPT ![cur] = Scored(@)]
      /\ copy_cur' = area'[CurPlace]
  BY Zenon DEF ServeReadCur
<1>5. \A i \in DOMAIN queue : /\ queue'[i].fname = queue[i].fname
                              /\ queue'[i].distance = queue[i].distance
  BY <1>4, Lengths, ScoredTyped
<1>6. copy_cur'.fname = queue'[cur].fname
  <2>1. copy_cur' = InArea(queue[cur])
    BY <1>4, Lengths, CurPlaceTyped
  <2>2. queue'[cur].fname = queue[cur].fname /\ InArea(queue[cur]).fname = queue[cur].fname
    BY <1>1, <1>5 DEF InArea
  <2> QED BY <1>1, <2>1, <2>2
<1>7. \A i \in 1 .. MaxQueueLen : area'[i] = area[i]
  BY <1>4, Lengths, CurPlaceTyped, LimitAssumption DEF CurPlace
<1>8. copyLife = life => \A i \in 1 .. Len(copy) : i \in DOMAIN queue
  BY Lengths DEF SurviveInv
<1>9. op # "WRITE_QUEUE"
  BY DEF ServeReadCur
<1>10. copyLife = life /\ ~edited =>
         \A i \in 1 .. Len(copy) :
           i <= MaxQueueLen /\ area'[i].distance > 0 => area'[i].distance = queue'[i].distance
  <2> SUFFICES ASSUME copyLife = life, ~edited, NEW i \in 1 .. Len(copy), i <= MaxQueueLen,
                      area'[i].distance > 0
               PROVE  area'[i].distance = queue'[i].distance
    OBVIOUS
  <2>1. i \in DOMAIN queue /\ i \in 1 .. MaxQueueLen
    BY <1>8, LimitAssumption
  <2>2. area[i].distance = queue[i].distance
    BY <1>7, <1>9, <2>1 DEF LandInv, ListInv
  <2> QED BY <1>5, <1>7, <2>1, <2>2
<1>11. copyLife = life => \A i \in 1 .. Len(copy) : copy[i].fname = queue'[i].fname
  BY <1>5, <1>8 DEF LandInv, ListInv
<1>12. ListInv'
  BY <1>1, <1>2, <1>3, <1>10, <1>11 DEF ListInv
<1> QED BY <1>1, <1>6, <1>12 DEF LandInv, CurInv

LEMMA RestartLands == ASSUME TypeInv, Restart PROVE LandInv'
<1>1. /\ life' = life + 1 /\ areaLife' = 0 /\ copyLife' = copyLife
      /\ op' = "none" /\ moved' = TRUE /\ polling' = FALSE
  BY Zenon DEF Restart, client
<1> QED BY <1>1, Lengths DEF LandInv, ListInv, CurInv

LEMMA ReadLands == ASSUME LandInv, Read PROVE LandInv'
<1>1. UNCHANGED <<queue, dry, area, queue_len, areaLife, omitted, cur, polling, life, moved,
                  edited, copy, copy_cur, copyLife>>
  BY Zenon DEF Read, triageVars
<1>2. op = "none" /\ op' \in Reads
  BY Zenon DEF Read, Post
<1> QED BY <1>1, <1>2 DEF LandInv, ListInv, CurInv, Reads

\* What FromJson makes of the entry in the area: the body's name, and its distance
\* unless the body leaves it out.
LEMMA FromJsonKeeps ==
  ASSUME NEW old \in AreaEntry, NEW body \in AreaEntry, NEW leaveOut \in BOOLEAN
  PROVE  /\ FromJson(old, body, leaveOut).fname = body.fname
         /\ leaveOut => FromJson(old, body, leaveOut).distance = old.distance
  BY DEF FromJson, AreaEntry

LEMMA WrittenListLands == ASSUME TypeInv, SurviveInv, LandInv, WriteQueue PROVE LandInv'
<1>1. /\ UNCHANGED <<queue, dry, cur, polling, life, moved, edited, copy, copy_cur, copyLife>>
      /\ op = "none" /\ op' = "WRITE_QUEUE"
  BY Zenon DEF WriteQueue, SendList, Post, triageVars
<1>2. CurInv'
  BY <1>1 DEF LandInv, CurInv
<1>3. CASE /\ areaLife' = copyLife /\ queue_len' = Len(copy)
           /\ \E list \in [1 .. Len(copy) -> AreaEntry], leaveOut \in BOOLEAN :
                /\ SendList(list, leaveOut)
                /\ \A k \in 1 .. Len(copy) : list[k].fname = copy[k].fname
  <2>1. PICK list \in [1 .. Len(copy) -> AreaEntry], leaveOut \in BOOLEAN :
          /\ SendList(list, leaveOut)
          /\ \A k \in 1 .. Len(copy) : list[k].fname = copy[k].fname
    BY <1>3, Zenon
  <2>2. Len(copy) \in 0 .. CurPlace
    BY Lengths
  <2>3. /\ omitted' = leaveOut
        /\ \A k \in 1 .. Len(copy) : area'[k] = FromJson(area[k], list[k], leaveOut)
    BY <2>1, <2>2, SentTyped
  <2>4. \A k \in 1 .. Len(copy) : /\ area'[k].fname = copy[k].fname
                                  /\ omitted' => area'[k].distance = area[k].distance
    <3> SUFFICES ASSUME NEW k \in 1 .. Len(copy)
                 PROVE  /\ area'[k].fname = copy[k].fname
                        /\ omitted' => area'[k].distance = area[k].distance
      OBVIOUS
    <3>1. area[k] \in AreaEntry /\ list[k] \in AreaEntry
      <4>1. k \in 1 .. CurPlace
        BY <2>2, CurPlaceTyped
      <4> QED BY <4>1, Lengths
    <3> QED BY <2>1, <2>3, <3>1, FromJsonKeeps
  <2>5. ListInv'
    BY <1>1, <1>3, <2>4 DEF LandInv, ListInv
  <2> QED BY <1>2, <2>5 DEF LandInv
<1>4. CASE /\ areaLife' = 0
           /\ \E n \in 0 .. CurPlace : \E list \in [1 .. n -> AreaEntry] :
                SendList(list, FALSE)
  <2>1. ~omitted'
    BY <1>4, Zenon DEF SendList
  <2>2. life # 0
    BY Lengths
  <2>3. ListInv'
    BY <1>1, <1>4, <2>1, <2>2 DEF LandInv, ListInv
  <2> QED BY <1>2, <2>3 DEF LandInv
<1> QED BY <1>3, <1>4, ListSent, Zenon

LEMMA WrittenCurLands == ASSUME TypeInv, LandInv, WriteCur PROVE LandInv'
<1>1. /\ UNCHANGED <<queue, dry, queue_len, areaLife, omitted, cur, polling, life, moved,
                     edited, copy, copy_cur, copyLife>>
      /\ op = "none" /\ op' = "WRITE_QUEUE_CUR"
  BY Zenon DEF WriteCur, Post, triageVars
<1>2. PICK leaveOut \in BOOLEAN, body \in MadeUp \cup Bodies(copy_cur) :
        area' = [area EXCEPT ![CurPlace] = FromJson(@, body, leaveOut)]
  BY Zenon DEF WriteCur
<1>3. \A i \in 1 .. MaxQueueLen : area'[i] = area[i]
  BY <1>2, Lengths, CurPlaceTyped, LimitAssumption DEF CurPlace
<1>4. ListInv'
  BY <1>1, <1>3, LimitAssumption DEF LandInv, ListInv
<1>5. CurInv'
  BY <1>1 DEF LandInv, CurInv
<1> QED BY <1>4, <1>5 DEF LandInv

LEMMA LandNext == TypeInv /\ SurviveInv /\ LandInv /\ [Next]_vars => LandInv'
<1> SUFFICES ASSUME TypeInv, SurviveInv, LandInv, [Next]_vars PROVE LandInv'
  OBVIOUS
<1>1. CASE Serve
  BY <1>1, ReadQueueLands, WritesLandInv, ReadCurLands, Zenon DEF Serve
<1>2. CASE UNCHANGED vars
  BY <1>2 DEF vars, triageVars, monitorVars, areas, client, LandInv, ListInv, CurInv
<1> QED BY <1>1, <1>2, FuzzLands, NextEntryLands, RestartLands, ReadLands,
           WrittenListLands, WrittenCurLands, Zenon DEF Next

\* A write lands on the entries that the client has read, although nothing compares
\* names: a list read in the same session, a queue_cur of the same entry; and a distance
\* that the list leaves out is still there, if it was known when the list was read.
THEOREM WritesLandHolds == Spec => WritesLand
<1> DEFINE Lands ==
      /\ op = "WRITE_QUEUE" /\ areaLife = life => \A i \in 1 .. queue_len :
           /\ InArea(queue'[i]) = area[i]
           /\ omitted /\ ~edited /\ i <= MaxQueueLen /\ area[i].distance > 0 =>
                queue'[i].distance = queue[i].distance
      /\ op = "WRITE_QUEUE_CUR" /\ ~moved /\ area[CurPlace].fname = copy_cur.fname =>
           InArea(queue'[cur]) = area[CurPlace]
<1>1. TypeInv /\ SurviveInv /\ LandInv /\ [Next]_vars => [WriteServed => Lands]_vars
  <2> SUFFICES ASSUME TypeInv, SurviveInv, LandInv, WriteServed PROVE Lands
    BY Zenon
  <2>1. op \in Writes /\ Serve /\ alive'
    BY Zenon DEF WriteServed
  <2>2. \A q \in Entry, e \in AreaEntry : q.fname = e.fname => InArea(Loaded(q, e)) = e
    BY DEF InArea, Loaded, Entry, AreaEntry
  <2>3. ASSUME op = "WRITE_QUEUE", areaLife = life, NEW i \in 1 .. queue_len
        PROVE  /\ InArea(queue'[i]) = area[i]
               /\ omitted /\ ~edited /\ i <= MaxQueueLen /\ area[i].distance > 0 =>
                    queue'[i].distance = queue[i].distance
    <3>1. ServeWriteQueue
      BY <2>1, <2>3 DEF Serve, ServeReadQueue, ServeReadCur, ServeWriteCur
    <3>2. queue_len <= Len(queue)
      BY <2>3 DEF SurviveInv
    <3>3. i \in DOMAIN queue /\ area[i] \in AreaEntry /\ queue[i] \in Entry
      <4>1. i \in 1 .. Len(queue) /\ i \in 1 .. CurPlace
        BY <3>2, Lengths, CurPlaceTyped
      <4>2. i \in DOMAIN queue
        BY <4>1, Lengths
      <4> QED BY <4>1, <4>2, Lengths
    <3>4. queue'[i] = Loaded(queue[i], area[i])
      <4>1. queue' = [k \in DOMAIN queue |->
                        IF k <= queue_len THEN Loaded(queue[k], area[k]) ELSE queue[k]]
        <5>1. ~(queue_len > Len(queue))
          BY <3>2, Lengths
        <5> QED BY <3>1, <5>1, Zenon DEF ServeWriteQueue
      <4> QED BY <3>3, <4>1
    <3>5. queue[i].fname = area[i].fname
      BY <2>3 DEF LandInv, ListInv
    <3>6. omitted /\ ~edited /\ i <= MaxQueueLen /\ area[i].distance > 0 =>
            area[i].distance = queue[i].distance
      BY <2>3 DEF LandInv, ListInv
    <3> QED BY <2>2, <3>3, <3>4, <3>5, <3>6, LoadedTyped
  <2>4. ASSUME op = "WRITE_QUEUE_CUR", ~moved, area[CurPlace].fname = copy_cur.fname
        PROVE  InArea(queue'[cur]) = area[CurPlace]
    <3>1. ServeWriteCur /\ cur \in DOMAIN queue
      <4>1. polling
        BY <2>1, Zenon DEF Serve
      <4> QED BY <2>1, <2>4, <4>1, Lengths
              DEF Serve, ServeReadQueue, ServeReadCur, ServeWriteQueue
    <3>2. queue'[cur] = Loaded(queue[cur], area[CurPlace])
      BY <3>1, Lengths DEF ServeWriteCur
    <3>3. queue[cur].fname = area[CurPlace].fname
      BY <2>4 DEF LandInv, CurInv
    <3>4. queue[cur] \in Entry /\ area[CurPlace] \in AreaEntry
      BY <3>1, Lengths, CurPlaceTyped
    <3> QED BY <2>2, <3>2, <3>3, <3>4
  <2> QED BY <2>3, <2>4, Zenon
<1>2. Init => SurviveInv /\ LandInv
  <2> SUFFICES ASSUME Init PROVE SurviveInv /\ LandInv
    OBVIOUS
  <2>1. SurviveInv
    BY DEF Init, SurviveInv
  <2>2. LandInv
    BY DEF Init, LandInv, ListInv, CurInv
  <2> QED BY <2>1, <2>2
<1> QED BY <1>1, <1>2, TypeInit, TypeNext, SurviveNext, LandNext, PTL DEF Spec, WritesLand
-----------------------------------------------------------------------------
(* Distances and scores.                                                   *)

\* What calculate_score raises 2 to is at most 5, either way.
LEMMA Powers ==
  ASSUME NEW k \in 0 .. 5
  PROVE  2 ^ k \in {1, 2, 4, 8, 16, 32}
<1>1. CASE k = 0  BY <1>1
<1>2. CASE k = 1  BY <1>2
<1>3. CASE k = 2  BY <1>3
<1>4. CASE k = 3  BY <1>4
<1>5. CASE k = 4  BY <1>5
<1>6. CASE k = 5  BY <1>6
<1>7. k \in {0, 1, 2, 3, 4, 5}
  OBVIOUS
<1> QED BY <1>1, <1>2, <1>3, <1>4, <1>5, <1>6, <1>7

LEMMA Normalised ==
  \A b \in Nat \ {0} : \A a \in Nat : a <= b => (10 * a) \div b \in 0 .. 10
  OBVIOUS

\* A distance within the limits gives a score between 100 / 32 and the bound.
LEMMA ScoreBounded ==
  ASSUME max_distance \in Nat, min_distance \in Nat, NEW q, q.distance \in Nat,
         min_distance <= q.distance, q.distance <= max_distance
  PROVE  CalculateScore(q) \in 3 .. 1600
<1> DEFINE span == max_distance - min_distance
           tenths == IF span = 0 THEN 0 ELSE (10 * (q.distance - min_distance)) \div span
           power == 5 - tenths
           scaled == IF power >= 0 THEN 100 * (2 ^ power) ELSE 100 \div (2 ^ (-power))
<1>1. tenths \in 0 .. 10
  <2>1. CASE span = 0
    BY <2>1
  <2>2. CASE span # 0
    <3>1. /\ span \in Nat \ {0} /\ q.distance - min_distance \in Nat
          /\ q.distance - min_distance <= span
      BY <2>2
    <3> HIDE DEF span
    <3>2. (10 * (q.distance - min_distance)) \div span \in 0 .. 10
      BY <3>1, Normalised
    <3> QED BY <2>2, <3>2
  <2> QED BY <2>1, <2>2
<1> HIDE DEF tenths
<1>2. scaled \in Int /\ scaled >= 3
  <2>1. CASE power >= 0
    <3>1. power \in 0 .. 5
      BY <1>1, <2>1
    <3> DEFINE factor == 2 ^ power
    <3>2. factor \in {1, 2, 4, 8, 16, 32}
      BY <3>1, Powers
    <3>3. scaled = 100 * factor
      BY <2>1
    <3> HIDE DEF scaled, factor
    <3> QED BY <3>2, <3>3
  <2>2. CASE ~(power >= 0)
    <3>1. -power \in 0 .. 5
      BY <1>1, <2>2
    <3> DEFINE factor == 2 ^ (-power)
    <3>2. factor \in {1, 2, 4, 8, 16, 32}
      BY <3>1, Powers
    <3>3. scaled = 100 \div factor
      BY <2>2
    <3> HIDE DEF scaled, factor
    <3>4. /\ 100 \div 1 = 100 /\ 100 \div 2 = 50 /\ 100 \div 4 = 25
          /\ 100 \div 8 = 12 /\ 100 \div 16 = 6 /\ 100 \div 32 = 3
      OBVIOUS
    <3> QED BY <3>2, <3>3, <3>4
  <2> QED BY <2>1, <2>2
<1>3. CalculateScore(q) = IF q.distance = 0 \/ tenths < 0 THEN 100 ELSE Min({scaled, 1600})
  BY Zenon DEF CalculateScore, tenths
<1> HIDE DEF scaled
<1>4. Min({scaled, 1600}) \in 3 .. 1600
  <2>1. scaled \in Nat /\ 1600 \in Nat
    BY <1>2
  <2>2. /\ Min({scaled, 1600}) \in {scaled, 1600} /\ Min({scaled, 1600}) <= scaled
        /\ Min({scaled, 1600}) <= 1600
    BY <2>1, MinOfTwo
  <2> QED BY <1>2, <2>2
<1> QED BY <1>3, <1>4

\* Every known distance is within the limits; a client may write any other.
Within(d, low, high) == d > 0 => low <= d /\ d <= high
AllWithin ==
  \A i \in DOMAIN queue : Within(queue[i].distance, min_distance, max_distance)
LimitsInv == ~edited => AllWithin

\* Widening keeps within the limits what was, and brings the new distance there.
LEMMA WidenKeeps ==
  ASSUME max_distance \in Distances, min_distance \in Distances,
         NEW d \in Distances, AddWidens(d)
  PROVE  /\ Within(d, min_distance', max_distance')
         /\ \A x \in Distances : Within(x, min_distance, max_distance)
                                  => Within(x, min_distance', max_distance')
<1>1. max_distance \in Nat /\ min_distance \in Nat /\ d \in Nat /\ Distances \subseteq Nat
  BY DistancesAssumption
<1>2. CASE d = 0
  BY <1>1, <1>2 DEF AddWidens, distances, Within
<1>3. CASE d # 0 /\ max_distance = 0
  BY <1>1, <1>3 DEF AddWidens, Within
<1>4. CASE d # 0 /\ max_distance # 0
  <2>1. /\ max_distance' = Max({max_distance, d})
        /\ min_distance' = Min({min_distance, d})
    BY <1>4 DEF AddWidens
  <2>2. /\ max_distance' \in Nat /\ max_distance' >= max_distance /\ max_distance' >= d
        /\ min_distance' \in Nat /\ min_distance' <= min_distance /\ min_distance' <= d
    BY <1>1, <2>1, MaxOfTwo, MinOfTwo
  <2> QED BY <1>1, <2>2 DEF Within
<1> QED BY <1>2, <1>3, <1>4

\* The limits are widened, or stay, and the entries in the list stay but perhaps one,
\* whose distance is the one they are widened by.
LEMMA WidenedInLimits ==
  ASSUME TypeInv, AllWithin, NEW d \in Distances,
         AddWidens(d) \/ (UNCHANGED distances /\ Within(d, min_distance, max_distance)),
         \A i \in DOMAIN queue' :
           \/ i \in DOMAIN queue /\ queue'[i].distance = queue[i].distance
           \/ queue'[i].distance = d
  PROVE  AllWithin'
<1>1. max_distance \in Distances /\ min_distance \in Distances
  BY DEF TypeInv, TypeOK, TriageTypeOK
<1>2. /\ Within(d, min_distance', max_distance')
      /\ \A x \in Distances : Within(x, min_distance, max_distance)
                               => Within(x, min_distance', max_distance')
  <2>1. CASE AddWidens(d)
    BY <1>1, <2>1, WidenKeeps
  <2>2. CASE UNCHANGED distances /\ Within(d, min_distance, max_distance)
    BY <2>2 DEF distances
  <2> QED BY <2>1, <2>2
<1>3. ASSUME NEW i \in DOMAIN queue
      PROVE  /\ queue[i].distance \in Distances
             /\ Within(queue[i].distance, min_distance, max_distance)
  BY Elements DEF AllWithin
<1> SUFFICES ASSUME NEW i \in DOMAIN queue'
             PROVE  Within(queue'[i].distance, min_distance', max_distance')
  BY DEF AllWithin
<1> QED BY <1>2, <1>3

LEMMA RerunInLimits ==
  ASSUME TypeInv, AllWithin, NEW k \in DOMAIN queue, NEW e \in Entry, NEW bits,
         Rerun(k, e, bits)
  PROVE  AllWithin'
<1>1. /\ DOMAIN queue' = DOMAIN queue /\ queue'[k] = e
      /\ \A i \in DOMAIN queue : i # k => queue'[i] = queue[i]
  BY RerunEntries
<1>2. e.distance \in Distances
  BY DEF Entry
<1>3. \/ AddWidens(e.distance)
      \/ UNCHANGED distances /\ Within(e.distance, min_distance, max_distance)
  BY DEF Rerun, AllWithin
<1>4. \A i \in DOMAIN queue' : \/ i \in DOMAIN queue /\ queue'[i].distance = queue[i].distance
                               \/ queue'[i].distance = e.distance
  BY <1>1
<1> QED BY <1>2, <1>3, <1>4, WidenedInLimits

LEMMA InterestingInLimits ==
  ASSUME TypeInv, AllWithin, NEW t \in Traces, NEW d \in Distances, Interesting(t, d)
  PROVE  AllWithin'
<1>1. PICK e \in Entry, bits \in SUBSET AllBits : Added(e, bits)
  BY InterestingAdds
<1>2. queue' = Append(queue, e) /\ AddWidens(e.distance) /\ e.distance \in Distances
  BY <1>1 DEF Added, Entry
<1>3. \A i \in DOMAIN queue' : \/ i \in DOMAIN queue /\ queue'[i].distance = queue[i].distance
                               \/ queue'[i].distance = e.distance
  BY <1>2 DEF TypeInv, TypeOK, TriageTypeOK
<1> QED BY <1>2, <1>3, WidenedInLimits

\* Nothing else than a write gives an entry another distance.
LEMMA SameInLimits ==
  ASSUME LimitsInv, ~edited, DOMAIN queue' = DOMAIN queue,
         \A i \in DOMAIN queue : queue'[i].distance = queue[i].distance,
         UNCHANGED distances
  PROVE  AllWithin'
  BY DEF LimitsInv, AllWithin, Within, distances

LEMMA ServeInLimits ==
  ASSUME TypeInv, LimitsInv, Serve, ~edited'
  PROVE  AllWithin'
<1>1. op \notin Writes /\ ~edited /\ UNCHANGED distances
  BY Zenon DEF Serve
<1>2. \A i \in DOMAIN queue : queue'[i].distance = queue[i].distance
  <2>1. CASE ServeReadQueue
    <3>1. UNCHANGED queue \/ queue' = [i \in DOMAIN queue |-> Scored(queue[i])]
      BY <2>1, Zenon DEF ServeReadQueue
    <3> QED BY <3>1, Lengths, ScoredTyped
  <2>2. CASE ServeReadCur
    <3>1. queue' = [queue EXCEPT ![cur] = Scored(@)] /\ polling
      BY <2>2, Zenon DEF Serve, ServeReadCur
    <3> QED BY <3>1, Lengths, ScoredTyped
  <2> QED BY <1>1, <2>1, <2>2 DEF Serve, ServeWriteQueue, ServeWriteCur, Writes
<1> QED BY <1>1, <1>2, ServedEntries, SameInLimits

LEMMA LimitsNext == TypeInv /\ LimitsInv /\ [Next]_vars => LimitsInv'
<1> SUFFICES ASSUME TypeInv, LimitsInv, [Next]_vars, ~edited'
             PROVE  AllWithin'
  BY DEF LimitsInv
<1>1. CASE FuzzStep
  <2>1. ~edited
    BY <1>1, FuzzStepTyped DEF monitorVars
  <2>2. ASSUME NEW t \in Traces, Boring(t) \/ Crash(t) \/ Hang(t)
        PROVE  UNCHANGED <<queue, distances>>
    BY <2>2 DEF Boring, Crash, Hang, distances
  <2>3. CASE UNCHANGED <<queue, distances>>
    BY <2>1, <2>3, SameInLimits
  <2>4. CASE DryRun
    BY <2>1, <2>4, DryRunReruns, RerunInLimits DEF LimitsInv
  <2>5. ASSUME NEW t \in Traces, NEW d \in Distances, Interesting(t, d) PROVE AllWithin'
    BY <2>1, <2>5, InterestingInLimits DEF LimitsInv
  <2> QED BY <1>1, <2>2, <2>3, <2>4, <2>5, Zenon DEF FuzzStep
<1>2. CASE NextEntry
  <2>1. PICK k \in DOMAIN queue, e \in Entry, bits \in SUBSET AllBits : Rerun(k, e, bits)
    BY <1>2, NextEntryReruns
  <2>2. ~edited
    BY <1>2, Zenon DEF NextEntry
  <2> QED BY <2>1, <2>2, RerunInLimits DEF LimitsInv
<1>3. CASE Restart
  <2>1. PICK n \in {InitSeeds, Len(queue)} :
          queue' = FreshQueue([i \in 1 .. n |-> queue[i].fname])
    BY <1>3, Zenon DEF Restart
  <2>2. \A i \in DOMAIN queue' : queue'[i].distance = 0
    BY <2>1 DEF FreshQueue, NewEntry
  <2> QED BY <2>2 DEF AllWithin, Within
<1>4. CASE Read \/ WriteQueue \/ WriteCur \/ UNCHANGED vars
  <2>1. UNCHANGED <<queue, distances, edited>>
    BY <1>4, Zenon DEF Read, WriteQueue, WriteCur, vars, triageVars, monitorVars
  <2> QED BY <2>1, SameInLimits
<1> QED BY <1>1, <1>2, <1>3, <1>4, ServeInLimits, Zenon DEF Next

\* Until a client writes, every known distance is within the limits by which
\* calculate_score normalises it, although two functions keep them and a restart makes
\* them anew, and no score leaves 3 .. 1600: for any distances and any finds.
THEOREM DistancesStayBounded == Spec => []DistancesBounded
<1>1. TypeInv /\ LimitsInv => DistancesBounded
  <2> SUFFICES ASSUME TypeInv, LimitsInv, ~edited, NEW i \in DOMAIN queue,
                      queue[i].distance > 0
               PROVE  /\ min_distance <= queue[i].distance
                      /\ queue[i].distance <= max_distance
                      /\ CalculateScore(queue[i]) \in 3 .. 1600
    BY DEF DistancesBounded
  <2>1. min_distance <= queue[i].distance /\ queue[i].distance <= max_distance
    BY DEF LimitsInv, AllWithin, Within
  <2>2. /\ queue[i].distance \in Nat
        /\ max_distance \in Nat /\ min_distance \in Nat
    BY Lengths, DistancesAssumption DEF TypeInv, TypeOK, TriageTypeOK, Entry
  <2> QED BY <2>1, <2>2, ScoreBounded
<1>2. Init => LimitsInv
  BY DEF Init, TriageInit, FreshQueue, NewEntry, LimitsInv, AllWithin, Within
<1> QED BY <1>1, <1>2, TypeInit, TypeNext, LimitsNext, PTL DEF Spec
=============================================================================
