------------------------------- MODULE Triage -------------------------------
(***************************************************************************)
(* What afl-fuzz makes of one execution (save_if_interesting): has_new_bits*)
(* against the three virgin maps, the queue entry with its AFLGo distance, *)
(* its calibration, unique crashes and hangs, and the score that the power *)
(* schedule gives an entry.                                                *)
(*                                                                         *)
(* A trace has a hit count class for each edge, 0 if it was not hit.  A    *)
(* distance is positive, or 0 where the code has 0 or -1: no target is     *)
(* reached by any path.                                                    *)
(***************************************************************************)
EXTENDS Integers, Sequences, FiniteSets, FiniteSetsExt

CONSTANTS
  Edges,            \* bytes of the bitmap
  Classes,          \* how many hit count classes are told apart
  Distances,        \* of executions, 0 included
  Handicaps,        \* values of queue_cycle - 1 when an entry is calibrated
  CalChances,       \* CAL_CHANCES: calibrations an entry may fail
  KeepCrashes,      \* KEEP_UNIQUE_CRASH
  KeepHangs,        \* KEEP_UNIQUE_HANG
  InitSeeds,        \* size of the input corpus
  MaxSeeds          \* bound: entries ever in the queue

ASSUME ClassesAssumption == Classes \in Nat \ {0}
ASSUME DistancesAssumption == 0 \in Distances /\ Distances \subseteq Nat
ASSUME HandicapsAssumption == Handicaps \subseteq Nat
ASSUME ChancesAssumption == CalChances \in Nat \ {0}
ASSUME KeepAssumption == KeepCrashes \in Nat /\ KeepHangs \in Nat
ASSUME SeedsAssumption == InitSeeds \in Nat \ {0} /\ MaxSeeds \in Nat /\ InitSeeds <= MaxSeeds

VARIABLES
  virgin_bits, virgin_tmout, virgin_crash,    \* the bits not seen yet
  queue,
  dry,                   \* how many entries the dry run has calibrated
  max_distance, min_distance,                 \* 0 while no distance is known
  crashes, hangs,        \* the files in crashes/ and hangs/, each as its bits
  unique_tmouts,
  born,                  \* entries ever added, the number in the newest name
  \* history: bits of the inputs that ran well, crashed and hung, and of those
  \* hangs that the second run did not confirm
  ranBits, crashBits, hangBits, unconfirmed

distances == <<max_distance, min_distance>>
virgin == <<virgin_bits, virgin_tmout, virgin_crash>>
files == <<crashes, hangs, unique_tmouts>>
history == <<ranBits, crashBits, hangBits, unconfirmed>>
triageVars == <<virgin, queue, dry, distances, files, born, history>>

Traces == {t \in [Edges -> 0 .. Classes] : \E e \in Edges : t[e] > 0}
AllBits == Edges \X (1 .. Classes)
AllSimple == Edges \X BOOLEAN
Bits(t) == {<<e, t[e]>> : e \in {x \in Edges : t[x] > 0}}
Simplified(t) == {<<e, t[e] > 0>> : e \in Edges}        \* simplify_trace

\* favored, was_fuzzed and user_set_perf_score are one value here: the monitor
\* copies them alike, and nothing in this module reads them.
Marks == {"default", "set"}
Entry == [fname : 1 .. MaxSeeds, bits : SUBSET AllBits, distance : Distances,
          handicap : Nat, has_new_cov : BOOLEAN, cal_failed : 0 .. CalChances,
          marks : Marks]

NewEntry(n, bits, d) ==
  [fname |-> n, bits |-> bits, distance |-> d, handicap |-> 0,
   has_new_cov |-> FALSE, cal_failed |-> 0, marks |-> "default"]

-----------------------------------------------------------------------------
(* The power schedule.                                                     *)

\* Mutant: the score from handicap, had it not been reset to 100.
CalculateScore_Handicap(q) ==
  Min({(IF q.handicap >= 4 THEN 400 ELSE IF q.handicap > 0 THEN 200 ELSE 100), 1600})

\* calculate_score of this build: T = 0 and perf_score = 100 discard whatever
\* speed, size, handicap and depth had made of it.  The factor is
\* 2 ^ (10 * (1/2 - normalized distance)), here to a power of 2 above; the bound is
\* HAVOC_MAX_MULT * 100.
CalculateScore(q) ==
  LET span == max_distance - min_distance
      tenths == IF span = 0 THEN 0 ELSE (10 * (q.distance - min_distance)) \div span
      power == 5 - tenths
      scaled == IF power >= 0 THEN 100 * (2 ^ power) ELSE 100 \div (2 ^ (-power))
  IN IF q.distance = 0 \/ tenths < 0 THEN 100 ELSE Min({scaled, 1600})

\* It consumes handicap, whoever calls it.
Scored(q) ==
  [q EXCEPT !.handicap = IF @ >= 4 THEN @ - 4 ELSE IF @ > 0 THEN @ - 1 ELSE 0]

-----------------------------------------------------------------------------
(* Pieces of save_if_interesting.                                          *)

\* has_new_bits: 2 if a byte is hit for the first time, 1 if only with a new count.
SeesNew(map, bits) == bits \cap map # {}
HasNewBits(map, bits) ==
  IF ~SeesNew(map, bits) THEN 0
  ELSE IF \E b \in bits : \A c \in 1 .. Classes : <<b[1], c>> \in map THEN 2
  ELSE 1

\* The first distance sets both limits, and every other widens them: in add_to_queue,
AddWidens(d) ==
  IF d = 0 THEN UNCHANGED distances
  ELSE IF max_distance = 0 THEN max_distance' = d /\ min_distance' = d
  ELSE /\ max_distance' = Max({max_distance, d})
       /\ min_distance' = Min({min_distance, d})

\* Mutant: a distance beyond one limit is taken for within the other.
CalibrationWidens_FirstMin(q, d) ==
  IF q.distance > 0 \/ d = 0 THEN UNCHANGED distances
  ELSE IF max_distance = 0 THEN max_distance' = d /\ min_distance' = d
  ELSE max_distance' = Max({max_distance, d}) /\ UNCHANGED min_distance

\* and, by a copy of that code, in calibrate_case, for an entry without distance.
CalibrationWidens(q, d) ==
  IF q.distance > 0 \/ d = 0 THEN UNCHANGED distances
  ELSE IF max_distance = 0 THEN max_distance' = d /\ min_distance' = d
  ELSE /\ max_distance' = Max({max_distance, d})
       /\ min_distance' = Min({min_distance, d})

\* How the calibration of q can end, as the handicap and cal_failed it leaves: well,
\* or with a fault in a run that is not the first.
Endings(q, handicaps) == (handicaps \X {0}) \cup {<<q.handicap, q.cal_failed + 1>>}

\* calibrate_case on entry q, whose runs show trace t and distance d, with map the
\* bits still virgin: the entry and the map afterwards, and whether there was news.
\* An entry without distance first gets one from has_new_bits, whose answer is
\* dropped: what it has cleared is no longer new for the has_new_cov of this entry.
Calibrated(q, map, t, d, ending) ==
  LET asked == IF q.distance = 0 THEN map \ Bits(t) ELSE map
      hnb == HasNewBits(asked, Bits(t)) IN
    [entry |-> [q EXCEPT !.bits = @ \cup Bits(t),
                         !.distance = IF @ = 0 THEN d ELSE @,
                         !.has_new_cov = @ \/ hnb = 2,
                         !.handicap = ending[1],
                         !.cal_failed = ending[2]],
     map |-> map \ Bits(t),
     news |-> hnb > 0]

\* The distances that its runs can show: one it has is not replaced.
Shown(q) == IF q.distance = 0 THEN Distances ELSE {q.distance}

-----------------------------------------------------------------------------
(* Start-up.                                                               *)

TriageTypeOK ==
  /\ virgin_bits \subseteq AllBits
  /\ virgin_tmout \subseteq AllSimple /\ virgin_crash \subseteq AllSimple
  /\ queue \in Seq(Entry) /\ Len(queue) <= MaxSeeds
  /\ dry \in 0 .. Len(queue)
  /\ max_distance \in Distances /\ min_distance \in Distances
  /\ crashes \subseteq SUBSET AllSimple /\ Cardinality(crashes) <= KeepCrashes
  /\ hangs \subseteq SUBSET AllSimple /\ Cardinality(hangs) <= KeepHangs
  /\ unique_tmouts \in Nat
  /\ born \in InitSeeds .. MaxSeeds
  /\ ranBits \subseteq AllBits
  /\ crashBits \subseteq AllSimple /\ hangBits \subseteq AllSimple
  /\ unconfirmed \subseteq hangBits

\* The list of a session that starts with the named files, as read_testcases
\* leaves it.
FreshQueue(names) == [i \in DOMAIN names |-> NewEntry(names[i], {}, 0)]

TriageInit ==
  /\ virgin_bits = AllBits /\ virgin_tmout = AllSimple /\ virgin_crash = AllSimple
  /\ queue = FreshQueue([i \in 1 .. InitSeeds |-> i])
  /\ dry = 0
  /\ max_distance = 0 /\ min_distance = 0
  /\ crashes = {} /\ hangs = {} /\ unique_tmouts = 0
  /\ born = InitSeeds
  /\ ranBits = {} /\ crashBits = {} /\ hangBits = {} /\ unconfirmed = {}

Fuzzing == dry = Len(queue)      \* the dry run is over

\* One round of perform_dry_run.  It goes on if the calibration times out (-t nn+)
\* or crashes (AFL_SKIP_CRASHES), but gives the entry no other chance; runs before
\* the one that failed have left their marks.
DryRun ==
  /\ ~Fuzzing
  /\ LET q == queue[dry + 1] IN
       \/ \E t \in Traces, d \in Distances, ending \in {<<0, 0>>, <<0, CalChances>>} :
            LET c == Calibrated(q, virgin_bits, t, d, ending) IN
              /\ queue' = [queue EXCEPT ![dry + 1] = c.entry]
              /\ virgin_bits' = c.map
              /\ CalibrationWidens(q, d)
              /\ ranBits' = ranBits \cup Bits(t)
       \/ /\ queue' = [queue EXCEPT ![dry + 1].cal_failed = CalChances]
          /\ UNCHANGED <<virgin_bits, distances, ranBits>>
  /\ dry' = dry + 1
  /\ UNCHANGED <<virgin_tmout, virgin_crash, files, born, crashBits, hangBits, unconfirmed>>

\* fuzz_one calibrates an entry again that has failed it, and goes on with it (good)
\* only if that ends well and, as the entry counts as never run, brings news.
Recalibrate(i, good) ==
  LET q == queue[i] IN
  /\ q.cal_failed \in 1 .. CalChances - 1
  /\ \/ /\ ~good
        /\ queue' = [queue EXCEPT ![i].cal_failed = @ + 1]
        /\ UNCHANGED <<virgin_bits, distances, ranBits>>
     \/ \E t \in Traces, d \in Shown(q), ending \in Endings(q, Handicaps) :
          LET c == Calibrated(q, virgin_bits, t, d, ending) IN
            /\ good = (c.entry.cal_failed = 0 /\ c.news)
            /\ queue' = [queue EXCEPT ![i] = IF good THEN Scored(c.entry) ELSE c.entry]
            /\ virgin_bits' = c.map
            /\ CalibrationWidens(q, d)
            /\ ranBits' = ranBits \cup Bits(t)
  /\ UNCHANGED <<virgin_tmout, virgin_crash, dry, files, born, crashBits, hangBits, unconfirmed>>

-----------------------------------------------------------------------------
(* save_if_interesting.                                                    *)

\* No fault, and nothing new in the map: the input is forgotten.
Boring(t) ==
  /\ Fuzzing
  /\ HasNewBits(virgin_bits, Bits(t)) = 0
  /\ ranBits' = ranBits \cup Bits(t)
  /\ UNCHANGED <<virgin, queue, dry, distances, files, born, crashBits, hangBits, unconfirmed>>

\* No fault, something new: the entry is appended and calibrated, with the trace t2
\* and distance d2 of those runs, unless the first of them fails.
Interesting(t, d) ==
  /\ Fuzzing
  /\ HasNewBits(virgin_bits, Bits(t)) > 0
  /\ born < MaxSeeds
  /\ born' = born + 1
  /\ LET hnb == HasNewBits(virgin_bits, Bits(t))
         q == [NewEntry(born + 1, Bits(t), d) EXCEPT !.has_new_cov = (hnb = 2)]
         map == virgin_bits \ Bits(t)
     IN \/ /\ queue' = Append(queue, [q EXCEPT !.cal_failed = 1])
           /\ virgin_bits' = map
           /\ AddWidens(d)
           /\ ranBits' = ranBits \cup Bits(t)
        \/ \E t2 \in Traces, d2 \in Shown(q), ending \in Endings(q, Handicaps) :
             LET c == Calibrated(q, map, t2, d2, ending) IN
               /\ queue' = Append(queue, c.entry)
               /\ virgin_bits' = c.map
               /\ IF d > 0 THEN AddWidens(d) ELSE CalibrationWidens(q, d2)
               /\ ranBits' = ranBits \cup Bits(t) \cup Bits(t2)
  /\ dry' = dry + 1
  /\ UNCHANGED <<virgin_tmout, virgin_crash, files, crashBits, hangBits, unconfirmed>>

\* Mutant: one file more than the limit.
KeepAsCrash_OneMore(t) ==
  /\ crashBits' = crashBits \cup Simplified(t)
  /\ IF Cardinality(crashes) <= KeepCrashes /\ SeesNew(virgin_crash, Simplified(t))
       THEN /\ crashes' = crashes \cup {Simplified(t)}
            /\ virgin_crash' = virgin_crash \ Simplified(t)
       ELSE UNCHANGED <<crashes, virgin_crash>>

\* From keep_as_crash on.  Nothing is asked of the map once the files are enough.
KeepAsCrash(t) ==
  /\ crashBits' = crashBits \cup Simplified(t)
  /\ IF Cardinality(crashes) < KeepCrashes /\ SeesNew(virgin_crash, Simplified(t))
       THEN /\ crashes' = crashes \cup {Simplified(t)}
            /\ virgin_crash' = virgin_crash \ Simplified(t)
       ELSE UNCHANGED <<crashes, virgin_crash>>

Crash(t) ==
  /\ Fuzzing
  /\ KeepAsCrash(t)
  /\ UNCHANGED <<virgin_bits, virgin_tmout, queue, dry, distances, hangs, unique_tmouts,
                 born, ranBits, hangBits, unconfirmed>>

\* Mutant: the corner case that the code's comment warns of, a crash that the longer
\* timeout uncovers is discarded.
Hang_CrashDiscarded(t) ==
  /\ Fuzzing
  /\ hangBits' = hangBits \cup Simplified(t)
  /\ IF Cardinality(hangs) < KeepHangs /\ SeesNew(virgin_tmout, Simplified(t))
       THEN /\ virgin_tmout' = virgin_tmout \ Simplified(t)
            /\ unique_tmouts' = unique_tmouts + 1
            /\ \/ /\ hangs' = hangs \cup {Simplified(t)}
                  /\ UNCHANGED <<crashBits, unconfirmed>>
               \/ /\ unconfirmed' = unconfirmed \cup Simplified(t)
                  /\ \E t2 \in Traces : crashBits' = crashBits \cup Simplified(t2)
                  /\ UNCHANGED hangs
       ELSE UNCHANGED <<virgin_tmout, unique_tmouts, hangs, crashBits, unconfirmed>>
  /\ UNCHANGED <<virgin_bits, virgin_crash, crashes, queue, dry, distances, born, ranBits>>

\* A timeout.  One with new bits is run again with hang_tmout, unless exec_tmout is
\* as long: it is a hang only if it times out again, and may turn out a crash.
Hang(t) ==
  /\ Fuzzing
  /\ hangBits' = hangBits \cup Simplified(t)
  /\ IF Cardinality(hangs) < KeepHangs /\ SeesNew(virgin_tmout, Simplified(t))
       THEN /\ virgin_tmout' = virgin_tmout \ Simplified(t)
            /\ unique_tmouts' = unique_tmouts + 1
            /\ \/ /\ hangs' = hangs \cup {Simplified(t)}
                  /\ UNCHANGED <<crashes, virgin_crash, crashBits, unconfirmed>>
               \/ /\ unconfirmed' = unconfirmed \cup Simplified(t)
                  /\ UNCHANGED <<hangs, crashes, virgin_crash, crashBits>>
               \/ /\ unconfirmed' = unconfirmed \cup Simplified(t)
                  /\ \E t2 \in Traces : KeepAsCrash(t2)
                  /\ UNCHANGED hangs
       ELSE UNCHANGED <<virgin_tmout, unique_tmouts, hangs, crashes, virgin_crash,
                        crashBits, unconfirmed>>
  /\ UNCHANGED <<virgin_bits, queue, dry, distances, born, ranBits>>

-----------------------------------------------------------------------------
(* Properties.                                                             *)

\* What a virgin map no longer asks for has a witness on disk: every bit ever seen in
\* an input that ran well is in the traces of a queue entry, every bit of a crash in
\* those of a file in crashes/, and likewise for hangs, unless the files had reached
\* their limit by then.  A timeout that the second run did not confirm has used up
\* its bits all the same, and is the exception.
Witnessed ==
  /\ ranBits \subseteq UNION {queue[i].bits : i \in DOMAIN queue}
  /\ Cardinality(crashes) < KeepCrashes => crashBits \subseteq UNION crashes
  /\ Cardinality(hangs) < KeepHangs => hangBits \subseteq (UNION hangs) \cup unconfirmed
=============================================================================
