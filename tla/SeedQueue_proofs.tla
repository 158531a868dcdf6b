-------------------------- MODULE SeedQueue_proofs --------------------------
(***************************************************************************)
(* The reference counts of trace_mini, for bitmaps and queues of any size, *)
(* stable traces or not, with or without the monitor's writes; then the    *)
(* counters, the favored cover and the best winners.                       *)
(***************************************************************************)
EXTENDS SeedQueue, FiniteSetTheorems, TLAPS

\* While an entry is handled it is the current one, and update_bitmap_score
\* is called for an entry of the queue.
CurrentInv ==
  /\ pc \in {"dry", "dryNext", "fuzz", "trim", "work", "score", "end", "next"}
       => queue_cur \in Seeds
  /\ pc = "score" => scoring \in Seeds

TypeInv == TypeOK /\ CurrentInv

LEMMA Sizes == 1 \in Seeds /\ InitSeeds \in Seeds /\ MapSize \in Nat
  BY MapAssumption, SeedsAssumption DEF Seeds

LEMMA EdgesFinite == IsFiniteSet(Edges)
  BY FS_Interval, MapAssumption DEF Edges

LEMMA DecType == \A x \in Nat : Dec(x) \in Nat
<1> SUFFICES ASSUME NEW x \in Nat PROVE Dec(x) \in Nat
  OBVIOUS
<1>1. Wrap \in Nat /\ Wrap > 0
  BY WrapAssumption, Sizes, SeedsAssumption, Z3
<1>2. x + Wrap - 1 \in Int
  BY <1>1
<1> QED BY <1>1, <1>2 DEF Dec

-----------------------------------------------------------------------------
(* Type correctness.                                                       *)

LEMMA ScoreTyped ==
  ASSUME NEW q \in Seeds, NEW t \in SUBSET Edges,
         NEW ret \in {"dryNext", "trim", "work", "end"}, Score(q, t, ret)
  PROVE  /\ scoring' \in Seeds /\ trace_bits' \in SUBSET Edges
         /\ return' \in {"dryNext", "trim", "work", "end"}
         /\ i' \in 0 .. MapSize /\ pc' = "score"
  BY MapAssumption DEF Score

LEMMA CalibratedTyped ==
  ASSUME TypeOK, NEW q \in Seeds, NEW t \in SUBSET Edges,
         NEW ret \in {"dryNext", "trim", "work", "end"}, Calibrated(q, t, ret),
         Stable \in BOOLEAN
  PROVE  /\ cal_failed' \in [Seeds -> 0 .. CAL_CHANCES]
         /\ exec_cksum' \in [Seeds -> SUBSET Edges]
         /\ cost' \in [Seeds -> Costs]
         /\ scoring' \in Seeds /\ trace_bits' \in SUBSET Edges
         /\ return' \in {"dryNext", "trim", "work", "end"}
         /\ i' \in 0 .. MapSize /\ pc' = "score"
<1>1. PICK last \in IF Stable THEN {t} ELSE Traces : Score(q, last, ret)
  BY DEF Calibrated
<1>2. last \in SUBSET Edges
  BY DEF Traces
<1>3. /\ scoring' \in Seeds /\ trace_bits' \in SUBSET Edges
      /\ return' \in {"dryNext", "trim", "work", "end"}
      /\ i' \in 0 .. MapSize /\ pc' = "score"
  BY <1>1, <1>2, ScoreTyped
<1>4. cal_failed' \in [Seeds -> 0 .. CAL_CHANCES]
  BY DEF Calibrated, TypeOK, CAL_CHANCES
<1>5. exec_cksum' \in [Seeds -> SUBSET Edges] /\ cost' \in [Seeds -> Costs]
  BY DEF Calibrated, TypeOK
<1> QED BY <1>3, <1>4, <1>5

LEMMA FailedTyped ==
  ASSUME TypeOK, NEW q \in Seeds, NEW k \in 0 .. CAL_CHANCES, Failed(q, k)
  PROVE  /\ cal_failed' \in [Seeds -> 0 .. CAL_CHANCES]
         /\ exec_cksum' \in [Seeds -> SUBSET Edges]
<1>1. cal_failed' \in [Seeds -> 0 .. CAL_CHANCES]
  BY DEF Failed, TypeOK
<1>2. exec_cksum' \in [Seeds -> SUBSET Edges]
  BY DEF Failed, TypeOK, Traces, NoTrace
<1> QED BY <1>1, <1>2

LEMMA TypeInit == Init => TypeInv
<1> SUFFICES ASSUME Init PROVE TypeInv
  OBVIOUS
<1>1. /\ n \in Seeds /\ queue_cur \in Seeds /\ pending_not_fuzzed \in Nat
      /\ i \in 0 .. MapSize /\ writes \in 0 .. MaxWrites
  BY Sizes, SeedsAssumption, ModesAssumption DEF Init
<1>2. /\ cost \in [Seeds -> Costs]
      /\ cal_failed \in [Seeds -> 0 .. CAL_CHANCES]
  BY CostAssumption DEF Init, Costs, CAL_CHANCES
<1>3. /\ exec_cksum \in [Seeds -> SUBSET Edges]
      /\ trace_mini \in [Seeds -> SUBSET Edges]
      /\ trace_bits \in SUBSET Edges /\ temp_v \in SUBSET Edges
  BY DEF Init, NoTrace
<1>4. /\ trim_done \in [Seeds -> BOOLEAN]
      /\ was_fuzzed \in [Seeds -> BOOLEAN]
      /\ favored \in [Seeds -> BOOLEAN]
      /\ fs_redundant \in [Seeds -> BOOLEAN]
      /\ top_rated \in [Edges -> Seeds \cup {NULL}]
      /\ tc_ref \in [Seeds -> Int]
  BY DEF Init
<1>5. /\ score_changed \in BOOLEAN /\ queued_favored \in Nat
      /\ pending_favored \in Nat /\ scoring \in Seeds \cup {NULL}
      /\ pc = "dry" /\ return = "dryNext"
  BY DEF Init
<1> QED BY <1>1, <1>2, <1>3, <1>4, <1>5 DEF TypeInv, TypeOK, CurrentInv

LEMMA TypeStep == TypeInv /\ [Next]_vars => TypeInv'
<1> SUFFICES ASSUME TypeInv, [Next]_vars PROVE TypeInv'
  OBVIOUS
<1> USE DEF TypeInv, entries, flags, winners, counters, loops
<1>0. Stable \in BOOLEAN
  BY ModesAssumption
<1>1. CASE ScoreByte
  <2>1. i \in Edges /\ i + 1 \in 0 .. MapSize /\ scoring \in Seeds
    BY <1>1, MapAssumption DEF ScoreByte, TypeOK, CurrentInv, Edges
  <2>2. CASE Win(scoring, i)
    <3>1. top_rated' \in [Edges -> Seeds \cup {NULL}]
      BY <2>1, <2>2 DEF Win, TypeOK
    <3>2. Released(i) \in [Seeds -> Int]
      BY <2>1 DEF Released, TypeOK
    <3>3. tc_ref' \in [Seeds -> Int]
      BY <2>1, <2>2, <3>2 DEF Win
    <3>4. Freed(i) \in [Seeds -> SUBSET Edges]
      BY DEF Freed, TypeOK, NoTrace
    <3>5. trace_mini' \in [Seeds -> SUBSET Edges]
      BY <2>1, <2>2, <3>4 DEF Win, TypeOK
    <3>6. score_changed' \in BOOLEAN
      BY <2>2 DEF Win
    <3> QED BY <1>1, <2>1, <3>1, <3>3, <3>5, <3>6 DEF ScoreByte, TypeOK, CurrentInv
  <2>3. CASE UNCHANGED <<winners, score_changed>>
    BY <1>1, <2>1, <2>3 DEF ScoreByte, TypeOK, CurrentInv
  <2> QED BY <1>1, <2>2, <2>3 DEF ScoreByte
<1>2. CASE ScoreReturn
  BY <1>2 DEF ScoreReturn, TypeOK, CurrentInv, NoTrace
<1>3. CASE DryRun
  <2>1. queue_cur \in Seeds
    BY <1>3 DEF DryRun, CurrentInv
  <2>2. PICK t \in Traces : Calibrated(queue_cur, t, "dryNext")
    BY <1>3 DEF DryRun
  <2> QED BY <1>0, <1>3, <2>1, <2>2, CalibratedTyped
          DEF DryRun, TypeOK, CurrentInv, Traces
<1>4. CASE DryRunFails
  <2>1. queue_cur \in Seeds /\ CAL_CHANCES \in 0 .. CAL_CHANCES
    BY <1>4 DEF DryRunFails, CurrentInv, CAL_CHANCES
  <2> QED BY <1>4, <2>1, FailedTyped DEF DryRunFails, TypeOK, CurrentInv
<1>5. CASE DryRunNext
  <2>1. CASE queue_cur < n
    <3>1. queue_cur' \in Seeds /\ pc' = "dry"
      BY <1>5, <2>1, SeedsAssumption DEF DryRunNext, TypeOK, CurrentInv, Seeds
    <3> QED BY <1>5, <3>1 DEF DryRunNext, TypeOK, CurrentInv
  <2>2. CASE ~ (queue_cur < n)
    BY <1>5, <2>2 DEF DryRunNext, TypeOK, CurrentInv
  <2> QED BY <2>1, <2>2
<1>6. CASE CullStart
  <2>1. /\ score_changed' \in BOOLEAN /\ temp_v' \in SUBSET Edges
        /\ queued_favored' \in Nat /\ pending_favored' \in Nat
        /\ favored' \in [Seeds -> BOOLEAN]
    BY <1>6 DEF CullStart
  <2>2. i' \in 0 .. MapSize
    BY <1>6, MapAssumption DEF CullStart
  <2> QED BY <1>6, <2>1, <2>2 DEF CullStart, TypeOK, CurrentInv
<1>7. CASE CullNotNeeded
  BY <1>7 DEF CullNotNeeded, TypeOK, CurrentInv
<1>8. CASE CullByte
  <2>1. i \in Edges /\ i + 1 \in 0 .. MapSize
    BY <1>8, MapAssumption DEF CullByte, TypeOK, Edges
  <2>2. CASE Uncovered(i) /\ Favor(i)
    <3>1. /\ favored' \in [Seeds -> BOOLEAN] /\ temp_v' \in SUBSET Edges
          /\ queued_favored' \in Nat /\ pending_favored' \in Nat
      <4>1. favored' \in [Seeds -> BOOLEAN]
        BY <2>2 DEF Favor, TypeOK
      <4>2. temp_v' \in SUBSET Edges
        BY <2>2 DEF Favor, TypeOK
      <4>3. queued_favored' \in Nat /\ pending_favored' \in Nat
        BY <2>2 DEF Favor, TypeOK
      <4> QED BY <4>1, <4>2, <4>3
    <3> QED BY <1>8, <2>1, <3>1 DEF CullByte, TypeOK, CurrentInv
  <2>3. CASE UNCHANGED <<favored, queued_favored, pending_favored, temp_v>>
    BY <1>8, <2>1, <2>3 DEF CullByte, TypeOK, CurrentInv
  <2> QED BY <1>8, <2>2, <2>3 DEF CullByte
<1>9. CASE CullMark
  <2>1. fs_redundant' \in [Seeds -> BOOLEAN]
    <3>1. \A q \in Seeds : (q \in Queue /\ ~favored[q]) \in BOOLEAN
      OBVIOUS
    <3> QED BY <1>9, <3>1 DEF CullMark
  <2> QED BY <1>9, <2>1 DEF CullMark, TypeOK, CurrentInv
<1>10. CASE Pick
  BY <1>10, Sizes DEF Pick, TypeOK, CurrentInv
<1>11. CASE Skip \/ Hopeless
  BY <1>11 DEF Skip, Hopeless, TypeOK, CurrentInv
<1>12. CASE Enter
  BY <1>12 DEF Enter, Ready, TypeOK, CurrentInv
<1>13. CASE Recalibrate
  <2>1. queue_cur \in Seeds
    BY <1>13 DEF Recalibrate, CurrentInv
  <2>2. PICK t \in Traces, ret \in {Ready(queue_cur), "end"} :
          Calibrated(queue_cur, t, ret)
    BY <1>13 DEF Recalibrate
  <2>3. t \in SUBSET Edges /\ ret \in {"dryNext", "trim", "work", "end"}
    BY DEF Traces, Ready
  <2> QED BY <1>0, <1>13, <2>1, <2>2, <2>3, CalibratedTyped
          DEF Recalibrate, TypeOK, CurrentInv
<1>14. CASE RecalibrateFails
  <2>1. queue_cur \in Seeds /\ cal_failed[queue_cur] + 1 \in 0 .. CAL_CHANCES
    BY <1>14 DEF RecalibrateFails, CurrentInv, TypeOK, CAL_CHANCES
  <2> QED BY <1>14, <2>1, FailedTyped DEF RecalibrateFails, TypeOK, CurrentInv
<1>15. CASE TrimNothing
  BY <1>15 DEF TrimNothing, TypeOK, CurrentInv
<1>16. CASE Trim
  <2>1. queue_cur \in Seeds /\ exec_cksum[queue_cur] \in SUBSET Edges
    BY <1>16 DEF Trim, CurrentInv, TypeOK
  <2>2. cost' \in [Seeds -> Costs] /\ trim_done' \in [Seeds -> BOOLEAN]
    BY <1>16 DEF Trim, TypeOK
  <2>3. Score(queue_cur, exec_cksum[queue_cur], "work")
    BY <1>16 DEF Trim
  <2> QED BY <1>16, <2>1, <2>2, <2>3, ScoreTyped DEF Trim, TypeOK, CurrentInv
<1>17. CASE Find
  <2>1. PICK t \in Traces : Append(t) /\ Calibrated(n + 1, t, "work")
    BY <1>17 DEF Find
  <2>2. n + 1 \in Seeds /\ n' \in Seeds /\ queue_cur \in Seeds
    BY <1>17, <2>1, SeedsAssumption DEF Find, Append, TypeOK, CurrentInv, Seeds
  <2>3. pending_not_fuzzed' \in Nat
    BY <2>1, <2>2 DEF Append, TypeOK
  <2>4. t \in SUBSET Edges
    BY DEF Traces
  <2> QED BY <1>0, <2>1, <2>2, <2>3, <2>4, CalibratedTyped
          DEF Append, TypeOK, CurrentInv
<1>18. CASE FindUncalibrated
  <2>1. PICK t \in Traces : Append(t) /\ exec_cksum' = [exec_cksum EXCEPT ![n + 1] = t]
    BY <1>18 DEF FindUncalibrated
  <2>2. n + 1 \in Seeds /\ n' \in Seeds /\ queue_cur \in Seeds
    BY <1>18, <2>1, SeedsAssumption
       DEF FindUncalibrated, Append, TypeOK, CurrentInv, Seeds
  <2>3. pending_not_fuzzed' \in Nat
    BY <2>1, <2>2 DEF Append, TypeOK
  <2>4. exec_cksum' \in [Seeds -> SUBSET Edges]
    BY <2>1 DEF TypeOK, Traces
  <2>5. cal_failed' \in [Seeds -> 0 .. CAL_CHANCES]
    <3>1. 1 \in 0 .. CAL_CHANCES
      BY DEF CAL_CHANCES
    <3> QED BY <1>18, <2>2, <3>1 DEF FindUncalibrated, TypeOK
  <2> QED BY <1>18, <2>1, <2>2, <2>3, <2>4, <2>5
          DEF FindUncalibrated, Append, TypeOK, CurrentInv
<1>19. CASE WriteQueue
  <2>1. favored' \in [Seeds -> BOOLEAN] /\ was_fuzzed' \in [Seeds -> BOOLEAN]
    <3>1. PICK len \in Queue, fav \in [Queue -> BOOLEAN], fuzzed \in [Queue -> BOOLEAN] :
            /\ favored' = [q \in Seeds |-> IF q <= len THEN fav[q] ELSE favored[q]]
            /\ was_fuzzed' = [q \in Seeds |-> IF q <= len THEN fuzzed[q] ELSE was_fuzzed[q]]
      BY <1>19 DEF WriteQueue
    <3>2. \A q \in Seeds : q <= len => q \in Queue
      BY <1>19, Z3 DEF TypeOK, Queue, Seeds
    <3> QED BY <3>1, <3>2 DEF TypeOK
  <2>2. writes' \in 0 .. MaxWrites
    BY <1>19, ModesAssumption DEF WriteQueue, TypeOK
  <2> QED BY <1>19, <2>1, <2>2 DEF WriteQueue, TypeOK, CurrentInv
<1>20. CASE WorkDone
  BY <1>20 DEF WorkDone, TypeOK, CurrentInv
<1>21. CASE Abandon
  <2>1. /\ was_fuzzed' \in [Seeds -> BOOLEAN]
        /\ pending_not_fuzzed' \in Nat /\ pending_favored' \in Nat
    BY <1>21, DecType DEF Abandon, Account, TypeOK
  <2> QED BY <1>21, <2>1 DEF Abandon, TypeOK, CurrentInv
<1>22. CASE Stop
  BY <1>22 DEF Stop, TypeOK, CurrentInv
<1>23. CASE NextEntry
  <2>1. queue_cur' \in Seeds \cup {NULL}
    BY <1>23, SeedsAssumption DEF NextEntry, TypeOK, CurrentInv, Seeds
  <2> QED BY <1>23, <2>1 DEF NextEntry, TypeOK, CurrentInv
<1>24. CASE UNCHANGED vars
  BY <1>24 DEF vars, TypeOK, CurrentInv
<1>25. CASE TrimAborted
  <2>1. cost' \in [Seeds -> Costs]
    BY <1>25 DEF TrimAborted, TypeOK
  <2> QED BY <1>25, <2>1 DEF TrimAborted, TypeOK, CurrentInv
<1> QED
  BY <1>1, <1>2, <1>3, <1>4, <1>5, <1>6, <1>7, <1>8, <1>9, <1>10, <1>11, <1>12,
     <1>13, <1>14, <1>15, <1>16, <1>17, <1>18, <1>19, <1>20, <1>21, <1>22,
     <1>23, <1>24, <1>25
     DEF Next, FuzzerStep, FuzzOne

\* The queue, the flags, the winners and the counters keep their types.
THEOREM TypeCorrect == Spec => []TypeOK
<1>1. Spec => []TypeInv
  BY TypeInit, TypeStep, PTL DEF Spec
<1> QED BY <1>1, PTL DEF TypeInv

-----------------------------------------------------------------------------
(* The bytes a seed has won, and the counts kept of them.                  *)

Won(q) == {e \in Edges : top_rated[e] = q}

LEMMA WonFinite ==
  \A q \in Seeds : IsFiniteSet(Won(q)) /\ Cardinality(Won(q)) \in Nat
  BY EdgesFinite, FS_Subset, FS_CardinalityType DEF Won

\* What a win changes in the sets of won bytes.
LEMMA WonAfterWin ==
  ASSUME TypeOK, NEW q \in Seeds, NEW e \in Edges,
         top_rated' = [top_rated EXCEPT ![e] = q]
  PROVE  \A p \in Seeds :
           Won(p)' = IF p = q THEN Won(p) \cup {e} ELSE Won(p) \ {e}
  BY DEF Won, TypeOK

LEMMA WinCounts ==
  ASSUME TypeOK, RefCounts, NEW q \in Seeds, NEW e \in Edges, Win(q, e)
  PROVE  RefCounts'
<1>1. SUFFICES ASSUME NEW p \in Seeds
               PROVE  tc_ref'[p] = Cardinality(Won(p)')
  BY DEF RefCounts, Won
<1>2. top_rated' = [top_rated EXCEPT ![e] = q]
      /\ tc_ref' = [Released(e) EXCEPT ![q] = @ + 1]
  BY DEF Win
<1>3. Won(p)' = IF p = q THEN Won(p) \cup {e} ELSE Won(p) \ {e}
  BY <1>2, WonAfterWin
<1>4. tc_ref[p] = Cardinality(Won(p)) /\ IsFiniteSet(Won(p))
      /\ Cardinality(Won(p)) \in Nat
  BY WonFinite DEF RefCounts, Won
<1>5. e \in Won(p) <=> top_rated[e] = p
  BY DEF Won
<1>6. Released(e)[p] = IF top_rated[e] = p THEN tc_ref[p] - 1 ELSE tc_ref[p]
  BY DEF Released, TypeOK, NULL, Seeds
<1>7. Released(e) \in [Seeds -> Int]
  BY DEF Released, TypeOK
<1>8. tc_ref'[p] = IF p = q THEN Released(e)[p] + 1 ELSE Released(e)[p]
  BY <1>2, <1>7
<1>9. CASE p = q /\ top_rated[e] = p
  <2>1. Won(p)' = Won(p)
    BY <1>3, <1>5, <1>9
  <2> QED BY <1>4, <1>6, <1>8, <1>9, <2>1
<1>10. CASE p = q /\ top_rated[e] # p
  <2>1. Cardinality(Won(p) \cup {e}) = Cardinality(Won(p)) + 1
    BY <1>4, <1>5, <1>10, FS_AddElement
  <2> QED BY <1>3, <1>4, <1>6, <1>8, <1>10, <2>1
<1>11. CASE p # q /\ top_rated[e] = p
  <2>1. Cardinality(Won(p) \ {e}) = Cardinality(Won(p)) - 1
    BY <1>4, <1>5, <1>11, FS_RemoveElement
  <2> QED BY <1>3, <1>4, <1>6, <1>8, <1>11, <2>1
<1>12. CASE p # q /\ top_rated[e] # p
  <2>1. Won(p)' = Won(p)
    BY <1>3, <1>5, <1>12
  <2> QED BY <1>4, <1>6, <1>8, <1>12, <2>1
<1> QED BY <1>9, <1>10, <1>11, <1>12

LEMMA WinMinis ==
  ASSUME TypeOK, RefCounts, MiniKept, NEW q \in Seeds, NEW e \in Edges,
         e \in trace_bits, Win(q, e)
  PROVE  MiniKept'
<1>1. SUFFICES ASSUME NEW p \in Seeds
               PROVE  trace_mini'[p] # NoTrace <=> Won(p)' # {}
  BY DEF MiniKept, Won
<1>2. top_rated' = [top_rated EXCEPT ![e] = q]
      /\ trace_mini' = [Freed(e) EXCEPT ![q] = IF @ = NoTrace THEN trace_bits ELSE @]
  BY DEF Win
<1>3. Won(p)' = IF p = q THEN Won(p) \cup {e} ELSE Won(p) \ {e}
  BY <1>2, WonAfterWin
<1>4. trace_mini[p] # NoTrace <=> Won(p) # {}
  BY DEF MiniKept, Won
<1>5. e \in Won(p) <=> top_rated[e] = p
  BY DEF Won
<1>6. Freed(e)[p] = IF p = top_rated[e] /\ tc_ref[p] = 1 THEN NoTrace
                    ELSE trace_mini[p]
  BY DEF Freed
<1>7. CASE p = q
  <2>1. trace_mini'[p] = IF Freed(e)[p] = NoTrace THEN trace_bits ELSE Freed(e)[p]
    BY <1>2, <1>7 DEF Freed
  <2> QED BY <1>3, <1>7, <2>1 DEF NoTrace
<1>8. CASE p # q
  <2>1. trace_mini'[p] = Freed(e)[p]
    BY <1>2, <1>8 DEF Freed
  <2>2. CASE p # top_rated[e]
    BY <1>3, <1>4, <1>5, <1>6, <1>8, <2>1, <2>2
  <2>3. CASE p = top_rated[e]
    <3>1. /\ tc_ref[p] = Cardinality(Won(p)) /\ IsFiniteSet(Won(p))
          /\ Cardinality(Won(p)) \in Nat
      BY WonFinite DEF RefCounts, Won
    <3>2. /\ IsFiniteSet(Won(p) \ {e})
          /\ Cardinality(Won(p) \ {e}) = Cardinality(Won(p)) - 1
      BY <1>5, <2>3, <3>1, FS_RemoveElement
    <3>3. Won(p) \ {e} = {} <=> Cardinality(Won(p)) = 1
      BY <3>1, <3>2, FS_EmptySet
    <3>4. trace_mini[p] # NoTrace
      BY <1>4, <1>5, <2>3
    <3> QED BY <1>3, <1>6, <1>8, <2>1, <2>3, <3>1, <3>3, <3>4
  <2> QED BY <2>2, <2>3
<1> QED BY <1>7, <1>8

LEMMA OnlyScoringWins ==
  ASSUME [Next]_vars, ~ ScoreByte
  PROVE  UNCHANGED winners
  BY DEF Next, FuzzerStep, FuzzOne, vars, ScoreReturn, DryRun, DryRunFails,
     DryRunNext, CullStart, CullNotNeeded, CullByte, CullMark, Pick, Skip, Enter,
     Hopeless, Recalibrate, RecalibrateFails, TrimNothing, Trim, Find,
     FindUncalibrated, Append, WorkDone, Abandon, NextEntry, WriteQueue,
     TrimAborted, Stop

LEMMA WinnersInit == Init => RefCounts /\ MiniKept
<1> SUFFICES ASSUME Init PROVE RefCounts /\ MiniKept
  OBVIOUS
<1>1. \A q \in Seeds : {e \in Edges : top_rated[e] = q} = {}
  BY DEF Init, Seeds, NULL
<1>2. RefCounts
  BY <1>1, FS_EmptySet DEF Init, RefCounts
<1>3. MiniKept
  BY <1>1 DEF Init, MiniKept, NoTrace
<1> QED BY <1>2, <1>3

LEMMA WinnersStep ==
  TypeInv /\ RefCounts /\ MiniKept /\ [Next]_vars => (RefCounts /\ MiniKept)'
<1> SUFFICES ASSUME TypeInv, RefCounts, MiniKept, [Next]_vars
             PROVE  (RefCounts /\ MiniKept)'
  OBVIOUS
<1>1. CASE ScoreByte
  <2>1. i \in Edges /\ scoring \in Seeds
    BY <1>1, MapAssumption DEF ScoreByte, TypeInv, TypeOK, CurrentInv, Edges
  <2>2. CASE i \in trace_bits /\ Win(scoring, i)
    BY <2>1, <2>2, WinCounts, WinMinis DEF TypeInv
  <2>3. CASE UNCHANGED <<winners, score_changed>>
    BY <2>3 DEF winners, RefCounts, MiniKept
  <2> QED BY <1>1, <2>2, <2>3 DEF ScoreByte
<1>2. CASE ~ ScoreByte
  BY <1>2, OnlyScoringWins DEF winners, RefCounts, MiniKept
<1> QED BY <1>1, <1>2

\* tc_ref is exactly the number of bytes a seed has won, whatever traces
\* update_bitmap_score is given.
THEOREM RefCountsHold == Spec => []RefCounts
<1>1. Spec => [](TypeInv /\ RefCounts /\ MiniKept)
  BY TypeInit, TypeStep, WinnersInit, WinnersStep, PTL DEF Spec
<1> QED BY <1>1, PTL

\* A trace_mini is allocated exactly as long as its seed is the winner of a
\* byte: cull_queue never reads a freed one, and none is leaked.
THEOREM MiniKeptHolds == Spec => []MiniKept
<1>1. Spec => [](TypeInv /\ RefCounts /\ MiniKept)
  BY TypeInit, TypeStep, WinnersInit, WinnersStep, PTL DEF Spec
<1> QED BY <1>1, PTL

-----------------------------------------------------------------------------
(* What the ratings and the counters of the queue are worth: the count of  *)
(* entries not fuzzed, the cover of the bitmap by the favored seeds, and,  *)
(* for stable traces, the cheapest winners and the favored counters.       *)

\* The dry run: update_bitmap_score returns to it, too.
Dry == pc \in {"dry", "dryNext"} \/ (pc = "score" /\ return = "dryNext")

\* Nothing refers to an entry that is not queued yet, or marks it.
InQueue ==
  /\ queue_cur \in 0 .. n
  /\ scoring \in 0 .. n
  /\ \A e \in Edges : top_rated[e] \in 0 .. n
  /\ \A q \in Seeds \ Queue : ~favored[q] /\ ~was_fuzzed[q] /\ exec_cksum[q] = NoTrace

\* The dry run scores the entries in turn: those to come have won nothing.
InTurn ==
  /\ pc = "dry" => \A e \in Edges : top_rated[e] < queue_cur
  /\ Dry => /\ \A e \in Edges : top_rated[e] <= queue_cur
            /\ \A q \in Seeds : q > queue_cur => exec_cksum[q] = NoTrace
            /\ pc = "score" => scoring = queue_cur

\* Only calibrated entries are trimmed, scored and win.
OnlyCalibrated ==
  /\ \A e \in Edges : top_rated[e] # NULL => cal_failed[top_rated[e]] = 0
  /\ pc = "score" => cal_failed[scoring] = 0
  /\ pc = "trim" \/ (pc = "score" /\ return = "trim") => cal_failed[queue_cur] = 0

PlaceInv == InQueue /\ InTurn /\ OnlyCalibrated

\* A byte cull_queue has dealt with: its winner is favored, or covered.
Covered(e) ==
  favored[top_rated[e]] \/ \E q \in Queue : favored[q] /\ e \in trace_mini[q]

\* The bytes the loop of cull_queue has passed, or crossed out, are covered.
CoverInv == writes = 0 /\ ~score_changed =>
  /\ \A e \in Edges :
       top_rated[e] # NULL /\ (pc = "cullByte" => e < i \/ e \notin temp_v) => Covered(e)
  /\ \A q \in Queue : favored[q] => tc_ref[q] > 0

\* With stable traces, a winner is scored on, and keeps, the trace of its
\* calibration.
OwnTrace ==
  /\ pc = "score" => trace_bits = exec_cksum[scoring]
  /\ \A e \in Edges : top_rated[e] # NULL =>
       /\ e \in exec_cksum[top_rated[e]]
       /\ trace_mini[top_rated[e]] = exec_cksum[top_rated[e]]

\* Byte e has a winner no dearer than seed q.
Rated(q, e) == top_rated[e] # NULL /\ cost[top_rated[e]] <= cost[q]

\* While a seed is scored, only the bytes ahead of the loop may lack it.
RatedInv == pc # "done" =>
  \A q \in Seeds : \A e \in exec_cksum[q] :
    cal_failed[q] = 0 /\ (pc = "score" /\ q = scoring => e < i) => Rated(q, e)

\* The favored seeds are off the mask of bytes still to be covered.
CrossedOut == pc = "cullByte" =>
  \A q \in Seeds : favored[q] => trace_mini[q] \cap temp_v = {}

-----------------------------------------------------------------------------
(* The places of the queue.                                                *)

\* What a calibration that succeeds leaves behind.
LEMMA CalibratedLeaves ==
  ASSUME TypeOK, NEW q \in Seeds, NEW t \in SUBSET Edges, NEW ret, Calibrated(q, t, ret)
  PROVE  /\ cal_failed' = [cal_failed EXCEPT ![q] = 0]
         /\ exec_cksum' = [exec_cksum EXCEPT ![q] = t]
         /\ \A p \in Seeds : p # q => cost'[p] = cost[p]
         /\ scoring' = q /\ return' = ret /\ i' = 0 /\ pc' = "score"
         /\ Stable => trace_bits' = t
<1>1. PICK last \in IF Stable THEN {t} ELSE Traces : Score(q, last, ret)
  BY DEF Calibrated
<1>2. PICK k \in Costs : cost' = [cost EXCEPT ![q] = k]
  BY DEF Calibrated
<1>3. \A p \in Seeds : p # q => cost'[p] = cost[p]
  BY <1>2 DEF TypeOK
<1> QED BY <1>1, <1>3 DEF Calibrated, Score

LEMMA QueueInSeeds == TypeOK => Queue \subseteq Seeds /\ n \in Nat /\ 0 \in 0 .. n /\ 1 \in 0 .. n
<1> SUFFICES ASSUME TypeOK
             PROVE  Queue \subseteq Seeds /\ n \in Nat /\ 0 \in 0 .. n /\ 1 \in 0 .. n
  OBVIOUS
<1>1. n \in Nat /\ 1 <= n /\ n <= MaxSeeds /\ MaxSeeds \in Nat
  BY SeedsAssumption DEF TypeOK, Seeds
<1>2. Queue \subseteq Seeds
  BY <1>1 DEF Queue, Seeds
<1> QED BY <1>1, <1>2

LEMMA InQueueInit == Init => InQueue
<1> SUFFICES ASSUME Init PROVE InQueue
  OBVIOUS
<1>1. n \in Nat \ {0} /\ queue_cur \in 0 .. n /\ scoring \in 0 .. n
  BY SeedsAssumption DEF Init, NULL
<1>2. \A e \in Edges : top_rated[e] \in 0 .. n
  BY <1>1 DEF Init, NULL
<1> QED BY <1>1, <1>2 DEF Init, InQueue

LEMMA InQueueStep == TypeInv /\ InQueue /\ [Next]_vars => InQueue'
<1> SUFFICES ASSUME TypeInv, InQueue, [Next]_vars PROVE InQueue'
  OBVIOUS
<1> USE DEF TypeInv
<1>0. Queue \subseteq Seeds /\ n \in Nat /\ 0 \in 0 .. n /\ 1 \in 0 .. n
  BY QueueInSeeds
<1>1. CASE ScoreByte
  <2>1. i \in Edges /\ scoring \in 0 .. n
    BY <1>1, MapAssumption DEF ScoreByte, TypeOK, InQueue, Edges
  <2>2. CASE Win(scoring, i)
    <3>1. \A e \in Edges : top_rated'[e] \in 0 .. n
      BY <2>1, <2>2 DEF Win, TypeOK, InQueue
    <3> QED BY <1>1, <3>1 DEF ScoreByte, InQueue, Queue, entries, flags
  <2>3. CASE UNCHANGED winners
    BY <1>1, <2>3 DEF ScoreByte, InQueue, Queue, entries, flags, winners
  <2> QED BY <1>1, <2>2, <2>3 DEF ScoreByte
<1>2. CASE ScoreReturn
  BY <1>0, <1>2 DEF ScoreReturn, InQueue, Queue, entries, flags, winners, NULL
<1>3. CASE DryRun
  <2>1. queue_cur \in Queue
    BY <1>3 DEF DryRun, CurrentInv, InQueue, Queue, Seeds
  <2>2. PICK t \in Traces : Calibrated(queue_cur, t, "dryNext")
    BY <1>3 DEF DryRun
  <2>3. exec_cksum' = [exec_cksum EXCEPT ![queue_cur] = t] /\ scoring' = queue_cur
    BY <1>0, <2>1, <2>2, CalibratedLeaves DEF Traces
  <2> QED BY <1>0, <1>3, <2>1, <2>3 DEF DryRun, InQueue, Queue, flags, winners, TypeOK
<1>4. CASE DryRunFails \/ RecalibrateFails
  <2>1. queue_cur \in Queue
    BY <1>4 DEF DryRunFails, RecalibrateFails, CurrentInv, InQueue, Queue, Seeds
  <2>2. \E t \in Traces \cup {NoTrace} : exec_cksum' = [exec_cksum EXCEPT ![queue_cur] = t]
    BY <1>4 DEF DryRunFails, RecalibrateFails, Failed
  <2> QED BY <1>0, <1>4, <2>1, <2>2
          DEF DryRunFails, RecalibrateFails, InQueue, Queue, flags, winners, loops, TypeOK
<1>5. CASE DryRunNext
  <2>1. queue_cur' \in 0 .. n
    BY <1>5, <1>0 DEF DryRunNext, InQueue, NULL
  <2> QED BY <1>5, <2>1 DEF DryRunNext, InQueue, Queue, entries, flags, winners, loops
<1>6. CASE CullStart
  <2>1. \A q \in Seeds : ~favored'[q]
    BY <1>6 DEF CullStart
  <2> QED BY <1>6, <2>1 DEF CullStart, InQueue, Queue, entries, winners
<1>7. CASE CullByte
  <2>1. i \in Edges
    BY <1>7, MapAssumption DEF CullByte, TypeOK, Edges
  <2>2. CASE Uncovered(i) /\ Favor(i)
    <3>1. top_rated[i] \in Queue
      BY <1>0, <2>1, <2>2 DEF Uncovered, InQueue, Queue, NULL
    <3>2. \A q \in Seeds \ Queue : ~favored'[q]
      BY <2>2, <3>1 DEF Favor, InQueue, TypeOK
    <3> QED BY <1>7, <3>2 DEF CullByte, InQueue, Queue, entries, winners
  <2>3. CASE UNCHANGED favored
    BY <1>7, <2>3 DEF CullByte, InQueue, Queue, entries, winners
  <2> QED BY <1>7, <2>2, <2>3 DEF CullByte
<1>8. CASE Pick
  <2>1. queue_cur' \in 0 .. n
    BY <1>8, <1>0 DEF Pick, InQueue
  <2> QED BY <1>8, <2>1 DEF Pick, InQueue, Queue, entries, flags, winners, loops
<1>9. CASE Recalibrate
  <2>1. queue_cur \in Queue
    BY <1>9 DEF Recalibrate, CurrentInv, InQueue, Queue, Seeds
  <2>2. PICK t \in Traces, ret \in {Ready(queue_cur), "end"} :
          Calibrated(queue_cur, t, ret)
    BY <1>9 DEF Recalibrate
  <2>3. exec_cksum' = [exec_cksum EXCEPT ![queue_cur] = t] /\ scoring' = queue_cur
    BY <1>0, <2>1, <2>2, CalibratedLeaves DEF Traces
  <2> QED BY <1>0, <1>9, <2>1, <2>3 DEF Recalibrate, InQueue, Queue, flags, winners, TypeOK
<1>10. CASE Trim
  BY <1>10 DEF Trim, Score, InQueue, Queue, flags, winners
<1>11. CASE Find
  <2>1. PICK t \in Traces : Append(t) /\ Calibrated(n + 1, t, "work")
    BY <1>11 DEF Find
  <2>2. n + 1 \in Seeds /\ n' = n + 1 /\ queue_cur' = queue_cur
    BY <2>1, SeedsAssumption, <1>0 DEF Append, Seeds
  <2>3. exec_cksum' = [exec_cksum EXCEPT ![n + 1] = t] /\ scoring' = n + 1
    BY <2>1, <2>2, CalibratedLeaves DEF Traces
  <2>4. queue_cur' \in 0 .. n' /\ scoring' \in 0 .. n'
        /\ \A e \in Edges : top_rated[e] \in 0 .. n'
    BY <1>0, <2>2, <2>3 DEF InQueue
  <2>5. \A q \in Seeds \ Queue' : q \in Seeds \ Queue /\ q # n + 1
    BY <1>0, <2>2 DEF Queue, Seeds
  <2>6. \A q \in Seeds \ Queue' : exec_cksum'[q] = NoTrace
    BY <2>3, <2>5 DEF InQueue, TypeOK
  <2> QED BY <2>1, <2>4, <2>5, <2>6 DEF Append, InQueue, flags, winners
<1>12. CASE FindUncalibrated
  <2>1. PICK t \in Traces : Append(t) /\ exec_cksum' = [exec_cksum EXCEPT ![n + 1] = t]
    BY <1>12 DEF FindUncalibrated
  <2>2. n + 1 \in Seeds /\ n' = n + 1 /\ queue_cur' = queue_cur /\ scoring' = scoring
    BY <1>12, <2>1, SeedsAssumption, <1>0 DEF Append, Seeds, FindUncalibrated
  <2>4. queue_cur' \in 0 .. n' /\ scoring' \in 0 .. n'
        /\ \A e \in Edges : top_rated[e] \in 0 .. n'
    BY <1>0, <2>2 DEF InQueue
  <2>5. \A q \in Seeds \ Queue' : q \in Seeds \ Queue /\ q # n + 1
    BY <1>0, <2>2 DEF Queue, Seeds
  <2>6. \A q \in Seeds \ Queue' : exec_cksum'[q] = NoTrace
    BY <2>1, <2>5 DEF InQueue, TypeOK
  <2> QED BY <2>1, <2>4, <2>5, <2>6 DEF Append, InQueue, flags, winners
<1>13. CASE WriteQueue
  <2>1. PICK len \in Queue, fav \in [Queue -> BOOLEAN], fuzzed \in [Queue -> BOOLEAN] :
          /\ favored' = [q \in Seeds |-> IF q <= len THEN fav[q] ELSE favored[q]]
          /\ was_fuzzed' = [q \in Seeds |-> IF q <= len THEN fuzzed[q] ELSE was_fuzzed[q]]
    BY <1>13 DEF WriteQueue
  <2>2. \A q \in Seeds \ Queue : ~(q <= len)
    BY <1>0 DEF Queue, Seeds
  <2>3. \A q \in Seeds \ Queue : ~favored'[q] /\ ~was_fuzzed'[q]
    BY <2>1, <2>2 DEF InQueue
  <2> QED BY <1>13, <2>3 DEF WriteQueue, InQueue, Queue, winners, loops
<1>14. CASE Abandon
  <2>1. queue_cur \in Queue
    BY <1>14 DEF Abandon, CurrentInv, InQueue, Queue, Seeds
  <2>2. \A q \in Seeds \ Queue : ~was_fuzzed'[q]
    BY <1>14, <2>1, <1>0 DEF Abandon, Account, InQueue, TypeOK
  <2> QED BY <1>14, <2>2 DEF Abandon, InQueue, Queue, flags, winners, loops
<1>15. CASE NextEntry
  <2>1. queue_cur' \in 0 .. n
    BY <1>15, <1>0 DEF NextEntry, InQueue, NULL
  <2> QED BY <1>15, <2>1 DEF NextEntry, InQueue, Queue, entries, flags, winners, loops
<1>16. CASE \/ CullNotNeeded \/ CullMark \/ Skip \/ Enter \/ Hopeless \/ TrimNothing
            \/ WorkDone \/ TrimAborted \/ Stop \/ UNCHANGED vars
  <2>1. UNCHANGED <<n, queue_cur, scoring, top_rated, favored, was_fuzzed, exec_cksum>>
    BY <1>16 DEF CullNotNeeded, CullMark, Skip, Enter, Hopeless, TrimNothing,
       WorkDone, TrimAborted, Stop, vars, entries, flags, winners, loops
  <2> QED BY <2>1 DEF InQueue, Queue
<1> QED
  BY <1>1, <1>2, <1>3, <1>4, <1>5, <1>6, <1>7, <1>8, <1>9, <1>10, <1>11, <1>12,
     <1>13, <1>14, <1>15, <1>16, Zenon DEF Next, FuzzerStep, FuzzOne

\* The dry run goes through the initial entries once, in their order.
LEMMA InTurnInit == Init => InTurn
<1> SUFFICES ASSUME Init PROVE InTurn
  OBVIOUS
<1> QED BY DEF Init, InTurn, Dry, NULL, Edges

LEMMA InTurnStep == TypeInv /\ InQueue /\ InTurn /\ [Next]_vars => InTurn'
<1> SUFFICES ASSUME TypeInv, InQueue, InTurn, [Next]_vars PROVE InTurn'
  OBVIOUS
<1> USE DEF TypeInv
<1>0. Queue \subseteq Seeds /\ n \in Nat /\ 0 \in 0 .. n /\ 1 \in 0 .. n
  BY QueueInSeeds
<1>1. CASE ScoreByte
  <2>1. i \in Edges /\ scoring \in Seeds
    BY <1>1, MapAssumption DEF ScoreByte, TypeOK, CurrentInv, Edges
  <2>2. CASE Dry
    <3>1. scoring = queue_cur /\ queue_cur \in Int
      BY <1>1, <2>2 DEF ScoreByte, InTurn, TypeOK, Seeds, NULL
    <3>2. \A e \in Edges : top_rated'[e] <= queue_cur
      BY <1>1, <2>1, <2>2, <3>1 DEF ScoreByte, Win, InTurn, TypeOK, winners
    <3> QED BY <1>1, <2>2, <3>1, <3>2 DEF ScoreByte, InTurn, Dry, entries
  <2>3. CASE ~ Dry
    BY <1>1, <2>3 DEF ScoreByte, InTurn, Dry
  <2> QED BY <2>2, <2>3
<1>2. CASE ScoreReturn
  BY <1>2 DEF ScoreReturn, InTurn, Dry, entries, winners, TypeOK
<1>3. CASE DryRun
  <2>1. queue_cur \in Seeds /\ Dry
    BY <1>3 DEF DryRun, CurrentInv, Dry
  <2>2. PICK t \in Traces : Calibrated(queue_cur, t, "dryNext")
    BY <1>3 DEF DryRun
  <2>3. exec_cksum' = [exec_cksum EXCEPT ![queue_cur] = t] /\ scoring' = queue_cur
        /\ pc' = "score"
    BY <2>1, <2>2, CalibratedLeaves DEF Traces
  <2>4. \A q \in Seeds : q > queue_cur => exec_cksum'[q] = exec_cksum[q]
    BY <2>1, <2>3 DEF TypeOK, Seeds
  <2> QED BY <1>3, <2>1, <2>3, <2>4 DEF DryRun, InTurn, winners
<1>4. CASE DryRunFails
  <2>1. queue_cur \in Seeds /\ Dry
    BY <1>4 DEF DryRunFails, CurrentInv, Dry
  <2>2. \E t \in Traces \cup {NoTrace} : exec_cksum' = [exec_cksum EXCEPT ![queue_cur] = t]
    BY <1>4 DEF DryRunFails, Failed
  <2>3. \A q \in Seeds : q > queue_cur => exec_cksum'[q] = exec_cksum[q]
    BY <2>1, <2>2 DEF TypeOK, Seeds
  <2> QED BY <1>4, <2>1, <2>3 DEF DryRunFails, InTurn, winners
<1>5. CASE DryRunNext
  <2>1. CASE queue_cur < n
    <3>1. Dry /\ queue_cur' = queue_cur + 1 /\ pc' = "dry" /\ queue_cur \in Int
      BY <1>5, <2>1 DEF DryRunNext, Dry, TypeOK, Seeds, NULL
    <3>2. \A e \in Edges : top_rated[e] <= queue_cur /\ top_rated[e] \in Int
      BY <3>1 DEF InTurn, TypeOK, Seeds, NULL
    <3>3. \A e \in Edges : top_rated[e] < queue_cur' /\ top_rated[e] <= queue_cur'
      BY <3>1, <3>2
    <3>4. \A q \in Seeds : q > queue_cur' => exec_cksum[q] = NoTrace
      BY <3>1 DEF InTurn, Seeds
    <3> QED BY <1>5, <3>1, <3>3, <3>4 DEF DryRunNext, InTurn, entries, winners
  <2>2. CASE ~ (queue_cur < n)
    BY <1>5, <2>2 DEF DryRunNext, InTurn, Dry
  <2> QED BY <2>1, <2>2
<1>6. CASE Recalibrate \/ Trim \/ Find
  <2>1. pc' = "score" /\ return' \in {"trim", "work", "end"}
    <3>1. CASE Recalibrate
      <4>1. queue_cur \in Seeds
        BY <3>1 DEF Recalibrate, CurrentInv
      <4>2. PICK t \in Traces, ret \in {Ready(queue_cur), "end"} :
              Calibrated(queue_cur, t, ret)
        BY <3>1 DEF Recalibrate
      <4>3. pc' = "score" /\ return' = ret
        BY <4>1, <4>2, CalibratedLeaves DEF Traces
      <4> QED BY <4>3 DEF Ready
    <3>2. CASE Trim
      BY <3>2 DEF Trim, Score
    <3>3. CASE Find
      <4>1. PICK t \in Traces : Append(t) /\ Calibrated(n + 1, t, "work")
        BY <3>3 DEF Find
      <4>2. n + 1 \in Seeds
        BY <4>1, <1>0, SeedsAssumption DEF Append, Seeds
      <4> QED BY <4>1, <4>2, CalibratedLeaves DEF Traces
    <3> QED BY <1>6, <3>1, <3>2, <3>3
  <2> QED BY <2>1 DEF InTurn, Dry
<1>7. CASE UNCHANGED vars
  BY <1>7 DEF vars, InTurn, Dry, entries, winners, loops
<1>8. CASE \/ CullStart \/ CullNotNeeded \/ CullByte \/ CullMark \/ Pick \/ Skip \/ Enter
           \/ Hopeless \/ RecalibrateFails \/ TrimNothing \/ FindUncalibrated \/ WorkDone
           \/ Abandon \/ NextEntry \/ WriteQueue \/ TrimAborted \/ Stop
  <2>1. pc' \notin {"dry", "dryNext", "score"}
    BY <1>8 DEF CullStart, CullNotNeeded, CullByte, CullMark, Pick, Skip, Enter, Ready,
       Hopeless, RecalibrateFails, TrimNothing, FindUncalibrated, WorkDone, Abandon,
       NextEntry, WriteQueue, TrimAborted, Stop
  <2> QED BY <2>1 DEF InTurn, Dry
<1> QED
  BY <1>1, <1>2, <1>3, <1>4, <1>5, <1>6, <1>7, <1>8, Zenon
     DEF Next, FuzzerStep, FuzzOne

LEMMA CalibratedInit == Init => OnlyCalibrated
<1> SUFFICES ASSUME Init PROVE OnlyCalibrated
  OBVIOUS
<1> QED BY DEF Init, OnlyCalibrated

\* An entry being calibrated again, or in the dry run, has won nothing yet.
LEMMA CurrentWonNothing ==
  ASSUME TypeInv, InTurn, OnlyCalibrated,
         DryRun \/ DryRunFails \/ Recalibrate \/ RecalibrateFails
  PROVE  \A e \in Edges : top_rated[e] # NULL => top_rated[e] # queue_cur
<1> USE DEF TypeInv
<1>1. CASE DryRun \/ DryRunFails
  <2>1. queue_cur \in Seeds
    BY <1>1 DEF DryRun, DryRunFails, CurrentInv
  <2> QED BY <1>1, <2>1 DEF DryRun, DryRunFails, InTurn, Seeds
<1>2. CASE Recalibrate \/ RecalibrateFails
  <2>1. cal_failed[queue_cur] # 0
    BY <1>2 DEF Recalibrate, RecalibrateFails, CAL_CHANCES
  <2> QED BY <2>1 DEF OnlyCalibrated
<1> QED BY <1>1, <1>2

\* A calibration is taken back only from an entry that has won nothing.
LEMMA CalibratedStep ==
  TypeInv /\ PlaceInv /\ [Next]_vars => OnlyCalibrated'
<1> SUFFICES ASSUME TypeInv, InQueue, InTurn, OnlyCalibrated, [Next]_vars
             PROVE  OnlyCalibrated'
  BY DEF PlaceInv
<1> USE DEF TypeInv
<1>0. Queue \subseteq Seeds /\ n \in Nat /\ 0 \in 0 .. n /\ 1 \in 0 .. n
  BY QueueInSeeds
<1>1. CASE ScoreByte
  <2>1. i \in Edges /\ scoring \in Seeds
    BY <1>1, MapAssumption DEF ScoreByte, TypeOK, CurrentInv, Edges
  <2>2. \A e \in Edges : top_rated'[e] \in {top_rated[e], scoring}
    BY <1>1, <2>1 DEF ScoreByte, Win, TypeOK, winners
  <2> QED BY <1>1, <2>2 DEF ScoreByte, OnlyCalibrated, entries
<1>2. CASE ScoreReturn
  <2>1. pc = "score" /\ pc' = return /\ pc' # "score"
        /\ UNCHANGED <<top_rated, cal_failed, queue_cur>>
    BY <1>2 DEF ScoreReturn, TypeOK, entries, winners
  <2> QED BY <2>1 DEF OnlyCalibrated
<1>3. CASE DryRun \/ Recalibrate
  <2>1. queue_cur \in Seeds
    BY <1>3 DEF DryRun, Recalibrate, CurrentInv
  <2>2. PICK t \in Traces, ret \in {"dryNext", Ready(queue_cur), "end"} :
          Calibrated(queue_cur, t, ret)
    BY <1>3 DEF DryRun, Recalibrate
  <2>3. cal_failed' = [cal_failed EXCEPT ![queue_cur] = 0] /\ scoring' = queue_cur
        /\ pc' = "score"
    BY <2>1, <2>2, CalibratedLeaves DEF Traces
  <2>4. UNCHANGED <<top_rated, queue_cur>>
    BY <1>3 DEF DryRun, Recalibrate, winners
  <2>5. cal_failed'[queue_cur] = 0
    BY <2>1, <2>3 DEF TypeOK
  <2>6. \A e \in Edges : top_rated[e] # NULL => cal_failed'[top_rated[e]] = 0
    BY <2>1, <2>3 DEF OnlyCalibrated, TypeOK
  <2> QED BY <2>3, <2>4, <2>5, <2>6 DEF OnlyCalibrated
<1>4. CASE DryRunFails \/ RecalibrateFails
  <2>1. queue_cur \in Seeds
    BY <1>4 DEF DryRunFails, RecalibrateFails, CurrentInv
  <2>2. \E k \in 0 .. CAL_CHANCES : cal_failed' = [cal_failed EXCEPT ![queue_cur] = k]
    <3>1. CAL_CHANCES \in 0 .. CAL_CHANCES
      BY DEF CAL_CHANCES
    <3>2. RecalibrateFails => cal_failed[queue_cur] + 1 \in 0 .. CAL_CHANCES
      BY <2>1 DEF RecalibrateFails, CAL_CHANCES, TypeOK
    <3> QED BY <1>4, <3>1, <3>2 DEF DryRunFails, RecalibrateFails, Failed
  <2>3. UNCHANGED <<top_rated, queue_cur>> /\ pc' \notin {"score", "trim"}
    BY <1>4 DEF DryRunFails, RecalibrateFails, winners
  <2>4. \A e \in Edges : top_rated[e] # NULL => top_rated[e] # queue_cur
    BY <1>4, CurrentWonNothing
  <2>5. \A e \in Edges : top_rated[e] # NULL => cal_failed'[top_rated[e]] = 0
    BY <2>2, <2>4 DEF OnlyCalibrated, TypeOK
  <2> QED BY <2>3, <2>5 DEF OnlyCalibrated
<1>5. CASE Find \/ FindUncalibrated
  <2>1. n + 1 \in Seeds /\ n + 1 # queue_cur
    <3>1. n < MaxSeeds
      BY <1>5 DEF Find, FindUncalibrated, Append
    <3> QED BY <1>0, <3>1, SeedsAssumption DEF Seeds, InQueue
  <2>2. \E k \in {0, 1} : cal_failed' = [cal_failed EXCEPT ![n + 1] = k]
    BY <1>5 DEF Find, FindUncalibrated, Calibrated
  <2>3. UNCHANGED <<top_rated, queue_cur>>
    BY <1>5 DEF Find, FindUncalibrated, Append, winners
  <2>4. \A e \in Edges : top_rated[e] # NULL => top_rated[e] # n + 1
    BY <1>0 DEF InQueue
  <2>5. \A e \in Edges : top_rated[e] # NULL => cal_failed'[top_rated[e]] = 0
    BY <2>2, <2>4 DEF OnlyCalibrated, TypeOK
  <2>6. CASE Find
    <3>1. PICK t \in Traces : Calibrated(n + 1, t, "work")
      BY <2>6 DEF Find
    <3>2. scoring' = n + 1 /\ pc' = "score" /\ return' = "work"
          /\ cal_failed' = [cal_failed EXCEPT ![n + 1] = 0]
      BY <2>1, <3>1, CalibratedLeaves DEF Traces
    <3>3. cal_failed'[scoring'] = 0
      BY <2>1, <3>2 DEF TypeOK
    <3> QED BY <2>3, <2>5, <3>2, <3>3 DEF OnlyCalibrated
  <2>7. CASE FindUncalibrated
    BY <2>3, <2>5, <2>7 DEF FindUncalibrated, OnlyCalibrated
  <2> QED BY <1>5, <2>6, <2>7
<1>6. CASE Trim
  BY <1>6 DEF Trim, Score, OnlyCalibrated, winners
<1>7. CASE Enter
  BY <1>7 DEF Enter, Ready, OnlyCalibrated, entries, winners
<1>8. CASE UNCHANGED vars
  BY <1>8 DEF vars, OnlyCalibrated, entries, winners, loops
<1>9. CASE \/ DryRunNext \/ CullStart \/ CullNotNeeded \/ CullByte \/ CullMark \/ Pick
           \/ Skip \/ Hopeless \/ TrimNothing \/ WorkDone
           \/ Abandon \/ NextEntry \/ WriteQueue \/ TrimAborted \/ Stop
  <2>1. pc' \notin {"trim", "score"} /\ UNCHANGED <<top_rated, cal_failed>>
    BY <1>9 DEF DryRunNext, CullStart, CullNotNeeded, CullByte, CullMark, Pick, Skip,
       Hopeless, TrimNothing, WorkDone, Abandon, NextEntry, WriteQueue, TrimAborted,
       Stop, winners, entries
  <2> QED BY <2>1 DEF OnlyCalibrated
<1> QED
  BY <1>1, <1>2, <1>3, <1>4, <1>5, <1>6, <1>7, <1>8, <1>9, Zenon
     DEF Next, FuzzerStep, FuzzOne

LEMMA PlaceInit == Init => PlaceInv
  BY InQueueInit, InTurnInit, CalibratedInit DEF PlaceInv

LEMMA PlaceStep == TypeInv /\ PlaceInv /\ [Next]_vars => PlaceInv'
  BY InQueueStep, InTurnStep, CalibratedStep DEF PlaceInv

-----------------------------------------------------------------------------
(* The count of the entries not fuzzed.                                    *)

Unfuzzed == {q \in Queue : ~was_fuzzed[q]}

LEMMA QueueFinite ==
  ASSUME TypeOK, NEW S, S \subseteq Queue
  PROVE  IsFiniteSet(S) /\ Cardinality(S) \in Nat /\ Cardinality(S) <= n
<1>1. n \in Nat
  BY QueueInSeeds
<1>2. IsFiniteSet(Queue) /\ Cardinality(Queue) = n
  BY <1>1, FS_Interval DEF Queue
<1> QED BY <1>2, FS_Subset, FS_CardinalityType

\* The counters are far from wrapping around.
LEMMA DecCounts == \A x \in 1 .. MaxSeeds : Dec(x) = x - 1
<1> SUFFICES ASSUME NEW x \in 1 .. MaxSeeds PROVE Dec(x) = x - 1
  OBVIOUS
<1>1. MaxSeeds \in Nat /\ MapSize \in Nat /\ MapSize >= 1 /\ Wrap \in Nat
      /\ Wrap > MaxSeeds * MapSize
  BY SeedsAssumption, MapAssumption, WrapAssumption
<1>2. MaxSeeds * MapSize >= MaxSeeds
  BY <1>1
<1>3. x - 1 >= 0 /\ x - 1 < Wrap /\ Wrap > 0 /\ x - 1 \in Int
  BY <1>1, <1>2
<1>4. (x + Wrap - 1) % Wrap = x - 1
  BY <1>1, <1>3
<1> QED BY <1>4 DEF Dec

LEMMA UnfuzzedInit == Init => NotFuzzedCount
<1> SUFFICES ASSUME Init PROVE NotFuzzedCount
  OBVIOUS
<1>1. Unfuzzed = 1 .. InitSeeds
  BY SeedsAssumption DEF Init, Unfuzzed, Queue, Seeds
<1>2. Cardinality(1 .. InitSeeds) = InitSeeds
  BY FS_Interval, SeedsAssumption
<1> QED BY <1>1, <1>2 DEF Init, NotFuzzedCount, Unfuzzed

LEMMA UnfuzzedStep ==
  TypeInv /\ InQueue /\ NotFuzzedCount /\ [Next]_vars => NotFuzzedCount'
<1> SUFFICES ASSUME TypeInv, InQueue, NotFuzzedCount, [Next]_vars, writes' = 0
             PROVE  pending_not_fuzzed' = Cardinality(Unfuzzed')
  BY DEF NotFuzzedCount, Unfuzzed
<1> USE DEF TypeInv
<1>0. Queue \subseteq Seeds /\ n \in Nat
  BY QueueInSeeds
<1>1. Unfuzzed \subseteq Queue
  BY DEF Unfuzzed
<1>2. IsFiniteSet(Unfuzzed) /\ Cardinality(Unfuzzed) \in Nat /\ Cardinality(Unfuzzed) <= n
  BY <1>1, QueueFinite
<1>3. CASE Find \/ FindUncalibrated
  <2>1. /\ n' = n + 1 /\ pending_not_fuzzed' = pending_not_fuzzed + 1
        /\ UNCHANGED <<was_fuzzed, writes>> /\ n < MaxSeeds
    BY <1>3 DEF Find, FindUncalibrated, Append
  <2>2. n + 1 \in Seeds \ Queue
    BY <1>0, <2>1, SeedsAssumption DEF Seeds, Queue
  <2>3. Queue' = Queue \cup {n + 1}
    BY <1>0, <2>1 DEF Queue
  <2>4. Unfuzzed' = Unfuzzed \cup {n + 1} /\ n + 1 \notin Unfuzzed
    BY <2>1, <2>2, <2>3 DEF Unfuzzed, InQueue
  <2>5. Cardinality(Unfuzzed') = Cardinality(Unfuzzed) + 1
    BY <1>2, <2>4, FS_AddElement
  <2> QED BY <2>1, <2>5 DEF NotFuzzedCount, Unfuzzed
<1>4. CASE Abandon
  <2>1. queue_cur \in Queue /\ UNCHANGED <<n, writes>>
    BY <1>4 DEF Abandon, CurrentInv, InQueue, Queue, Seeds
  <2>2. pending_not_fuzzed = Cardinality(Unfuzzed)
    BY <2>1 DEF NotFuzzedCount, Unfuzzed
  <2>3. CASE ~was_fuzzed[queue_cur] /\ cal_failed[queue_cur] = 0
    <3>1. /\ was_fuzzed' = [was_fuzzed EXCEPT ![queue_cur] = TRUE]
          /\ pending_not_fuzzed' = Dec(pending_not_fuzzed)
      BY <1>4, <2>3 DEF Abandon, Account
    <3>2. queue_cur \in Unfuzzed /\ Unfuzzed' = Unfuzzed \ {queue_cur}
      BY <1>0, <2>1, <2>3, <3>1 DEF Unfuzzed, TypeOK, Queue
    <3>3. Cardinality(Unfuzzed') = Cardinality(Unfuzzed) - 1
      BY <1>2, <3>2, FS_RemoveElement
    <3>4. Cardinality(Unfuzzed) # 0
      BY <1>2, <3>2, FS_EmptySet
    <3>5. pending_not_fuzzed \in 1 .. MaxSeeds
      BY <1>2, <2>2, <3>4, SeedsAssumption DEF TypeOK, Seeds
    <3> QED BY <2>2, <3>1, <3>3, <3>5, DecCounts
  <2>4. CASE ~ (~was_fuzzed[queue_cur] /\ cal_failed[queue_cur] = 0)
    <3>1. UNCHANGED <<was_fuzzed, pending_not_fuzzed>>
      BY <1>4, <2>4, Zenon DEF Abandon, Account
    <3> QED BY <2>1, <2>2, <3>1 DEF Unfuzzed, Queue
  <2> QED BY <2>3, <2>4
<1>5. CASE ~ (Find \/ FindUncalibrated \/ Abandon \/ WriteQueue)
  <2>1. UNCHANGED <<n, was_fuzzed, pending_not_fuzzed, writes>>
    BY <1>5 DEF Next, FuzzerStep, FuzzOne, vars, entries, flags, winners, counters,
       loops, ScoreByte, ScoreReturn, DryRun, DryRunFails, DryRunNext, CullStart,
       CullNotNeeded, CullByte, CullMark, Pick, Skip, Enter, Hopeless, Recalibrate,
       RecalibrateFails, TrimNothing, Trim, WorkDone, NextEntry, TrimAborted, Stop
  <2> QED BY <2>1 DEF NotFuzzedCount, Unfuzzed, Queue
<1>6. CASE WriteQueue
  BY <1>6 DEF WriteQueue, TypeOK
<1> QED BY <1>3, <1>4, <1>5, <1>6

\* pending_not_fuzzed counts the entries that were not fuzzed, until the monitor
\* overwrites their flags: every new entry is counted and every entry is
\* accounted for once, however often it is picked.
THEOREM NotFuzzedCounted == Spec => []NotFuzzedCount
<1>1. Init => TypeInv /\ PlaceInv /\ NotFuzzedCount
  BY TypeInit, PlaceInit, UnfuzzedInit
<1>2. TypeInv /\ PlaceInv /\ NotFuzzedCount /\ [Next]_vars
        => (TypeInv /\ PlaceInv /\ NotFuzzedCount)'
  BY TypeStep, PlaceStep, UnfuzzedStep DEF PlaceInv
<1> QED BY <1>1, <1>2, PTL DEF Spec

-----------------------------------------------------------------------------
(* The favored seeds cover the bitmap.                                     *)

WinnersInv == RefCounts /\ MiniKept

\* The winner of a byte has a reference, and is queued.
LEMMA WinnerCounted ==
  ASSUME TypeOK, RefCounts, InQueue, NEW e \in Edges, top_rated[e] # NULL
  PROVE  top_rated[e] \in Queue /\ top_rated[e] \in Seeds /\ tc_ref[top_rated[e]] > 0
<1>1. top_rated[e] \in Queue /\ top_rated[e] \in Seeds
  BY QueueInSeeds DEF InQueue, Queue, NULL
<1>2. e \in Won(top_rated[e])
  BY DEF Won
<1>3. Cardinality(Won(top_rated[e])) # 0 /\ Cardinality(Won(top_rated[e])) \in Nat
  BY <1>1, <1>2, WonFinite, FS_EmptySet
<1>4. tc_ref[top_rated[e]] = Cardinality(Won(top_rated[e]))
  BY <1>1 DEF RefCounts, Won
<1> QED BY <1>1, <1>3, <1>4

LEMMA CoverInit == Init => CoverInv
<1> SUFFICES ASSUME Init PROVE CoverInv
  OBVIOUS
<1>1. \A q \in Queue : ~favored[q]
  BY SeedsAssumption DEF Init, Queue, Seeds
<1>2. \A e \in Edges : top_rated[e] = NULL
  BY DEF Init
<1> QED BY <1>1, <1>2 DEF CoverInv

LEMMA CoverStep ==
  TypeInv /\ WinnersInv /\ InQueue /\ CoverInv /\ [Next]_vars => CoverInv'
<1> SUFFICES ASSUME TypeInv, RefCounts, InQueue, CoverInv, [Next]_vars,
                    writes' = 0, ~score_changed'
             PROVE  /\ \A e \in Edges :
                         top_rated'[e] # NULL
                           /\ (pc' = "cullByte" => e < i' \/ e \notin temp_v')
                         => Covered(e)'
                    /\ \A q \in Queue' : favored'[q] => tc_ref'[q] > 0
  BY DEF CoverInv, WinnersInv
<1> USE DEF TypeInv
<1>0. Queue \subseteq Seeds /\ n \in Nat
  BY QueueInSeeds
<1>1. CASE ScoreByte
  <2>1. UNCHANGED <<winners, score_changed>> /\ pc = "score"
    BY <1>1 DEF ScoreByte, Win
  <2>2. UNCHANGED <<n, favored, writes, pc>>
    BY <1>1 DEF ScoreByte, entries, flags
  <2> QED BY <2>1, <2>2 DEF CoverInv, Covered, Queue, winners
<1>2. CASE CullStart
  <2>1. temp_v' = Edges /\ i' = 0 /\ pc' = "cullByte" /\ \A q \in Seeds : ~favored'[q]
    BY <1>2 DEF CullStart
  <2>2. Queue' = Queue
    BY <1>2 DEF CullStart, Queue, entries
  <2> QED BY <1>0, <2>1, <2>2 DEF Edges
<1>3. CASE CullByte
  <2>1. /\ i \in Edges /\ i' = i + 1 /\ pc = "cullByte" /\ pc' = "cullByte"
        /\ UNCHANGED <<top_rated, tc_ref, trace_mini, n, score_changed, writes>>
    BY <1>3, MapAssumption DEF CullByte, TypeOK, Edges, winners, entries
  <2>2. Queue' = Queue
    BY <2>1 DEF Queue
  <2>3. /\ \A e \in Edges :
             top_rated[e] # NULL /\ (e < i \/ e \notin temp_v) => Covered(e)
        /\ \A q \in Queue : favored[q] => tc_ref[q] > 0
    BY <2>1 DEF CoverInv
  <2>4. CASE Uncovered(i) /\ Favor(i)
    <3> DEFINE w == top_rated[i]
    <3>1. w \in Queue /\ w \in Seeds /\ tc_ref[w] > 0
      BY <2>1, <2>4, WinnerCounted DEF Uncovered
    <3>2. temp_v' = temp_v \ trace_mini[w] /\ favored' = [favored EXCEPT ![w] = TRUE]
      BY <2>4 DEF Favor
    <3>3. \A q \in Seeds : favored'[q] <=> favored[q] \/ q = w
      BY <3>1, <3>2 DEF TypeOK
    <3>4. \A e \in Edges : top_rated[e] # NULL /\ Covered(e) => Covered(e)'
      <4> SUFFICES ASSUME NEW e \in Edges, top_rated[e] # NULL, Covered(e)
                   PROVE  Covered(e)'
        OBVIOUS
      <4>1. top_rated[e] \in Seeds
        BY DEF TypeOK
      <4> QED BY <1>0, <2>1, <2>2, <3>3, <4>1 DEF Covered
    <3>5. \A e \in Edges :
            top_rated[e] # NULL /\ (e < i' \/ e \notin temp_v') => Covered(e)'
      <4> SUFFICES ASSUME NEW e \in Edges, top_rated[e] # NULL,
                          e < i' \/ e \notin temp_v'
                   PROVE  Covered(e)'
        OBVIOUS
      <4>1. CASE e < i \/ e \notin temp_v
        BY <2>3, <3>4, <4>1
      <4>2. CASE e = i
        BY <2>1, <3>1, <3>3, <4>2 DEF Covered
      <4>3. CASE e \in trace_mini[w]
        BY <2>1, <2>2, <3>1, <3>3, <4>3 DEF Covered
      <4>4. e < i' => e < i \/ e = i
        BY <2>1 DEF Edges
      <4> QED BY <3>2, <4>1, <4>2, <4>3, <4>4
    <3>6. \A q \in Queue : favored'[q] => tc_ref[q] > 0
      BY <1>0, <2>3, <3>1, <3>3
    <3> QED BY <2>1, <2>2, <3>5, <3>6
  <2>5. CASE ~Uncovered(i) /\ UNCHANGED <<favored, temp_v>>
    <3>1. \A e \in Edges : Covered(e) => Covered(e)'
      BY <2>1, <2>2, <2>5 DEF Covered
    <3>2. \A e \in Edges : e < i' => e < i \/ e = i
      BY <2>1 DEF Edges
    <3>3. top_rated[i] = NULL \/ i \notin temp_v
      BY <2>5 DEF Uncovered
    <3> QED BY <2>1, <2>2, <2>3, <2>5, <3>1, <3>2, <3>3
  <2> QED BY <1>3, <2>4, <2>5 DEF CullByte
<1>4. CASE CullMark
  <2>1. pc = "cullByte" /\ i = MapSize
        /\ UNCHANGED <<top_rated, tc_ref, trace_mini, n, score_changed, writes, favored>>
    BY <1>4 DEF CullMark, winners, entries
  <2>2. \A e \in Edges : e < i
    BY <2>1, MapAssumption DEF Edges
  <2> QED BY <2>1, <2>2 DEF CoverInv, Covered, Queue
<1>5. CASE Find \/ FindUncalibrated
  <2>1. /\ n' = n + 1 /\ n < MaxSeeds /\ pc = "work"
        /\ UNCHANGED <<favored, top_rated, tc_ref, trace_mini, score_changed, writes>>
    BY <1>5 DEF Find, FindUncalibrated, Append, flags, winners
  <2>2. Queue' = Queue \cup {n + 1} /\ n + 1 \in Seeds \ Queue
    BY <1>0, <2>1, SeedsAssumption DEF Queue, Seeds
  <2>3. ~favored[n + 1]
    BY <2>2 DEF InQueue
  <2> QED BY <2>1, <2>2, <2>3 DEF CoverInv, Covered
<1>6. CASE WriteQueue
  BY <1>6 DEF WriteQueue, TypeOK
<1>7. CASE ~ \/ ScoreByte \/ CullStart \/ CullByte \/ CullMark
             \/ Find \/ FindUncalibrated \/ WriteQueue
  <2>1. /\ UNCHANGED <<favored, n, top_rated, tc_ref, trace_mini, score_changed, writes>>
        /\ (pc = "cullByte" => UNCHANGED vars)
    BY <1>7 DEF Next, FuzzerStep, FuzzOne, vars, entries, flags, winners, loops,
       ScoreReturn, DryRun, DryRunFails, DryRunNext, CullNotNeeded, Pick, Skip, Enter,
       Hopeless, Recalibrate, RecalibrateFails, TrimNothing, Trim, WorkDone, Abandon,
       NextEntry, TrimAborted, Stop
  <2>2. pc = "cullByte" => pc' = "cullByte" /\ i' = i /\ temp_v' = temp_v
    BY <2>1 DEF vars, loops
  <2> QED BY <2>1, <2>2 DEF CoverInv, Covered, Queue
<1> QED BY <1>1, <1>2, <1>3, <1>4, <1>5, <1>6, <1>7

\* Once culled, the favored seeds cover every byte of the bitmap that has a
\* winner, and each of them is a winner: cull_queue drops no byte, whichever
\* traces the seeds were scored on.
THEOREM FavoredCovers == Spec => []FavoredCover
<1>1. Init => TypeInv /\ WinnersInv /\ PlaceInv /\ CoverInv
  BY TypeInit, WinnersInit, PlaceInit, CoverInit DEF WinnersInv
<1>2. TypeInv /\ WinnersInv /\ PlaceInv /\ CoverInv /\ [Next]_vars
        => (TypeInv /\ WinnersInv /\ PlaceInv /\ CoverInv)'
  BY TypeStep, WinnersStep, PlaceStep, CoverStep DEF PlaceInv, WinnersInv
<1>3. CoverInv => FavoredCover
  BY DEF CoverInv, Covered, FavoredCover
<1> QED BY <1>1, <1>2, <1>3, PTL DEF Spec

-----------------------------------------------------------------------------
(* Stable traces: the winner of a byte has that byte in its trace.         *)

LEMMA OwnTraceInit == Init => OwnTrace
<1> SUFFICES ASSUME Init PROVE OwnTrace
  OBVIOUS
<1> QED BY DEF Init, OwnTrace

\* The entries whose kept trace changes have won nothing.
LEMMA OwnTraceKept ==
  ASSUME TypeOK, OwnTrace, UNCHANGED winners,
         NEW q \in Seeds, NEW t, exec_cksum' = [exec_cksum EXCEPT ![q] = t],
         \A e \in Edges : top_rated[e] # NULL => top_rated[e] # q
  PROVE  \A e \in Edges : top_rated'[e] # NULL =>
           /\ e \in exec_cksum'[top_rated'[e]]
           /\ trace_mini'[top_rated'[e]] = exec_cksum'[top_rated'[e]]
<1> SUFFICES ASSUME NEW e \in Edges, top_rated[e] # NULL
             PROVE  /\ e \in exec_cksum'[top_rated[e]]
                    /\ trace_mini[top_rated[e]] = exec_cksum'[top_rated[e]]
  BY DEF winners
<1>1. top_rated[e] \in Seeds /\ top_rated[e] # q
  BY DEF TypeOK
<1>2. exec_cksum'[top_rated[e]] = exec_cksum[top_rated[e]]
  BY <1>1 DEF TypeOK
<1> QED BY <1>2 DEF OwnTrace

LEMMA OwnTraceWin ==
  ASSUME TypeOK, MiniKept, RefCounts, OwnTrace, NEW q \in Seeds, NEW b \in Edges,
         trace_bits = exec_cksum[q], b \in trace_bits, Win(q, b),
         UNCHANGED exec_cksum
  PROVE  \A e \in Edges : top_rated'[e] # NULL =>
           /\ e \in exec_cksum'[top_rated'[e]]
           /\ trace_mini'[top_rated'[e]] = exec_cksum'[top_rated'[e]]
<1> SUFFICES ASSUME NEW e \in Edges, top_rated'[e] # NULL
             PROVE  /\ e \in exec_cksum[top_rated'[e]]
                    /\ trace_mini'[top_rated'[e]] = exec_cksum[top_rated'[e]]
  OBVIOUS
<1> DEFINE p == top_rated'[e]
<1>1. top_rated' = [top_rated EXCEPT ![b] = q]
      /\ trace_mini' = [Freed(b) EXCEPT ![q] = IF @ = NoTrace THEN trace_bits ELSE @]
  BY DEF Win
<1>2. p = (IF e = b THEN q ELSE top_rated[e]) /\ p \in Seeds
  BY <1>1 DEF TypeOK
<1>3. Freed(b)[p] = IF p = top_rated[b] /\ tc_ref[p] = 1 THEN NoTrace ELSE trace_mini[p]
  BY <1>2 DEF Freed
<1>4. CASE p = q
  <2>1. trace_mini'[p] = IF Freed(b)[p] = NoTrace THEN trace_bits ELSE Freed(b)[p]
    BY <1>1, <1>2, <1>4 DEF Freed
  <2>2. trace_mini[q] = NoTrace \/ trace_mini[q] = exec_cksum[q]
    BY DEF MiniKept, OwnTrace, NULL, Seeds
  <2>3. trace_mini'[p] = exec_cksum[p]
    BY <1>3, <1>4, <2>1, <2>2
  <2>4. e \in exec_cksum[p]
    BY <1>2, <1>4 DEF OwnTrace
  <2> QED BY <2>3, <2>4
<1>5. CASE p # q
  <2>1. e # b /\ p = top_rated[e]
    BY <1>2, <1>5
  <2>2. trace_mini'[p] = Freed(b)[p]
    BY <1>1, <1>2, <1>5 DEF Freed
  <2>3. ~ (p = top_rated[b] /\ tc_ref[p] = 1)
    <3> SUFFICES ASSUME p = top_rated[b], tc_ref[p] = 1 PROVE FALSE
      OBVIOUS
    <3>1. Cardinality(Won(p)) = 1 /\ IsFiniteSet(Won(p)) /\ b \in Won(p) /\ e \in Won(p)
      BY <1>2, <2>1, WonFinite DEF Won, RefCounts
    <3>2. IsFiniteSet(Won(p) \ {b}) /\ Cardinality(Won(p) \ {b}) = 0
      BY <3>1, FS_RemoveElement
    <3>3. Won(p) \ {b} = {}
      BY <3>2, FS_EmptySet
    <3> QED BY <2>1, <3>1, <3>3
  <2> QED BY <1>2, <1>3, <2>1, <2>2, <2>3 DEF OwnTrace
<1> QED BY <1>4, <1>5

LEMMA OwnTraceStep ==
  TypeInv /\ WinnersInv /\ PlaceInv /\ Stable /\ OwnTrace /\ [Next]_vars => OwnTrace'
<1> SUFFICES ASSUME TypeInv, RefCounts, MiniKept, InQueue, InTurn, OnlyCalibrated,
                    Stable, OwnTrace, [Next]_vars
             PROVE  OwnTrace'
  BY DEF PlaceInv, WinnersInv
<1> USE DEF TypeInv
<1>0. Queue \subseteq Seeds /\ n \in Nat
  BY QueueInSeeds
<1>1. CASE ScoreByte
  <2>1. i \in Edges /\ scoring \in Seeds /\ trace_bits = exec_cksum[scoring]
    BY <1>1, MapAssumption DEF ScoreByte, TypeOK, CurrentInv, Edges, OwnTrace
  <2>2. UNCHANGED <<exec_cksum, trace_bits, scoring, pc>>
    BY <1>1 DEF ScoreByte, entries
  <2>3. CASE i \in trace_bits /\ Win(scoring, i)
    BY <2>1, <2>2, <2>3, OwnTraceWin DEF OwnTrace
  <2>4. CASE UNCHANGED winners
    BY <2>2, <2>4 DEF OwnTrace, winners
  <2> QED BY <1>1, <2>3, <2>4 DEF ScoreByte
<1>2. CASE ScoreReturn
  <2>1. pc' # "score" /\ UNCHANGED <<winners, exec_cksum>>
    BY <1>2 DEF ScoreReturn, TypeOK, entries
  <2> QED BY <2>1 DEF OwnTrace, winners
<1>3. CASE DryRun \/ Recalibrate
  <2>1. queue_cur \in Seeds /\ UNCHANGED winners
    BY <1>3 DEF DryRun, Recalibrate, CurrentInv
  <2>2. PICK t \in Traces, ret \in {"dryNext", Ready(queue_cur), "end"} :
          Calibrated(queue_cur, t, ret)
    BY <1>3 DEF DryRun, Recalibrate
  <2>3. /\ exec_cksum' = [exec_cksum EXCEPT ![queue_cur] = t]
        /\ scoring' = queue_cur /\ trace_bits' = t
    BY <2>1, <2>2, CalibratedLeaves DEF Traces
  <2>4. \A e \in Edges : top_rated[e] # NULL => top_rated[e] # queue_cur
    BY <1>3, CurrentWonNothing
  <2>5. trace_bits' = exec_cksum'[scoring']
    BY <2>1, <2>3 DEF TypeOK
  <2> QED BY <2>1, <2>3, <2>4, <2>5, OwnTraceKept DEF OwnTrace
<1>4. CASE DryRunFails \/ RecalibrateFails
  <2>1. queue_cur \in Seeds /\ UNCHANGED winners /\ pc' # "score"
    BY <1>4 DEF DryRunFails, RecalibrateFails, CurrentInv
  <2>2. PICK t \in Traces \cup {NoTrace} : exec_cksum' = [exec_cksum EXCEPT ![queue_cur] = t]
    BY <1>4 DEF DryRunFails, RecalibrateFails, Failed
  <2>4. \A e \in Edges : top_rated[e] # NULL => top_rated[e] # queue_cur
    BY <1>4, CurrentWonNothing
  <2> QED BY <2>1, <2>2, <2>4, OwnTraceKept DEF OwnTrace
<1>5. CASE Find \/ FindUncalibrated
  <2>1. n + 1 \in Seeds /\ UNCHANGED winners
    <3>1. n < MaxSeeds /\ UNCHANGED winners
      BY <1>5 DEF Find, FindUncalibrated, Append
    <3> QED BY <1>0, <3>1, SeedsAssumption DEF Seeds, InQueue
  <2>2. \A e \in Edges : top_rated[e] # NULL => top_rated[e] # n + 1
    BY <1>0 DEF InQueue
  <2>3. CASE Find
    <3>1. PICK t \in Traces : Calibrated(n + 1, t, "work")
      BY <2>3 DEF Find
    <3>2. /\ exec_cksum' = [exec_cksum EXCEPT ![n + 1] = t]
          /\ scoring' = n + 1 /\ trace_bits' = t
      BY <2>1, <3>1, CalibratedLeaves DEF Traces
    <3>3. trace_bits' = exec_cksum'[scoring']
      BY <2>1, <3>2 DEF TypeOK
    <3> QED BY <2>1, <2>2, <3>2, <3>3, OwnTraceKept DEF OwnTrace
  <2>4. CASE FindUncalibrated
    <3>1. PICK t \in Traces : exec_cksum' = [exec_cksum EXCEPT ![n + 1] = t]
      BY <2>4 DEF FindUncalibrated
    <3>2. pc' # "score"
      BY <2>4 DEF FindUncalibrated
    <3> QED BY <2>1, <2>2, <3>1, <3>2, OwnTraceKept DEF OwnTrace
  <2> QED BY <1>5, <2>3, <2>4
<1>6. CASE Trim
  BY <1>6 DEF Trim, Score, OwnTrace, winners
<1>7. CASE UNCHANGED vars
  BY <1>7 DEF vars, OwnTrace, entries, winners, loops
<1>8. CASE \/ DryRunNext \/ CullStart \/ CullNotNeeded \/ CullByte \/ CullMark \/ Pick
           \/ Skip \/ Enter \/ Hopeless \/ TrimNothing \/ WorkDone
           \/ Abandon \/ NextEntry \/ WriteQueue \/ TrimAborted \/ Stop
  <2>1. pc' # "score" /\ UNCHANGED <<winners, exec_cksum>>
    BY <1>8 DEF DryRunNext, CullStart, CullNotNeeded, CullByte, CullMark, Pick, Skip,
       Enter, Ready, Hopeless, TrimNothing, WorkDone, Abandon, NextEntry, WriteQueue,
       TrimAborted, Stop, entries
  <2> QED BY <2>1 DEF OwnTrace, winners
<1> QED
  BY <1>1, <1>2, <1>3, <1>4, <1>5, <1>6, <1>7, <1>8, Zenon
     DEF Next, FuzzerStep, FuzzOne

-----------------------------------------------------------------------------
(* Stable traces: the winner of a byte is the cheapest.                    *)

LEMMA RatedInit == Init => RatedInv
<1> SUFFICES ASSUME Init PROVE RatedInv
  OBVIOUS
<1> QED BY DEF Init, RatedInv, NoTrace

\* The byte the loop is at gets a winner no dearer than every seed that hits it.
LEMMA RatedByte ==
  ASSUME TypeInv, PlaceInv, OwnTrace, RatedInv, ScoreByte
  PROVE  RatedInv'
<1> USE DEF TypeInv
<1>1. /\ i \in Edges /\ scoring \in Seeds /\ pc = "score" /\ i' = i + 1
      /\ trace_bits = exec_cksum[scoring] /\ cal_failed[scoring] = 0
  BY MapAssumption DEF ScoreByte, TypeOK, CurrentInv, Edges, OwnTrace, PlaceInv,
     OnlyCalibrated
<1>2. UNCHANGED <<exec_cksum, cal_failed, cost, scoring, pc>>
  BY DEF ScoreByte, entries
<1>3. \A q \in Seeds : exec_cksum[q] \subseteq Edges
  BY DEF TypeOK
<1> SUFFICES ASSUME NEW q \in Seeds, NEW e \in exec_cksum[q], cal_failed[q] = 0,
                    q = scoring => e < i + 1
             PROVE  top_rated'[e] # NULL /\ cost[top_rated'[e]] <= cost[q]
  BY <1>1, <1>2 DEF RatedInv, Rated
<1>4. e \in Edges /\ cost[q] \in Int /\ cost[scoring] \in Int
  BY <1>1, <1>3 DEF TypeOK, Costs
<1>5. ~ (q = scoring /\ e = i) => Rated(q, e)
  <2>1. q = scoring => e < i \/ e = i
    BY <1>1, <1>4 DEF Edges
  <2> QED BY <1>1, <2>1 DEF RatedInv
<1>6. CASE i \in trace_bits /\ ~Loses(scoring, i) /\ Win(scoring, i)
  <2>1. top_rated' = [top_rated EXCEPT ![i] = scoring]
    BY <1>6 DEF Win
  <2>2. CASE e # i
    BY <1>4, <1>5, <2>1, <2>2 DEF Rated, TypeOK
  <2>3. CASE e = i
    <3>1. top_rated'[e] = scoring /\ scoring # NULL
      BY <1>1, <2>1, <2>3 DEF TypeOK, Seeds, NULL
    <3>2. CASE q = scoring
      BY <1>4, <3>1, <3>2
    <3>3. CASE q # scoring
      <4>1. Rated(q, i)
        BY <1>5, <2>3, <3>3
      <4>2. top_rated[i] \in Seeds /\ cost[top_rated[i]] \in Int
        BY <1>1, <4>1 DEF Rated, TypeOK, Costs
      <4>3. cost[scoring] <= cost[top_rated[i]]
        BY <1>4, <1>6, <4>1, <4>2 DEF Loses, Rated
      <4> QED BY <1>4, <3>1, <4>1, <4>2, <4>3 DEF Rated
    <3> QED BY <3>2, <3>3
  <2> QED BY <2>2, <2>3
<1>7. CASE ~ (i \in trace_bits /\ ~Loses(scoring, i)) /\ UNCHANGED winners
  <2>1. CASE q = scoring /\ e = i
    <3>1. Loses(scoring, i)
      BY <1>1, <1>7, <2>1
    <3>2. top_rated[i] \in Seeds /\ cost[top_rated[i]] \in Int
      BY <1>1, <3>1 DEF Loses, TypeOK, Costs
    <3> QED BY <1>4, <1>7, <2>1, <3>1, <3>2 DEF Loses, winners
  <2>2. CASE ~ (q = scoring /\ e = i)
    BY <1>5, <1>7, <2>2 DEF Rated, winners
  <2> QED BY <2>1, <2>2
<1> QED BY <1>6, <1>7 DEF ScoreByte

\* A seed that is going to be scored may only have become cheaper, when it is
\* the winner of a byte.
LEMMA RatedCall ==
  ASSUME TypeOK, RatedInv, pc \notin {"score", "done"}, UNCHANGED winners,
         NEW q \in Seeds, pc' = "score", scoring' = q, i' = 0,
         \A p \in Seeds : p # q =>
           /\ cost'[p] = cost[p] /\ cal_failed'[p] = cal_failed[p]
           /\ exec_cksum'[p] = exec_cksum[p],
         exec_cksum' \in [Seeds -> SUBSET Edges],
         \A e \in Edges : top_rated[e] = q => cost'[q] <= cost[q],
         cost' \in [Seeds -> Costs]
  PROVE  RatedInv'
<1> SUFFICES ASSUME NEW p \in Seeds, NEW e \in exec_cksum'[p], cal_failed'[p] = 0,
                    p = q => e < 0
             PROVE  top_rated[e] # NULL /\ cost'[top_rated[e]] <= cost'[p]
  BY DEF RatedInv, Rated, winners
<1>1. e \in Edges /\ p # q
  BY DEF Edges
<1>2. Rated(p, e)
  BY <1>1 DEF RatedInv
<1>3. /\ top_rated[e] \in Seeds /\ cost[top_rated[e]] \in Int /\ cost'[top_rated[e]] \in Int
      /\ cost[p] \in Int
  BY <1>1, <1>2 DEF Rated, TypeOK, Costs
<1>4. cost'[top_rated[e]] <= cost[top_rated[e]]
  BY <1>1, <1>3
<1> QED BY <1>1, <1>2, <1>3, <1>4 DEF Rated

\* A seed whose calibration fails makes no demand.
LEMMA RatedFails ==
  ASSUME TypeOK, RatedInv, pc \notin {"score", "done"}, pc' # "score",
         UNCHANGED <<winners, cost>>, NEW q \in Seeds, cal_failed'[q] # 0,
         \A p \in Seeds : p # q => /\ cal_failed'[p] = cal_failed[p]
                                   /\ exec_cksum'[p] = exec_cksum[p]
  PROVE  RatedInv'
<1> SUFFICES ASSUME NEW p \in Seeds, NEW e \in exec_cksum'[p], cal_failed'[p] = 0
             PROVE  Rated(p, e)'
  BY DEF RatedInv
<1>1. p # q
  OBVIOUS
<1>2. Rated(p, e)
  BY <1>1 DEF RatedInv
<1> QED BY <1>2 DEF Rated, winners

LEMMA RatedStep ==
  TypeInv /\ PlaceInv /\ Stable /\ OwnTrace /\ RatedInv /\ [Next]_vars => RatedInv'
<1> SUFFICES ASSUME TypeInv, InQueue, InTurn, OnlyCalibrated, Stable, OwnTrace, RatedInv,
                    [Next]_vars
             PROVE  RatedInv'
  BY DEF PlaceInv
<1> USE DEF TypeInv
<1>0. Queue \subseteq Seeds /\ n \in Nat
  BY QueueInSeeds
<1>t. TypeOK'
  BY TypeStep
<1>1. CASE ScoreByte
  BY <1>1, RatedByte DEF PlaceInv
<1>2. CASE ScoreReturn
  <2>1. /\ pc = "score" /\ i = MapSize /\ pc' # "score"
        /\ UNCHANGED <<top_rated, cost, exec_cksum, cal_failed>>
    BY <1>2 DEF ScoreReturn, TypeOK, entries, winners
  <2>2. \A q \in Seeds : \A e \in exec_cksum[q] : e < i
    BY <2>1, MapAssumption DEF TypeOK, Edges
  <2> QED BY <2>1, <2>2 DEF RatedInv, Rated
<1>3. CASE DryRun \/ Recalibrate
  <2>1. queue_cur \in Seeds /\ UNCHANGED winners /\ pc \notin {"score", "done"}
    BY <1>3 DEF DryRun, Recalibrate, CurrentInv
  <2>2. PICK t \in Traces, ret \in {"dryNext", Ready(queue_cur), "end"} :
          Calibrated(queue_cur, t, ret)
    BY <1>3 DEF DryRun, Recalibrate
  <2>3. /\ cal_failed' = [cal_failed EXCEPT ![queue_cur] = 0]
        /\ exec_cksum' = [exec_cksum EXCEPT ![queue_cur] = t]
        /\ \A p \in Seeds : p # queue_cur => cost'[p] = cost[p]
        /\ scoring' = queue_cur /\ i' = 0 /\ pc' = "score"
    BY <2>1, <2>2, CalibratedLeaves DEF Traces
  <2>4. \A p \in Seeds : p # queue_cur =>
          cal_failed'[p] = cal_failed[p] /\ exec_cksum'[p] = exec_cksum[p]
    BY <2>3 DEF TypeOK
  <2>5. \A e \in Edges : top_rated[e] # queue_cur
    BY <1>3, <2>1, CurrentWonNothing DEF Seeds, NULL
  <2> QED BY <1>t, <2>1, <2>3, <2>4, <2>5, RatedCall DEF TypeOK
<1>4. CASE DryRunFails \/ RecalibrateFails
  <2>1. queue_cur \in Seeds /\ UNCHANGED <<winners, cost>>
        /\ pc \notin {"score", "done"} /\ pc' # "score"
    BY <1>4 DEF DryRunFails, RecalibrateFails, CurrentInv
  <2>2. PICK t \in Traces \cup {NoTrace} : exec_cksum' = [exec_cksum EXCEPT ![queue_cur] = t]
    BY <1>4 DEF DryRunFails, RecalibrateFails, Failed
  <2>3. \E k \in Int \ {0} : cal_failed' = [cal_failed EXCEPT ![queue_cur] = k]
    <3>1. RecalibrateFails => cal_failed[queue_cur] + 1 \in Int \ {0}
      BY <2>1 DEF RecalibrateFails, CAL_CHANCES
    <3>2. CAL_CHANCES \in Int \ {0}
      BY DEF CAL_CHANCES
    <3> QED BY <1>4, <3>1, <3>2 DEF DryRunFails, RecalibrateFails, Failed
  <2>4. /\ cal_failed'[queue_cur] # 0
        /\ \A p \in Seeds : p # queue_cur =>
             cal_failed'[p] = cal_failed[p] /\ exec_cksum'[p] = exec_cksum[p]
    BY <2>1, <2>2, <2>3 DEF TypeOK
  <2> QED BY <2>1, <2>4, RatedFails
<1>5. CASE Find
  <2>1. PICK t \in Traces : Append(t) /\ Calibrated(n + 1, t, "work")
    BY <1>5 DEF Find
  <2>2. n + 1 \in Seeds /\ UNCHANGED winners /\ pc \notin {"score", "done"}
    BY <1>0, <1>5, <2>1, SeedsAssumption DEF Append, Find, Seeds
  <2>3. /\ cal_failed' = [cal_failed EXCEPT ![n + 1] = 0]
        /\ exec_cksum' = [exec_cksum EXCEPT ![n + 1] = t]
        /\ \A p \in Seeds : p # n + 1 => cost'[p] = cost[p]
        /\ scoring' = n + 1 /\ i' = 0 /\ pc' = "score"
    BY <2>1, <2>2, CalibratedLeaves DEF Traces
  <2>4. \A p \in Seeds : p # n + 1 =>
          cal_failed'[p] = cal_failed[p] /\ exec_cksum'[p] = exec_cksum[p]
    BY <2>3 DEF TypeOK
  <2>5. \A e \in Edges : top_rated[e] # n + 1
    BY <1>0 DEF InQueue
  <2> QED BY <1>t, <2>2, <2>3, <2>4, <2>5, RatedCall DEF TypeOK
<1>6. CASE FindUncalibrated
  <2>1. PICK t \in Traces : Append(t) /\ exec_cksum' = [exec_cksum EXCEPT ![n + 1] = t]
    BY <1>6 DEF FindUncalibrated
  <2>2. /\ n + 1 \in Seeds /\ UNCHANGED <<winners, cost>>
        /\ pc \notin {"score", "done"} /\ pc' # "score"
        /\ cal_failed' = [cal_failed EXCEPT ![n + 1] = 1]
    BY <1>0, <1>6, <2>1, SeedsAssumption DEF Append, FindUncalibrated, Seeds
  <2>3. /\ cal_failed'[n + 1] # 0
        /\ \A p \in Seeds : p # n + 1 =>
             cal_failed'[p] = cal_failed[p] /\ exec_cksum'[p] = exec_cksum[p]
    BY <2>1, <2>2 DEF TypeOK
  <2> QED BY <2>2, <2>3, RatedFails
<1>7. CASE Trim
  <2>1. /\ queue_cur \in Seeds /\ UNCHANGED <<winners, cal_failed, exec_cksum>>
        /\ pc \notin {"score", "done"} /\ pc' = "score" /\ scoring' = queue_cur /\ i' = 0
    BY <1>7 DEF Trim, Score, CurrentInv
  <2>2. PICK k \in Costs : k <= cost[queue_cur] /\ cost' = [cost EXCEPT ![queue_cur] = k]
    BY <1>7 DEF Trim
  <2>3. cost'[queue_cur] <= cost[queue_cur]
        /\ \A p \in Seeds : p # queue_cur => cost'[p] = cost[p]
    BY <2>1, <2>2 DEF TypeOK
  <2> QED BY <1>t, <2>1, <2>3, RatedCall DEF TypeOK
<1>8. CASE TrimAborted \/ Stop
  BY <1>8 DEF TrimAborted, Stop, RatedInv
<1>9. CASE UNCHANGED vars
  BY <1>9 DEF vars, RatedInv, Rated, entries, winners, loops
<1>10. CASE \/ DryRunNext \/ CullStart \/ CullNotNeeded \/ CullByte \/ CullMark \/ Pick
            \/ Skip \/ Enter \/ Hopeless \/ TrimNothing \/ WorkDone
            \/ Abandon \/ NextEntry \/ WriteQueue
  <2>1. /\ pc \notin {"done", "score"} /\ pc' # "score"
        /\ UNCHANGED <<top_rated, cost, exec_cksum, cal_failed>>
    BY <1>10 DEF DryRunNext, CullStart, CullNotNeeded, CullByte, CullMark, Pick, Skip,
       Enter, Ready, Hopeless, TrimNothing, WorkDone, Abandon, NextEntry, WriteQueue,
       entries, winners
  <2> QED BY <2>1 DEF RatedInv, Rated
<1> QED
  BY <1>1, <1>2, <1>3, <1>4, <1>5, <1>6, <1>7, <1>8, <1>9, <1>10, Zenon
     DEF Next, FuzzerStep, FuzzOne

\* The parts that need stable traces.
StableInv == Stable => OwnTrace /\ RatedInv

LEMMA StableInit == Init => StableInv
  BY OwnTraceInit, RatedInit DEF StableInv

LEMMA StableStep ==
  TypeInv /\ WinnersInv /\ PlaceInv /\ StableInv /\ [Next]_vars => StableInv'
  BY OwnTraceStep, RatedStep DEF StableInv

\* With stable traces the winner of a byte is among the cheapest calibrated
\* seeds that hit it: no order of calibrations, trims, finds and failures
\* leaves a dearer winner in top_rated.
THEOREM BestRatedHolds == Spec => [](Stable => BestRated)
<1>1. Init => TypeInv /\ WinnersInv /\ PlaceInv /\ StableInv
  BY TypeInit, WinnersInit, PlaceInit, StableInit DEF WinnersInv
<1>2. TypeInv /\ WinnersInv /\ PlaceInv /\ StableInv /\ [Next]_vars
        => (TypeInv /\ WinnersInv /\ PlaceInv /\ StableInv)'
  BY TypeStep, WinnersStep, PlaceStep, StableStep DEF WinnersInv
<1>3. StableInv => (Stable => BestRated)
  BY DEF StableInv, RatedInv, Rated, BestRated
<1> QED BY <1>1, <1>2, <1>3, PTL DEF Spec

-----------------------------------------------------------------------------
(* Stable traces: the favored counters.                                    *)

LEMMA CrossedOutInit == Init => CrossedOut
  BY DEF Init, CrossedOut

LEMMA CrossedOutStep ==
  TypeInv /\ InQueue /\ CrossedOut /\ [Next]_vars => CrossedOut'
<1> SUFFICES ASSUME TypeInv, InQueue, CrossedOut, [Next]_vars PROVE CrossedOut'
  OBVIOUS
<1> USE DEF TypeInv
<1>1. CASE CullStart
  BY <1>1 DEF CullStart, CrossedOut
<1>2. CASE CullByte
  <2>1. pc = "cullByte" /\ trace_mini' = trace_mini
    BY <1>2 DEF CullByte, winners
  <2>2. CASE Favor(i)
    <3>1. temp_v' = temp_v \ trace_mini[top_rated[i]]
          /\ favored' = [favored EXCEPT ![top_rated[i]] = TRUE]
      BY <2>2 DEF Favor
    <3>2. \A q \in Seeds : favored'[q] => favored[q] \/ q = top_rated[i]
      BY <3>1 DEF TypeOK
    <3> QED BY <2>1, <3>1, <3>2 DEF CrossedOut
  <2>3. CASE UNCHANGED <<favored, temp_v>>
    BY <2>1, <2>3 DEF CrossedOut
  <2> QED BY <1>2, <2>2, <2>3 DEF CullByte
<1>3. CASE UNCHANGED vars
  BY <1>3 DEF vars, CrossedOut, flags, winners, loops
<1>4. CASE ~ (CullStart \/ CullByte \/ UNCHANGED vars)
  <2>1. pc' # "cullByte"
    BY <1>4 DEF Next, FuzzerStep, FuzzOne, ScoreByte, ScoreReturn, DryRun, DryRunFails,
       DryRunNext, CullNotNeeded, CullMark, Pick, Skip, Enter, Ready, Hopeless,
       Recalibrate, RecalibrateFails, Calibrated, Score, TrimNothing, Trim, Find,
       FindUncalibrated, WorkDone, Abandon, NextEntry, WriteQueue, TrimAborted, Stop,
       TypeOK
  <2> QED BY <2>1 DEF CrossedOut
<1> QED BY <1>1, <1>2, <1>3, <1>4

Favored == {q \in Queue : favored[q]}
Pending == {q \in Queue : favored[q] /\ ~was_fuzzed[q]}

\* The counters hold, with stable traces and until the monitor writes.
CountInv == Stable /\ writes = 0 => FavoredCounts

LEMMA CountInit == Init => CountInv
<1> SUFFICES ASSUME Init PROVE CountInv
  OBVIOUS
<1>1. Favored = {} /\ Pending = {}
  BY SeedsAssumption DEF Init, Favored, Pending, Queue, Seeds
<1>2. Cardinality(Favored) = 0 /\ Cardinality(Pending) = 0
  BY <1>1, FS_EmptySet
<1> QED BY <1>2 DEF Init, CountInv, FavoredCounts, Favored, Pending

LEMMA CountsFinite ==
  ASSUME TypeOK
  PROVE  /\ IsFiniteSet(Favored) /\ Cardinality(Favored) \in Nat
         /\ IsFiniteSet(Pending) /\ Cardinality(Pending) \in Nat
         /\ Cardinality(Pending) <= n
<1>1. Favored \subseteq Queue /\ Pending \subseteq Queue
  BY DEF Favored, Pending
<1> QED BY <1>1, QueueFinite

\* The winner that becomes favored was not: the byte it wins is in its trace,
\* and would have been crossed out.
LEMMA CountFavor ==
  ASSUME TypeOK, RefCounts, InQueue, OwnTrace, CrossedOut, FavoredCounts,
         pc = "cullByte", i \in Edges, Uncovered(i), Favor(i),
         UNCHANGED <<n, was_fuzzed>>
  PROVE  FavoredCounts'
<1> DEFINE w == top_rated[i]
<1>1. w \in Queue /\ w \in Seeds /\ Queue' = Queue
  BY WinnerCounted DEF Uncovered, Queue
<1>2. i \in trace_mini[w] /\ i \in temp_v
  BY DEF OwnTrace, Uncovered
<1>3. ~favored[w]
  BY <1>1, <1>2 DEF CrossedOut
<1>4. /\ favored' = [favored EXCEPT ![w] = TRUE]
      /\ queued_favored' = queued_favored + 1
      /\ pending_favored' = IF was_fuzzed[w] THEN pending_favored ELSE pending_favored + 1
  BY DEF Favor
<1>5. \A q \in Seeds : favored'[q] <=> favored[q] \/ q = w
  BY <1>1, <1>4 DEF TypeOK
<1>6. Favored' = Favored \cup {w} /\ w \notin Favored
  BY <1>1, <1>3, <1>5, QueueInSeeds DEF Favored
<1>7. w \notin Pending
      /\ Pending' = IF was_fuzzed[w] THEN Pending ELSE Pending \cup {w}
  BY <1>1, <1>3, <1>5, QueueInSeeds DEF Pending
<1>8. Cardinality(Favored') = Cardinality(Favored) + 1
      /\ Cardinality(Pending \cup {w}) = Cardinality(Pending) + 1
  BY <1>6, <1>7, CountsFinite, FS_AddElement
<1>9. queued_favored = Cardinality(Favored) /\ pending_favored = Cardinality(Pending)
  BY DEF FavoredCounts, Favored, Pending
<1>10. queued_favored' = Cardinality(Favored')
  BY <1>4, <1>8, <1>9
<1>11. pending_favored' = Cardinality(Pending')
  BY <1>4, <1>7, <1>8, <1>9
<1> QED BY <1>10, <1>11 DEF FavoredCounts, Favored, Pending

\* abandon_entry takes a favored entry off pending_favored once.
LEMMA CountAccount ==
  ASSUME TypeOK, FavoredCounts, queue_cur \in Queue, Account(queue_cur),
         UNCHANGED <<n, favored, queued_favored>>
  PROVE  FavoredCounts'
<1>0. Queue' = Queue /\ Favored' = Favored /\ Queue \subseteq Seeds
  BY QueueInSeeds DEF Queue, Favored
<1>1. queued_favored = Cardinality(Favored) /\ pending_favored = Cardinality(Pending)
  BY DEF FavoredCounts, Favored, Pending
<1>2. CASE ~was_fuzzed[queue_cur] /\ cal_failed[queue_cur] = 0
  <2>1. /\ was_fuzzed' = [was_fuzzed EXCEPT ![queue_cur] = TRUE]
        /\ pending_favored' = IF favored[queue_cur] THEN Dec(pending_favored)
                              ELSE pending_favored
    BY <1>2 DEF Account
  <2>2. \A q \in Seeds : was_fuzzed'[q] <=> was_fuzzed[q] \/ q = queue_cur
    BY <1>0, <2>1 DEF TypeOK
  <2>3. Pending' = Pending \ {queue_cur}
    BY <1>0, <2>2 DEF Pending
  <2>4. CASE favored[queue_cur]
    <3>1. queue_cur \in Pending
      BY <1>2, <2>4 DEF Pending
    <3>2. Cardinality(Pending') = Cardinality(Pending) - 1 /\ Cardinality(Pending) # 0
      BY <2>3, <3>1, CountsFinite, FS_RemoveElement, FS_EmptySet
    <3>3. pending_favored \in 1 .. MaxSeeds
      BY <1>1, <3>2, CountsFinite, SeedsAssumption DEF TypeOK, Seeds
    <3>4. pending_favored' = Cardinality(Pending')
      BY <1>1, <2>1, <2>4, <3>2, <3>3, DecCounts
    <3> QED BY <1>0, <1>1, <3>4 DEF FavoredCounts, Favored, Pending
  <2>5. CASE ~favored[queue_cur]
    <3>1. Pending' = Pending
      BY <2>3, <2>5 DEF Pending
    <3> QED BY <1>0, <1>1, <2>1, <2>5, <3>1 DEF FavoredCounts, Favored, Pending
  <2> QED BY <2>4, <2>5
<1>3. CASE ~ (~was_fuzzed[queue_cur] /\ cal_failed[queue_cur] = 0)
  <2>1. UNCHANGED <<was_fuzzed, pending_favored>>
    BY <1>3, Zenon DEF Account
  <2> QED BY <1>0, <2>1 DEF FavoredCounts
<1> QED BY <1>2, <1>3

LEMMA CountStep ==
  TypeInv /\ WinnersInv /\ PlaceInv /\ StableInv /\ CrossedOut /\ CountInv /\ [Next]_vars
    => CountInv'
<1> SUFFICES ASSUME TypeInv, RefCounts, InQueue, OwnTrace, CrossedOut, CountInv,
                    [Next]_vars, Stable, writes' = 0
             PROVE  FavoredCounts'
  BY DEF CountInv, StableInv, PlaceInv, WinnersInv
<1> USE DEF TypeInv
<1>0. Queue \subseteq Seeds /\ n \in Nat
  BY QueueInSeeds
<1>1. CASE CullStart
  <2>1. queued_favored' = 0 /\ pending_favored' = 0 /\ \A q \in Seeds : ~favored'[q]
    BY <1>1 DEF CullStart
  <2>2. Favored' = {} /\ Pending' = {}
    BY <1>0, <1>1, <2>1 DEF CullStart, Favored, Pending, Queue, entries
  <2>3. Cardinality(Favored') = 0 /\ Cardinality(Pending') = 0
    BY <2>2, FS_EmptySet
  <2> QED BY <2>1, <2>3 DEF FavoredCounts, Favored, Pending
<1>2. CASE CullByte
  <2>1. i \in Edges /\ pc = "cullByte" /\ UNCHANGED <<n, was_fuzzed, writes>>
    BY <1>2, MapAssumption DEF CullByte, TypeOK, Edges, entries
  <2>2. FavoredCounts
    BY <2>1 DEF CountInv
  <2>3. CASE Uncovered(i) /\ Favor(i)
    BY <2>1, <2>2, <2>3, CountFavor
  <2>4. CASE UNCHANGED <<favored, queued_favored, pending_favored>>
    BY <2>1, <2>2, <2>4 DEF FavoredCounts, Queue
  <2> QED BY <1>2, <2>3, <2>4 DEF CullByte
<1>3. CASE Find \/ FindUncalibrated
  <2>1. /\ n' = n + 1 /\ n < MaxSeeds
        /\ UNCHANGED <<favored, was_fuzzed, queued_favored, pending_favored, writes>>
    BY <1>3 DEF Find, FindUncalibrated, Append, flags
  <2>2. Queue' = Queue \cup {n + 1} /\ n + 1 \in Seeds \ Queue
    BY <1>0, <2>1, SeedsAssumption DEF Queue, Seeds
  <2>3. ~favored[n + 1]
    BY <2>2 DEF InQueue
  <2>4. Favored' = Favored /\ Pending' = Pending
    BY <2>1, <2>2, <2>3 DEF Favored, Pending
  <2> QED BY <2>1, <2>4 DEF FavoredCounts, Favored, Pending, CountInv
<1>4. CASE Abandon
  <2>1. /\ queue_cur \in Queue /\ Account(queue_cur)
        /\ UNCHANGED <<n, favored, queued_favored, writes>>
    BY <1>4 DEF Abandon, CurrentInv, InQueue, Queue, Seeds, flags
  <2> QED BY <2>1, CountAccount DEF CountInv
<1>5. CASE WriteQueue
  BY <1>5 DEF WriteQueue, TypeOK
<1>6. CASE ~ (CullStart \/ CullByte \/ Find \/ FindUncalibrated \/ Abandon \/ WriteQueue)
  <2>1. UNCHANGED <<n, favored, was_fuzzed, queued_favored, pending_favored, writes>>
    BY <1>6 DEF Next, FuzzerStep, FuzzOne, vars, entries, flags, winners, counters,
       loops, ScoreByte, ScoreReturn, DryRun, DryRunFails, DryRunNext,
       CullNotNeeded, CullMark, Pick, Skip, Enter, Hopeless, Recalibrate,
       RecalibrateFails, TrimNothing, Trim, WorkDone, NextEntry, TrimAborted, Stop
  <2> QED BY <2>1 DEF FavoredCounts, Queue, CountInv
<1> QED BY <1>1, <1>2, <1>3, <1>4, <1>5, <1>6

\* With stable traces queued_favored and pending_favored count the favored
\* seeds, even while cull_queue runs, until the monitor overwrites the flags.
\* (Without stable traces they do not: cull_queue counts a seed twice.)
THEOREM FavoredCounted == Spec => [](Stable /\ writes = 0 => FavoredCounts)
<1> DEFINE Inv == TypeInv /\ WinnersInv /\ PlaceInv /\ StableInv /\ CrossedOut /\ CountInv
<1>1. Init => Inv
  BY TypeInit, WinnersInit, PlaceInit, StableInit, CrossedOutInit, CountInit
     DEF WinnersInv
<1>2. Inv /\ [Next]_vars => Inv'
  BY TypeStep, WinnersStep, PlaceStep, StableStep, CrossedOutStep, CountStep
     DEF WinnersInv, PlaceInv
<1>3. Inv => (Stable /\ writes = 0 => FavoredCounts)
  BY DEF CountInv
<1> QED BY <1>1, <1>2, <1>3, PTL DEF Spec
=============================================================================
