----------------------------- MODULE SeedQueue -----------------------------
(***************************************************************************)
(* The seed queue of afl-fuzz and the bookkeeping that decides what is     *)
(* fuzzed next: top_rated[] and the reference-counted trace_mini of its    *)
(* winners (update_bitmap_score), the favored set and its counters         *)
(* (cull_queue), and the path of one entry through fuzz_one: skipped,      *)
(* recalibrated, trimmed, fuzzed, accounted for.                           *)
(*                                                                         *)
(* The process has one thread, so a step is a whole function, except for   *)
(* the two loops over the bitmap, which advance one byte a step.  Seeds    *)
(* are their positions in the queue, 0 is the NULL pointer.  A trace is    *)
(* the set of its nonzero bytes; exec_us * len is one number, the cost.    *)
(***************************************************************************)
EXTENDS Integers, FiniteSets

CONSTANTS
  MapSize,          \* bytes of the bitmap
  MaxSeeds,         \* bound: how long the queue grows
  InitSeeds,        \* entries read_testcases has put in the queue
  MaxCost,          \* bound: costs are 0 .. MaxCost
  Stable,           \* the runs of a calibrated seed all give the same trace
  MayFail,          \* calibration runs may time out or crash
  MaxWrites,        \* bound: how often the monitor uses /write/queue
  SkipThreshold,    \* 10: queues no longer than this skip nothing unfavored
  Wrap              \* 2^32: the counters are unsigned

ASSUME MapAssumption == MapSize \in Nat \ {0}
ASSUME SeedsAssumption == InitSeeds \in Nat \ {0} /\ MaxSeeds \in Nat /\ InitSeeds <= MaxSeeds
ASSUME CostAssumption == MaxCost \in Nat
ASSUME ThresholdAssumption == SkipThreshold \in Nat
ASSUME WrapAssumption == Wrap \in Nat /\ Wrap > MaxSeeds * MapSize
ASSUME ModesAssumption == Stable \in BOOLEAN /\ MayFail \in BOOLEAN /\ MaxWrites \in Nat

Seeds == 1 .. MaxSeeds
Edges == 0 .. MapSize - 1
Traces == SUBSET Edges \ {{}}     \* a run without a byte is FAULT_NOINST
Costs == 0 .. MaxCost
CAL_CHANCES == 3
NULL == 0
NoTrace == {}    \* trace_mini = NULL, exec_cksum = 0

VARIABLES
  n,                  \* queued_paths
  cost,               \* exec_us * len of each seed
  exec_cksum,         \* the trace whose checksum is kept
  cal_failed, trim_done, was_fuzzed, favored, fs_redundant,
  top_rated, tc_ref, trace_mini,
  score_changed, queued_favored, pending_favored, pending_not_fuzzed,
  queue_cur,          \* position of the current entry, or NULL
  pc,                 \* where the main loop is
  i,                  \* the byte a loop over the bitmap is at
  scoring,            \* the argument of update_bitmap_score
  trace_bits,         \* the trace it scores
  return,             \* where it returns to
  temp_v,             \* bytes cull_queue has not covered yet
  writes              \* how often the monitor has written the queue

entries == <<n, cost, exec_cksum, cal_failed, trim_done, was_fuzzed>>
flags == <<favored, fs_redundant>>
winners == <<top_rated, tc_ref, trace_mini>>
counters == <<queued_favored, pending_favored, pending_not_fuzzed>>
loops == <<i, scoring, trace_bits, return, temp_v>>
vars == <<entries, flags, winners, score_changed, counters, queue_cur, pc,
          loops, writes>>

Queue == 1 .. n
Dec(x) == (x + Wrap - 1) % Wrap

TypeOK ==
  /\ n \in Seeds
  /\ cost \in [Seeds -> Costs]
  /\ exec_cksum \in [Seeds -> SUBSET Edges]
  /\ cal_failed \in [Seeds -> 0 .. CAL_CHANCES]
  /\ trim_done \in [Seeds -> BOOLEAN]
  /\ was_fuzzed \in [Seeds -> BOOLEAN]
  /\ favored \in [Seeds -> BOOLEAN]
  /\ fs_redundant \in [Seeds -> BOOLEAN]
  /\ top_rated \in [Edges -> Seeds \cup {NULL}]
  /\ tc_ref \in [Seeds -> Int]
  /\ trace_mini \in [Seeds -> SUBSET Edges]
  /\ score_changed \in BOOLEAN
  /\ queued_favored \in Nat
  /\ pending_favored \in Nat
  /\ pending_not_fuzzed \in Nat
  /\ queue_cur \in Seeds \cup {NULL}
  /\ pc \in {"dry", "dryNext", "cull", "cullByte", "pick", "fuzz", "trim",
             "work", "score", "end", "next", "done"}
  /\ i \in 0 .. MapSize
  /\ scoring \in Seeds \cup {NULL}
  /\ trace_bits \in SUBSET Edges
  /\ return \in {"dryNext", "trim", "work", "end"}
  /\ temp_v \in SUBSET Edges
  /\ writes \in 0 .. MaxWrites

\* read_testcases has queued the initial seeds.
Init ==
  /\ n = InitSeeds
  /\ cost = [q \in Seeds |-> 0]
  /\ exec_cksum = [q \in Seeds |-> NoTrace]
  /\ cal_failed = [q \in Seeds |-> 0]
  /\ trim_done = [q \in Seeds |-> FALSE]
  /\ was_fuzzed = [q \in Seeds |-> FALSE]
  /\ favored = [q \in Seeds |-> FALSE]
  /\ fs_redundant = [q \in Seeds |-> FALSE]
  /\ top_rated = [e \in Edges |-> NULL]
  /\ tc_ref = [q \in Seeds |-> 0]
  /\ trace_mini = [q \in Seeds |-> NoTrace]
  /\ score_changed = FALSE
  /\ queued_favored = 0
  /\ pending_favored = 0
  /\ pending_not_fuzzed = InitSeeds
  /\ queue_cur = 1
  /\ pc = "dry"
  /\ i = 0
  /\ scoring = NULL
  /\ trace_bits = NoTrace
  /\ return = "dryNext"
  /\ temp_v = {}
  /\ writes = 0

-----------------------------------------------------------------------------
(* update_bitmap_score                                                     *)

\* The call: score seed q on trace t, then go on at ret.
Score(q, t, ret) ==
  /\ scoring' = q
  /\ trace_bits' = t
  /\ return' = ret
  /\ i' = 0
  /\ pc' = "score"

\* Faster-executing or smaller test cases are favored; equals take over.
Loses(q, e) == top_rated[e] # NULL /\ cost[q] > cost[top_rated[e]]

\* The reference counts and bitmaps after the previous winner of e let go.
Released(e) ==
  IF top_rated[e] = NULL THEN tc_ref
  ELSE [tc_ref EXCEPT ![top_rated[e]] = @ - 1]
Freed(e) ==
  [q \in Seeds |-> IF q = top_rated[e] /\ tc_ref[q] = 1 THEN NoTrace
                   ELSE trace_mini[q]]

Win_KeepLoser(q, e) ==
  /\ top_rated' = [top_rated EXCEPT ![e] = q]
  /\ tc_ref' = [tc_ref EXCEPT ![q] = @ + 1]
  /\ trace_mini' = [trace_mini EXCEPT ![q] = IF @ = NoTrace THEN trace_bits ELSE @]
  /\ score_changed' = TRUE
Win_FreeAlways(q, e) ==
  /\ top_rated' = [top_rated EXCEPT ![e] = q]
  /\ tc_ref' = [Released(e) EXCEPT ![q] = @ + 1]
  /\ trace_mini' = [p \in Seeds |-> IF p = q THEN trace_bits
                                    ELSE IF p = top_rated[e] THEN NoTrace
                                    ELSE trace_mini[p]]
  /\ score_changed' = TRUE
Win_NoFlag(q, e) ==
  /\ top_rated' = [top_rated EXCEPT ![e] = q]
  /\ tc_ref' = [Released(e) EXCEPT ![q] = @ + 1]
  /\ trace_mini' = [Freed(e) EXCEPT ![q] = IF @ = NoTrace THEN trace_bits ELSE @]
  /\ score_changed' = score_changed
Win(q, e) ==
  /\ top_rated' = [top_rated EXCEPT ![e] = q]
  /\ tc_ref' = [Released(e) EXCEPT ![q] = @ + 1]
  /\ trace_mini' = [Freed(e) EXCEPT ![q] = IF @ = NoTrace THEN trace_bits ELSE @]
  /\ score_changed' = TRUE

\* One byte of the loop.
ScoreByte ==
  /\ pc = "score"
  /\ i < MapSize
  /\ IF i \in trace_bits /\ ~Loses(scoring, i)
     THEN Win(scoring, i)
     ELSE UNCHANGED <<winners, score_changed>>
  /\ i' = i + 1
  /\ UNCHANGED <<entries, flags, counters, queue_cur, pc, scoring, trace_bits,
                 return, temp_v, writes>>

ScoreReturn ==
  /\ pc = "score"
  /\ i = MapSize
  /\ pc' = return
  /\ scoring' = NULL
  /\ trace_bits' = NoTrace
  /\ UNCHANGED <<entries, flags, winners, score_changed, counters, queue_cur,
                 i, return, temp_v, writes>>

-----------------------------------------------------------------------------
(* calibrate_case                                                          *)

\* It succeeds for q: the checksum is that of the trace t, the last run gave
\* the trace last, and the seed is scored on it.
Calibrated(q, t, ret) ==
  /\ cal_failed' = [cal_failed EXCEPT ![q] = 0]
  /\ exec_cksum' = [exec_cksum EXCEPT ![q] = t]
  /\ \E k \in Costs : cost' = [cost EXCEPT ![q] = k]
  /\ \E last \in IF Stable THEN {t} ELSE Traces : Score(q, last, ret)

\* A run times out or crashes: the first one, or a later one, when the checksum
\* of the first is kept already.  q has failed k calibrations now.
Failed(q, k) ==
  /\ cal_failed' = [cal_failed EXCEPT ![q] = k]
  /\ \E t \in Traces \cup {NoTrace} : exec_cksum' = [exec_cksum EXCEPT ![q] = t]

-----------------------------------------------------------------------------
(* perform_dry_run                                                         *)

DryRun ==
  /\ pc = "dry"
  /\ \E t \in Traces : Calibrated(queue_cur, t, "dryNext")
  /\ UNCHANGED <<n, trim_done, was_fuzzed, flags, winners, score_changed,
                 counters, queue_cur, temp_v, writes>>

\* A seed that times out or crashes, where the options tolerate it.
DryRunFails ==
  /\ pc = "dry"
  /\ MayFail
  /\ Failed(queue_cur, CAL_CHANCES)
  /\ pc' = "dryNext"
  /\ UNCHANGED <<n, cost, trim_done, was_fuzzed, flags, winners,
                 score_changed, counters, queue_cur, loops, writes>>

\* After the last seed the queue is culled and the main loop starts, unless
\* no seed is left ("giving up").
DryRunNext ==
  /\ pc = "dryNext"
  /\ IF queue_cur < n
     THEN queue_cur' = queue_cur + 1 /\ pc' = "dry"
     ELSE /\ queue_cur' = NULL
          /\ pc' = IF \A q \in Queue : cal_failed[q] = CAL_CHANCES
                   THEN "done" ELSE "cull"
  /\ UNCHANGED <<entries, flags, winners, score_changed, counters, loops, writes>>

-----------------------------------------------------------------------------
(* cull_queue                                                              *)

CullStart ==
  /\ pc = "cull"
  /\ score_changed
  /\ score_changed' = FALSE
  /\ temp_v' = Edges
  /\ queued_favored' = 0
  /\ pending_favored' = 0
  /\ favored' = [q \in Seeds |-> FALSE]
  /\ i' = 0
  /\ pc' = "cullByte"
  /\ UNCHANGED <<entries, fs_redundant, winners, pending_not_fuzzed, queue_cur,
                 scoring, trace_bits, return, writes>>

CullNotNeeded ==
  /\ pc = "cull"
  /\ ~score_changed
  /\ pc' = "pick"
  /\ UNCHANGED <<entries, flags, winners, score_changed, counters, queue_cur,
                 loops, writes>>

\* The winner of byte e becomes favored, and covers all of its trace.
Favor_CountAll(e) ==
  LET q == top_rated[e] IN
  /\ temp_v' = temp_v \ trace_mini[q]
  /\ favored' = [favored EXCEPT ![q] = TRUE]
  /\ queued_favored' = queued_favored + 1
  /\ pending_favored' = pending_favored + 1
Favor(e) ==
  LET q == top_rated[e] IN
  /\ temp_v' = temp_v \ trace_mini[q]
  /\ favored' = [favored EXCEPT ![q] = TRUE]
  /\ queued_favored' = queued_favored + 1
  /\ pending_favored' = IF was_fuzzed[q] THEN pending_favored
                        ELSE pending_favored + 1

Uncovered(e) == top_rated[e] # NULL /\ e \in temp_v

CullByte ==
  /\ pc = "cullByte"
  /\ i < MapSize
  /\ IF Uncovered(i) THEN Favor(i)
     ELSE UNCHANGED <<favored, queued_favored, pending_favored, temp_v>>
  /\ i' = i + 1
  /\ UNCHANGED <<entries, fs_redundant, winners, score_changed,
                 pending_not_fuzzed, queue_cur, pc, scoring, trace_bits,
                 return, writes>>

\* mark_as_redundant, over the whole queue.
CullMark ==
  /\ pc = "cullByte"
  /\ i = MapSize
  /\ fs_redundant' = [q \in Seeds |-> q \in Queue /\ ~favored[q]]
  /\ temp_v' = {}
  /\ pc' = "pick"
  /\ UNCHANGED <<entries, favored, winners, score_changed, counters, queue_cur,
                 i, scoring, trace_bits, return, writes>>

-----------------------------------------------------------------------------
(* The main loop and fuzz_one.                                             *)

\* A new cycle starts at the head of the queue.
Pick ==
  /\ pc = "pick"
  /\ queue_cur' = IF queue_cur = NULL THEN 1 ELSE queue_cur
  /\ pc' = "fuzz"
  /\ UNCHANGED <<entries, flags, winners, score_changed, counters, loops, writes>>

\* UR() may decide to skip the entry.
MaySkip_All(q) == TRUE
MaySkip(q) ==
  IF pending_favored > 0 THEN was_fuzzed[q] \/ ~favored[q]
  ELSE ~favored[q] /\ n > SkipThreshold

Skip ==
  /\ pc = "fuzz"
  /\ MaySkip(queue_cur)
  /\ pc' = "next"
  /\ UNCHANGED <<entries, flags, winners, score_changed, counters, queue_cur,
                 loops, writes>>

\* Where an entry that is fuzzed goes once it is calibrated.
Ready(q) == IF trim_done[q] THEN "work" ELSE "trim"

Enter ==
  /\ pc = "fuzz"
  /\ cal_failed[queue_cur] = 0
  /\ pc' = Ready(queue_cur)
  /\ UNCHANGED <<entries, flags, winners, score_changed, counters, queue_cur,
                 loops, writes>>

\* An entry that failed its calibration has no chance left,
Hopeless ==
  /\ pc = "fuzz"
  /\ cal_failed[queue_cur] >= CAL_CHANCES
  /\ pc' = "end"
  /\ UNCHANGED <<entries, flags, winners, score_changed, counters, queue_cur,
                 loops, writes>>

\* or it is calibrated again, its old checksum forgotten.  Its trace is new to
\* the bitmap of the session (FAULT_NONE) or, as a rule, not (FAULT_NOBITS: the
\* entry is abandoned).
Recalibrate ==
  /\ pc = "fuzz"
  /\ cal_failed[queue_cur] \in 1 .. CAL_CHANCES - 1
  /\ \E t \in Traces, ret \in {Ready(queue_cur), "end"} :
       Calibrated(queue_cur, t, ret)
  /\ UNCHANGED <<n, trim_done, was_fuzzed, flags, winners, score_changed,
                 counters, queue_cur, temp_v, writes>>

RecalibrateFails_OnceMore ==
  /\ pc = "fuzz"
  /\ MayFail
  /\ cal_failed[queue_cur] \in 1 .. CAL_CHANCES
  /\ Failed(queue_cur, cal_failed[queue_cur] + 1)
  /\ pc' = "end"
  /\ UNCHANGED <<n, cost, trim_done, was_fuzzed, flags, winners,
                 score_changed, counters, queue_cur, loops, writes>>
RecalibrateFails ==
  /\ pc = "fuzz"
  /\ MayFail
  /\ cal_failed[queue_cur] \in 1 .. CAL_CHANCES - 1
  /\ Failed(queue_cur, cal_failed[queue_cur] + 1)
  /\ pc' = "end"
  /\ UNCHANGED <<n, cost, trim_done, was_fuzzed, flags, winners,
                 score_changed, counters, queue_cur, loops, writes>>

\* trim_case finds nothing to remove,
TrimNothing ==
  /\ pc = "trim"
  /\ trim_done' = [trim_done EXCEPT ![queue_cur] = TRUE]
  /\ pc' = "work"
  /\ UNCHANGED <<n, cost, exec_cksum, cal_failed, was_fuzzed, flags, winners,
                 score_changed, counters, queue_cur, loops, writes>>

\* or it shortens the seed, keeping its checksum, and scores it again.
Trim_NoScore ==
  /\ pc = "trim"
  /\ \E k \in Costs : k <= cost[queue_cur] /\ cost' = [cost EXCEPT ![queue_cur] = k]
  /\ trim_done' = [trim_done EXCEPT ![queue_cur] = TRUE]
  /\ pc' = "work"
  /\ UNCHANGED <<n, exec_cksum, cal_failed, was_fuzzed, flags, winners,
                 score_changed, counters, queue_cur, loops, writes>>
Trim ==
  /\ pc = "trim"
  /\ \E k \in Costs : k <= cost[queue_cur] /\ cost' = [cost EXCEPT ![queue_cur] = k]
  /\ trim_done' = [trim_done EXCEPT ![queue_cur] = TRUE]
  /\ Score(queue_cur, exec_cksum[queue_cur], "work")
  /\ UNCHANGED <<n, exec_cksum, cal_failed, was_fuzzed, flags, winners,
                 score_changed, counters, queue_cur, temp_v, writes>>

\* stop_soon may interrupt it when the seed is shorter already: it is not scored,
\* and the main loop ends.
TrimAborted ==
  /\ pc = "trim"
  /\ \E k \in Costs : k <= cost[queue_cur] /\ cost' = [cost EXCEPT ![queue_cur] = k]
  /\ pc' = "done"
  /\ UNCHANGED <<n, exec_cksum, cal_failed, trim_done, was_fuzzed, flags, winners,
                 score_changed, counters, queue_cur, loops, writes>>

\* add_to_queue with trace t, as save_if_interesting calls it,
Append(t) ==
  /\ n < MaxSeeds
  /\ n' = n + 1
  /\ pending_not_fuzzed' = pending_not_fuzzed + 1
  /\ UNCHANGED <<trim_done, was_fuzzed, flags, winners, score_changed,
                 queued_favored, pending_favored, queue_cur, temp_v, writes>>

\* followed by a calibration that succeeds,
Find ==
  /\ pc = "work"
  /\ \E t \in Traces : Append(t) /\ Calibrated(n + 1, t, "work")

\* or not.
FindUncalibrated ==
  /\ pc = "work"
  /\ MayFail
  /\ \E t \in Traces :
       /\ Append(t)
       /\ exec_cksum' = [exec_cksum EXCEPT ![n + 1] = t]
  /\ cal_failed' = [cal_failed EXCEPT ![n + 1] = 1]
  /\ UNCHANGED <<cost, pc, i, scoring, trace_bits, return>>

\* load_queue_from_case_info_mm, served while an entry is fuzzed: the first
\* queue_len entries get the monitor's values.  (load_queue_cur_from_case_info_mm
\* does no more: the other entries keep theirs.)
WriteQueue ==
  /\ pc = "work"
  /\ writes < MaxWrites
  /\ writes' = writes + 1
  /\ \E len \in Queue, fav, fuzzed \in [Queue -> BOOLEAN] :
       /\ favored' = [q \in Seeds |-> IF q <= len THEN fav[q] ELSE favored[q]]
       /\ was_fuzzed' = [q \in Seeds |-> IF q <= len THEN fuzzed[q] ELSE was_fuzzed[q]]
  /\ UNCHANGED <<n, cost, exec_cksum, cal_failed, trim_done, fs_redundant,
                 winners, score_changed, counters, queue_cur, pc, loops>>

\* The stages are over.
WorkDone ==
  /\ pc = "work"
  /\ pc' = "end"
  /\ UNCHANGED <<entries, flags, winners, score_changed, counters, queue_cur, loops, writes>>

\* abandon_entry: the accounting of an entry seen for the first time.
Account_Twice(q) ==
  /\ was_fuzzed' = [was_fuzzed EXCEPT ![q] = TRUE]
  /\ pending_not_fuzzed' = Dec(pending_not_fuzzed)
  /\ pending_favored' = IF favored[q] THEN Dec(pending_favored) ELSE pending_favored
Account(q) ==
  IF cal_failed[q] = 0 /\ ~was_fuzzed[q]
  THEN /\ was_fuzzed' = [was_fuzzed EXCEPT ![q] = TRUE]
       /\ pending_not_fuzzed' = Dec(pending_not_fuzzed)
       /\ pending_favored' = IF favored[q] THEN Dec(pending_favored)
                             ELSE pending_favored
  ELSE UNCHANGED <<was_fuzzed, pending_not_fuzzed, pending_favored>>

Abandon ==
  /\ pc = "end"
  /\ Account(queue_cur)
  /\ pc' = "next"
  /\ UNCHANGED <<n, cost, exec_cksum, cal_failed, trim_done, flags, winners,
                 score_changed, queued_favored, queue_cur, loops, writes>>

\* stop_soon: the entry is not accounted for and the main loop ends.
Stop ==
  /\ pc \in {"fuzz", "work", "end"}
  /\ pc' = "done"
  /\ UNCHANGED <<entries, flags, winners, score_changed, counters, queue_cur,
                 loops, writes>>

NextEntry ==
  /\ pc = "next"
  /\ queue_cur' = IF queue_cur < n THEN queue_cur + 1 ELSE NULL
  /\ pc' = "cull"
  /\ UNCHANGED <<entries, flags, winners, score_changed, counters, loops, writes>>

-----------------------------------------------------------------------------
FuzzOne ==
  \/ Skip \/ Enter \/ Hopeless \/ Recalibrate \/ RecalibrateFails
  \/ TrimNothing \/ Trim \/ Find \/ FindUncalibrated \/ WorkDone \/ Abandon

FuzzerStep ==
  \/ ScoreByte \/ ScoreReturn
  \/ DryRun \/ DryRunFails \/ DryRunNext
  \/ CullStart \/ CullNotNeeded \/ CullByte \/ CullMark
  \/ Pick \/ FuzzOne \/ NextEntry

Next == FuzzerStep \/ WriteQueue \/ TrimAborted \/ Stop

Spec == Init /\ [][Next]_vars

\* The process runs, the target returns or is killed, and the stages of an
\* entry come to an end.
FairSpec == Spec /\ WF_vars(FuzzerStep)

-----------------------------------------------------------------------------
(* Properties.                                                             *)

\* tc_ref is the number of bytes a seed has won: update_bitmap_score frees a
\* trace_mini exactly when its last byte is lost.
RefCounts == \A q \in Seeds :
  tc_ref[q] = Cardinality({e \in Edges : top_rated[e] = q})

\* A seed keeps a trace_mini exactly as long as it is the winner of a byte:
\* cull_queue never reads a freed one, and none is leaked.
MiniKept == \A q \in Seeds :
  trace_mini[q] # NoTrace <=> \E e \in Edges : top_rated[e] = q

\* With stable traces, the winner of a byte is among the cheapest of all the
\* calibrated seeds that hit the byte, until the fuzzer is stopped.
BestRated == pc \notin {"score", "done"} =>
  \A q \in Seeds : \A e \in exec_cksum[q] :
    cal_failed[q] = 0 =>
      top_rated[e] # NULL /\ cost[top_rated[e]] <= cost[q]

\* Once culled, the favored seeds cover every byte of the bitmap that has a
\* winner, and every favored seed is a winner, until the monitor overwrites the
\* flags of the entries.
FavoredCover == writes = 0 /\ ~score_changed /\ pc \notin {"cullByte", "done"} =>
  /\ \A e \in Edges : top_rated[e] # NULL =>
       favored[top_rated[e]] \/ \E q \in Queue : favored[q] /\ e \in trace_mini[q]
  /\ \A q \in Queue : favored[q] => tc_ref[q] > 0

\* queued_favored and pending_favored count the favored seeds ("Paths deemed
\* favorable", "Pending favored paths").
FavoredCounts ==
  /\ queued_favored = Cardinality({q \in Queue : favored[q]})
  /\ pending_favored = Cardinality({q \in Queue : favored[q] /\ ~was_fuzzed[q]})

\* pending_not_fuzzed counts the seeds not fuzzed yet ("Queued but not done yet"),
\* until the monitor overwrites was_fuzzed.
NotFuzzedCount == writes = 0 =>
  pending_not_fuzzed = Cardinality({q \in Queue : ~was_fuzzed[q]})

\* A favored seed that was not fuzzed gets its turn, or stops being favored,
\* unless the fuzzer is stopped.
FavoredFuzzed == \A q \in Seeds :
  favored[q] /\ ~was_fuzzed[q] ~> (was_fuzzed[q] \/ ~favored[q] \/ pc = "done")
=============================================================================
