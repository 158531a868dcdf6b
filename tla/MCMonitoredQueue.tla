-------------------------- MODULE MCMonitoredQueue --------------------------
(* An instance of MonitoredQueue, and with it of Triage, for TLC.           *)
EXTENDS MonitoredQueue, TLC

EdgeSymmetry == Permutations(Edges)     \* the bytes of the bitmap are alike
FewDistances == {0, 1, 3}
SecondCycle == {1}
Stranger == {[fname |-> 0, distance |-> 1, marks |-> "set"]}

\* What is explored: faults of the target before the main loop begins, apart from
\* requests and restarts; requests raised while fuzz_one polls; what a client with a
\* list can do to a queue of two; and a second session if the client has a list of
\* the first, up to its second entry, with calibrations that end well.
Explored ==
  /\ crashBits \cup hangBits # {} => requests = 0 /\ life = 1 /\ cur = 0
  /\ op # "none" => polling
  /\ copy # <<>> => Len(queue) <= 2
  /\ life > 1 => /\ copy # <<>> /\ cur <= 1
                 /\ \A i \in DOMAIN queue : queue[i].cal_failed = 0
=============================================================================
