------------------------------- MODULE OutDir -------------------------------
(***************************************************************************)
(* What afl-fuzz keeps in its output directory, file by file: queue/ with  *)
(* the test cases and the markers in queue/.state/, and _resume/, to which *)
(* an in-place resume (-i -) moves the old queue before it links its files *)
(* into a new one.  The fuzzer may be killed between any two of these      *)
(* steps, and is then started again with -i -.                             *)
(*                                                                         *)
(* A test case is a seed, numbered in the order of creation; the name of   *)
(* its file is <<id, seed>>: id:%06u, which is its place in the queue (here*)
(* from 1), and a rest that tells seeds apart.                             *)
(***************************************************************************)
EXTENDS Naturals, Sequences, FiniteSets

CONSTANTS
  InitSeeds,   \* size of the input corpus of the first session
  MaxSeeds,    \* bound: seeds ever created, the corpus included
  Touched,     \* bound: the seeds that are ever trimmed and marked
  MaxKills     \* bound: how often the fuzzer is killed

ASSUME SeedsAssumption == InitSeeds \in Nat \ {0} /\ MaxSeeds \in Nat /\ InitSeeds <= MaxSeeds
ASSUME TouchedAssumption == Touched \subseteq 1 .. MaxSeeds
ASSUME KillsAssumption == MaxKills \in Nat

Seeds == 1 .. MaxSeeds
Names == Seeds \X Seeds

VARIABLES
  queue, resume,     \* the directories queue/ and _resume/
  pc,
  mem,               \* the list of queue entries
  at,                \* the entry that is being pivoted, trimmed or saved
  born,              \* seeds created so far
  kills,
  \* history: seeds whose file was completed, seeds fuzzed deterministically,
  \* and those that a kill at a bad moment takes away
  saved, detDone, atRisk, detAtRisk

history == <<born, kills, saved, detDone, atRisk, detAtRisk>>
vars == <<queue, resume, pc, mem, at, history>>

\* A directory: whether it and its .state/ exist, its files, those of them that
\* have no bytes yet, and the markers deterministic_done and redundant_edges.
Directory == [there : BOOLEAN, state : BOOLEAN, names : SUBSET Names,
              empty : SUBSET Names, det : SUBSET Names, red : SUBSET Names]
NoDir == [there |-> FALSE, state |-> FALSE,
          names |-> {}, empty |-> {}, det |-> {}, red |-> {}]
NewDir == [NoDir EXCEPT !.there = TRUE, !.state = TRUE]

Entry == [seed : Seeds, passed_det : BOOLEAN, fs_redundant : BOOLEAN, trim_done : BOOLEAN]
NewEntry(s, det) ==
  [seed |-> s, passed_det |-> det, fs_redundant |-> FALSE, trim_done |-> FALSE]

Running == {"run", "saving", "unlinked", "created"}

TypeOK ==
  /\ queue \in Directory /\ resume \in Directory
  /\ pc \in Running \cup {"down", "clean", "pivot", "nuke", "fatal"}
  /\ mem \in Seq(Entry) /\ Len(mem) <= MaxSeeds
  /\ at \in 0 .. Len(mem)
  /\ born \in InitSeeds .. MaxSeeds
  /\ kills \in 0 .. MaxKills
  /\ saved \subseteq 1 .. born /\ detDone \subseteq saved
  /\ atRisk \subseteq Seeds /\ detAtRisk \subseteq Seeds

Init ==
  /\ queue = NewDir /\ resume = NoDir
  /\ pc = "pivot"
  /\ mem = [s \in 1 .. InitSeeds |-> NewEntry(s, FALSE)]
  /\ at = 0
  /\ born = InitSeeds
  /\ kills = 0
  /\ saved = {} /\ detDone = {} /\ atRisk = {} /\ detAtRisk = {}

in_place_resume == kills > 0
Fname(i) == <<i, mem[i].seed>>
SeedsOf(names) == {n[2] : n \in names}

-----------------------------------------------------------------------------
(* Start-up with -i -.                                                     *)

\* What a directory may be after the next unlink or rmdir of its cleaning: first
\* the markers of .state/, one kind after the other, then .state/ itself, then
\* the files in the order of readdir, and the directory last.
Pruned(d) ==
  IF d.det # {} THEN {[d EXCEPT !.det = @ \ {n}] : n \in d.det}
  ELSE IF d.red # {} THEN {[d EXCEPT !.red = @ \ {n}] : n \in d.red}
  ELSE IF d.state THEN {[d EXCEPT !.state = FALSE]}
  ELSE IF d.names # {}
    THEN {[d EXCEPT !.names = @ \ {n}, !.empty = @ \ {n}] : n \in d.names}
  ELSE {NoDir}

\* Mutant: an old _resume/ gives way to the newer queue/.
Moves_Always == queue.there

\* rename(queue, _resume) fails, silently, unless _resume/ is absent or empty.
Moves == queue.there /\ resume.names = {} /\ ~resume.state

Start ==
  /\ pc = "down"
  /\ IF Moves THEN resume' = queue /\ queue' = NoDir ELSE UNCHANGED <<resume, queue>>
  /\ pc' = "clean"
  /\ UNCHANGED <<mem, at, history>>

CleanQueue ==
  /\ pc = "clean" /\ queue.there
  /\ queue' \in Pruned(queue)
  /\ UNCHANGED <<resume, pc, mem, at, history>>

\* The place of a name in a sorted listing of files; no two have the same id.
Place(n, files) == Cardinality({m \in files : m[1] <= n[1]})

\* The names of _resume/ in the order of scandir and alphasort, without the
\* files of size 0.
Listing ==
  LET files == resume.names \ resume.empty
  IN  [i \in 1 .. Cardinality(files) |-> CHOOSE n \in files : Place(n, files) = i]

\* setup_dirs_fds makes a new queue/, read_testcases fills the list.  With no
\* usable test case it gives up, and leaves both directories behind.
ReadTestcases ==
  /\ pc = "clean" /\ ~queue.there
  /\ queue' = NewDir
  /\ mem' = [i \in DOMAIN Listing |-> NewEntry(Listing[i][2], Listing[i] \in resume.det)]
  /\ pc' = IF Listing = <<>> THEN "down" ELSE "pivot"
  /\ at' = 0
  /\ UNCHANGED <<resume, history>>

\* Mutant: the marker does not carry over.
Pivot_Unmarked ==
  /\ pc = "pivot" /\ at < Len(mem)
  /\ queue' = [queue EXCEPT !.names = @ \cup {Fname(at + 1)}]
  /\ at' = at + 1
  /\ saved' = saved \cup {mem[at + 1].seed}
  /\ UNCHANGED <<pc, resume, mem, born, kills, detDone, atRisk, detAtRisk>>

\* One round of pivot_inputs: the link under the id of the entry's new place, and
\* the marker.  (A kill between the two finds _resume/ complete.)
Pivot ==
  /\ pc = "pivot" /\ at < Len(mem)
  /\ LET i == at + 1 IN
       IF Fname(i) \in queue.names
         THEN pc' = "fatal" /\ UNCHANGED <<queue, at, saved>>
         ELSE /\ queue' = [queue EXCEPT !.names = @ \cup {Fname(i)},
                             !.det = IF mem[i].passed_det THEN @ \cup {Fname(i)} ELSE @]
              /\ at' = i
              /\ saved' = saved \cup {mem[i].seed}
              /\ UNCHANGED pc
  /\ UNCHANGED <<resume, mem, born, kills, detDone, atRisk, detAtRisk>>

PivotDone ==
  /\ pc = "pivot" /\ at = Len(mem)
  /\ pc' = IF in_place_resume THEN "nuke" ELSE "run"
  /\ at' = 0
  /\ UNCHANGED <<queue, resume, mem, history>>

\* nuke_resume_dir
NukeResume ==
  /\ pc = "nuke"
  /\ IF resume.there
       THEN resume' \in Pruned(resume) /\ UNCHANGED pc
       ELSE pc' = "run" /\ UNCHANGED resume
  /\ UNCHANGED <<queue, mem, at, history>>

-----------------------------------------------------------------------------
(* Fuzzing.                                                                *)

\* open(fn, O_CREAT | O_EXCL) of a test case, which then has a name and no bytes yet;
\* the session ends if there is one of that name.
Create(n, next) ==
  IF n \in queue.names
    THEN pc' = "fatal" /\ UNCHANGED queue
    ELSE /\ queue' = [queue EXCEPT !.names = @ \cup {n}, !.empty = @ \cup {n}]
         /\ pc' = next

\* Mutant: the id is the number of files created, not the place in the list.
SaveCreate_Born ==
  /\ pc = "run" /\ born < MaxSeeds
  /\ born' = born + 1
  /\ mem' = Append(mem, NewEntry(born + 1, FALSE))
  /\ at' = Len(mem) + 1
  /\ Create(<<born + 1, born + 1>>, "saving")
  /\ UNCHANGED <<resume, kills, saved, detDone, atRisk, detAtRisk>>

\* save_if_interesting: the entry is in the list before its file exists.
SaveCreate ==
  /\ pc = "run" /\ born < MaxSeeds
  /\ born' = born + 1
  /\ mem' = Append(mem, NewEntry(born + 1, FALSE))
  /\ at' = Len(mem) + 1
  /\ Create(<<Len(mem) + 1, born + 1>>, "saving")
  /\ UNCHANGED <<resume, kills, saved, detDone, atRisk, detAtRisk>>

SaveWrite ==
  /\ pc = "saving"
  /\ queue' = [queue EXCEPT !.empty = @ \ {Fname(at)}]
  /\ saved' = saved \cup {mem[at].seed}
  /\ pc' = "run" /\ at' = 0
  /\ UNCHANGED <<resume, mem, born, kills, detDone, atRisk, detAtRisk>>

\* The end of trim_case: unlink the test case, create it again, write it.
TrimUnlink(i) ==
  /\ pc = "run" /\ ~mem[i].trim_done
  /\ queue' = [queue EXCEPT !.names = @ \ {Fname(i)}, !.empty = @ \ {Fname(i)}]
  /\ at' = i
  /\ pc' = "unlinked"
  /\ UNCHANGED <<resume, mem, history>>

TrimCreate ==
  /\ pc = "unlinked"
  /\ Create(Fname(at), "created")
  /\ UNCHANGED <<resume, mem, at, history>>

TrimWrite ==
  /\ pc = "created"
  /\ queue' = [queue EXCEPT !.empty = @ \ {Fname(at)}]
  /\ mem' = [mem EXCEPT ![at].trim_done = TRUE]
  /\ pc' = "run" /\ at' = 0
  /\ UNCHANGED <<resume, history>>

\* mark_as_det_done, once the deterministic stages are through.
DetDone(i) ==
  /\ pc = "run" /\ ~mem[i].passed_det
  /\ IF Fname(i) \in queue.det
       THEN pc' = "fatal" /\ UNCHANGED <<queue, mem, detDone>>
       ELSE /\ queue' = [queue EXCEPT !.det = @ \cup {Fname(i)}]
            /\ mem' = [mem EXCEPT ![i].passed_det = TRUE]
            /\ detDone' = detDone \cup {mem[i].seed}
            /\ UNCHANGED pc
  /\ UNCHANGED <<resume, at, born, kills, saved, atRisk, detAtRisk>>

\* mark_as_redundant, called by cull_queue for every entry: it touches the disk
\* only if the mark changes, and dies if the marker is not what fs_redundant says.
MarkAsRedundant(i, state) ==
  /\ pc = "run" /\ state # mem[i].fs_redundant
  /\ mem' = [mem EXCEPT ![i].fs_redundant = state]
  /\ IF state = (Fname(i) \in queue.red)
       THEN pc' = "fatal" /\ UNCHANGED queue
       ELSE /\ queue' = [queue EXCEPT !.red = IF state THEN @ \cup {Fname(i)}
                                                       ELSE @ \ {Fname(i)}]
            /\ UNCHANGED pc
  /\ UNCHANGED <<resume, at, history>>

\* Killed, or stopped, at any point.  Two moments cost test cases (see README): in
\* the rewriting of a trimmed one, and in nuke_resume_dir with files deleted and
\* files left, since what is left is then taken for the whole queue.
Kill ==
  /\ pc \notin {"down", "fatal"} /\ kills < MaxKills
  /\ kills' = kills + 1
  /\ atRisk' = atRisk
       \cup (IF pc \in {"unlinked", "created"} THEN {mem[at].seed} ELSE {})
       \cup (IF pc = "nuke" /\ resume.names # {}
               THEN SeedsOf(queue.names) \ SeedsOf(resume.names \ resume.empty) ELSE {})
  /\ detAtRisk' = detAtRisk
       \cup (IF pc = "nuke" /\ resume.names # {}
               THEN SeedsOf(queue.det) \ SeedsOf(resume.det) ELSE {})
  /\ pc' = "down"
  /\ mem' = <<>> /\ at' = 0
  /\ UNCHANGED <<queue, resume, born, saved, detDone>>

Startup == Start \/ CleanQueue \/ ReadTestcases \/ Pivot \/ PivotDone \/ NukeResume

Next ==
  \/ Startup
  \/ SaveCreate \/ SaveWrite
  \/ TrimCreate \/ TrimWrite
  \/ \E i \in {j \in DOMAIN mem : mem[j].seed \in Touched} :
       \/ TrimUnlink(i) \/ DetDone(i)
       \/ \E state \in BOOLEAN : MarkAsRedundant(i, state)
  \/ Kill

Spec == Init /\ [][Next]_vars

-----------------------------------------------------------------------------
(* Properties.                                                             *)

\* The directory that the next in-place resume will read.
Source == IF Moves THEN queue ELSE resume

\* A test case that was saved is found by the next resume, whenever and however
\* often the fuzzer was killed, but for the two moments named at Kill ("If _resume/
\* already exists, the current queue/ may be incomplete due to an earlier abort, so
\* we want to use the old _resume/ dir instead").
NothingLost ==
  pc = "down" => saved \ atRisk \subseteq SeedsOf(Source.names \ Source.empty)

\* So is the marker that spares it the deterministic stages, under the name that
\* its file has there.
DetRemembered ==
  pc = "down" =>
    detDone \ (atRisk \cup detAtRisk) \subseteq SeedsOf(Source.det \cap Source.names)

\* While the fuzzer runs, the files and markers are those of the entries in memory,
\* each under the id of its place: so the O_EXCL of a new file or marker and the
\* unlink of an old one never fail, which would end the session (PFATAL), after any
\* number of kills and resumes.
DiskMirrorsMemory ==
  /\ pc # "fatal"
  /\ pc = "run" =>
       /\ queue.names = {Fname(i) : i \in DOMAIN mem} /\ queue.empty = {}
       /\ queue.det = {Fname(i) : i \in {j \in DOMAIN mem : mem[j].passed_det}}
       /\ queue.red = {Fname(i) : i \in {j \in DOMAIN mem : mem[j].fs_redundant}}
=============================================================================
