------------------------- MODULE SyncFuzzers_proofs -------------------------
(***************************************************************************)
(* sync_fuzzers against a peer that is killed and resumed at any point:    *)
(* the number kept in .synced/ is worth what it promises.                  *)
(***************************************************************************)
EXTENDS SyncFuzzers, OutDir_proofs

\* Seed s has id i: on disk, in the list, or in the list that the next resume
\* would make of _resume/.
Bears(s, i) ==
  \/ <<i, s>> \in queue.names
  \/ i \in DOMAIN mem /\ mem[i].seed = s
  \/ \E n \in Complete(resume) : n[2] = s /\ Place(n, Complete(resume)) = i

\* The resumes only ever lower the id of a seed.
OwnerInv ==
  /\ \A i \in Ids : owner[i] <= born
  /\ \A n \in queue.names : owner[n[1]] # 0
  /\ \A i \in Ids : owner[i] # 0 => \A k \in Ids : Bears(owner[i], k) => k <= i
  /\ \A n \in queue.names : owner[n[1]] # n[2] => ~Bears(owner[n[1]], n[1])

\* While _resume/ is read, or cleared, its cases are in the list, at the place they
\* would get from it or later.
PlacedInv ==
  pc \in {"pivot", "nuke"} =>
    \A n \in Complete(resume) :
      \E j \in DOMAIN mem : mem[j].seed = n[2] /\ Place(n, Complete(resume)) <= j

\* The place of an entry is the last id of its seed, and bears others only if they
\* are in entries to come.
TopPlace ==
  pc \in Running \cup {"pivot", "nuke"} =>
    \A i \in DOMAIN mem :
      /\ \A k \in Ids : Bears(mem[i].seed, k) => k <= i
      /\ \A s \in Seeds : Bears(s, i) =>
           s = mem[i].seed \/ \E j \in DOMAIN mem : i < j /\ mem[j].seed = s

\* An id the importing fuzzer is through with: its first owner was run, it was
\* passed over, or its owner will never bear it again.
Settled(i) ==
  \/ i \in passed
  \/ owner[i] # 0 /\ (owner[i] \in tried \/ ~Bears(owner[i], i))

ScanInv ==
  /\ scan.next_min_accept <= MaxSeeds + 1
  /\ scan.on => scan.min_accept = synced /\ synced <= scan.next_min_accept
  /\ \A n \in scan.todo \cup scan.shown : owner[n[1]] # 0
  /\ \A n \in scan.shown : n[1] >= synced => n[1] < scan.next_min_accept /\ Settled(n[1])
  /\ \A i \in Ids : i < synced => Settled(i)
  /\ ~scan.on => scan = NoScan

SyncInv == SyncTypeOK /\ DirInv /\ PlacedInv /\ OwnerInv /\ ScanInv

-----------------------------------------------------------------------------
(* Where the ids of a seed come from.                                      *)

LEMMA Grown ==
  ASSUME TypeOK, ListInv, SaveCreate
  PROVE  /\ Len(mem) + 1 \in DOMAIN mem' /\ mem'[Len(mem) + 1].seed = born + 1
         /\ \A i \in DOMAIN mem' : i = Len(mem) + 1 \/ (i \in DOMAIN mem /\ mem'[i] = mem[i])
<1> DEFINE e == NewEntry(born + 1, FALSE)
<1>1. e \in Entry /\ e.seed = born + 1
  <2>1. born + 1 \in Seeds
    BY ListFacts, SeedRange DEF SaveCreate
  <2> QED BY <2>1 DEF NewEntry, Entry
<1>2. mem' = Append(mem, e) /\ mem \in Seq(Entry) /\ Len(mem) \in Nat
  BY ListFacts DEF SaveCreate, TypeOK
<1> HIDE DEF e
<1>3. mem' \in Seq(Entry) /\ Len(mem') = Len(mem) + 1 /\ mem'[Len(mem) + 1] = e
  BY <1>1, <1>2
<1>4. \A i \in 1 .. Len(mem) : mem'[i] = mem[i]
  BY <1>1, <1>2
<1>5. DOMAIN mem = 1 .. Len(mem) /\ DOMAIN mem' = 1 .. Len(mem) + 1
  BY <1>2, <1>3
<1> QED BY <1>1, <1>2, <1>3, <1>4, <1>5

\* A new file in queue/ is that of an entry, at its place.
LEMMA NewFile ==
  ASSUME DirInv, [Next]_vars, NEW n \in queue'.names, n \notin queue.names
  PROVE  /\ pc' \in Running \cup {"pivot"}
         /\ n[1] \in DOMAIN mem' /\ mem'[n[1]].seed = n[2]
         /\ n[2] <= born => n[1] \in DOMAIN mem /\ mem[n[1]].seed = n[2]
<1>0. queue \in Directory /\ TypeOK /\ ListInv /\ n = n
  BY DEF DirInv, TypeOK
<1>1. CASE Start \/ CleanQueue \/ ReadTestcases
  <2>1. CASE Start
    BY <2>1, EmptyDirs DEF Start
  <2>2. CASE CleanQueue
    BY <1>0, <2>2, PrunedLess DEF CleanQueue
  <2>3. CASE ReadTestcases
    BY <2>3, EmptyDirs DEF ReadTestcases
  <2> QED BY <1>1, <2>1, <2>2, <2>3
<1>2. CASE Pivot
  <2>0. /\ pc = "pivot" /\ at < Len(mem) /\ mem' = mem /\ Fname(at + 1) \notin queue.names
    BY <1>2 DEF Pivot
  <2>1. n = Fname(at + 1) /\ pc' = "pivot"
    <3> DEFINE f == Fname(at + 1)
               det == IF mem[at + 1].passed_det THEN queue.det \cup {f} ELSE queue.det
    <3>1. /\ queue' = [queue EXCEPT !.names = @ \cup {f}, !.det = det] /\ pc' = pc
      BY <1>2, <2>0 DEF Pivot
    <3> HIDE DEF f, det
    <3>2. queue'.names = queue.names \cup {f}
      BY <1>0, <3>1 DEF Directory
    <3> QED BY <2>0, <3>1, <3>2 DEF f
  <2>2. at + 1 \in DOMAIN mem
    BY <1>0, <2>0, ListFacts
  <2>3. n[1] = at + 1 /\ n[2] = mem[at + 1].seed
    BY <2>1 DEF Fname
  <2> QED BY <2>0, <2>1, <2>2, <2>3
<1>3. CASE PivotDone \/ NukeResume \/ Kill \/ UNCHANGED vars
  BY <1>3 DEF PivotDone, NukeResume, Kill, vars
<1>4. CASE SaveCreate
  <2>1. n = <<Len(mem) + 1, born + 1>> /\ pc' = "saving"
    <3> DEFINE f == <<Len(mem) + 1, born + 1>>
    <3>1. Create(f, "saving")
      BY <1>4 DEF SaveCreate
    <3> HIDE DEF f
    <3>2. queue'.names = queue.names \cup {f} /\ pc' = "saving"
      BY <1>0, <3>1 DEF Create, Directory
    <3> QED BY <3>2 DEF f
  <2>2. born \in Nat
    BY <1>0, ListFacts
  <2>3. /\ Len(mem) + 1 \in DOMAIN mem' /\ mem'[Len(mem) + 1].seed = born + 1
    BY <1>0, <1>4, Grown
  <2> QED BY <2>1, <2>2, <2>3 DEF Running
<1>5. CASE SaveWrite \/ TrimWrite
  <2>1. queue' = [queue EXCEPT !.empty = @ \ {Fname(at)}]
    BY <1>5 DEF SaveWrite, TrimWrite
  <2> QED BY <1>0, <2>1 DEF Directory
<1>6. CASE TrimCreate
  <2>1. n = Fname(at) /\ mem' = mem /\ pc = "unlinked"
    <3> DEFINE f == Fname(at)
    <3>1. pc = "unlinked" /\ Create(f, "created") /\ mem' = mem
      BY <1>6 DEF TrimCreate
    <3> HIDE DEF f
    <3>2. Fname(at) = f
      BY DEF f
    <3>3. queue' = queue \/ queue' = [queue EXCEPT !.names = @ \cup {f}, !.empty = @ \cup {f}]
      BY <3>1 DEF Create
    <3>4. queue'.names \subseteq queue.names \cup {f}
      BY <1>0, <3>3 DEF Directory
    <3> QED BY <3>1, <3>2, <3>4
  <2>2. pc' = "created"
    BY <1>6 DEF TrimCreate, Create
  <2>3. at \in DOMAIN mem
    BY <2>1, RunFacts DEF Running
  <2>4. n[1] = at /\ n[2] = mem[at].seed
    BY <2>1 DEF Fname
  <2> QED BY <2>1, <2>2, <2>3, <2>4 DEF Running
<1>7. ASSUME NEW i \in DOMAIN mem, TrimUnlink(i) \/ DetDone(i)
      PROVE  FALSE
  BY <1>0, <1>7 DEF TrimUnlink, DetDone, Directory
<1>8. ASSUME NEW i \in DOMAIN mem, NEW state \in BOOLEAN, MarkAsRedundant(i, state)
      PROVE  FALSE
  BY <1>0, <1>8 DEF MarkAsRedundant, Directory
<1> QED BY <1>1, <1>2, <1>3, <1>4, <1>5, <1>6, <1>7, <1>8 DEF Next, Startup

\* An entry of an old seed was at its place before, or is read from _resume/.
LEMMA OldEntry ==
  ASSUME DirInv, [Next]_vars, NEW i \in DOMAIN mem', mem'[i].seed <= born
  PROVE  \/ i \in DOMAIN mem /\ mem[i].seed = mem'[i].seed
         \/ \E n \in Complete(resume) :
              n[2] = mem'[i].seed /\ Place(n, Complete(resume)) = i
<1>0. TypeOK /\ ListInv /\ mem \in Seq(Entry)
  BY DEF DirInv, TypeOK
<1>1. CASE Start \/ CleanQueue \/ Pivot \/ PivotDone \/ NukeResume \/ UNCHANGED vars
  BY <1>1 DEF Start, CleanQueue, Pivot, PivotDone, NukeResume, vars
<1>2. CASE ReadTestcases
  <2>1. Listing[i] \in Complete(resume) /\ mem'[i].seed = Listing[i][2]
    BY <1>2, Reread
  <2>2. Place(Listing[i], Complete(resume)) = i
    <3>1. resume \in Directory /\ Distinct(resume.names)
      BY DEF DirInv, ListInv, TypeOK, Numbered, Distinct
    <3>2. i \in DOMAIN Listing
      BY <1>2, Reread
    <3> QED BY <3>1, <3>2, ListingPlaces
  <2> QED BY <2>1, <2>2
<1>3. CASE SaveCreate
  <2>1. born \in Nat
    BY <1>0, ListFacts
  <2> QED BY <1>0, <1>3, <2>1, Grown
<1>4. CASE SaveWrite \/ TrimCreate
  BY <1>4 DEF SaveWrite, TrimCreate
<1>5. CASE TrimWrite
  <2>1. mem' = [mem EXCEPT ![at].trim_done = TRUE]
    BY <1>5 DEF TrimWrite
  <2> QED BY <1>0, <2>1 DEF Entry
<1>6. ASSUME NEW j \in DOMAIN mem, TrimUnlink(j) \/ DetDone(j)
      PROVE  i \in DOMAIN mem /\ mem[i].seed = mem'[i].seed
  <2>1. mem' = mem \/ mem' = [mem EXCEPT ![j].passed_det = TRUE]
    <3>1. CASE TrimUnlink(j)
      BY <3>1 DEF TrimUnlink
    <3>2. CASE DetDone(j)
      BY <3>2 DEF DetDone
    <3> QED BY <1>6, <3>1, <3>2
  <2>2. CASE mem' = mem
    BY <2>2
  <2>3. CASE mem' = [mem EXCEPT ![j].passed_det = TRUE]
    BY <1>0, <2>3 DEF Entry
  <2> QED BY <2>1, <2>2, <2>3
<1>7. ASSUME NEW j \in DOMAIN mem, NEW state \in BOOLEAN, MarkAsRedundant(j, state)
      PROVE  i \in DOMAIN mem /\ mem[i].seed = mem'[i].seed
  <2>1. mem' = [mem EXCEPT ![j].fs_redundant = state]
    BY <1>7 DEF MarkAsRedundant
  <2> QED BY <1>0, <2>1 DEF Entry
<1>8. CASE Kill
  BY <1>8 DEF Kill
<1> QED BY <1>1, <1>2, <1>3, <1>4, <1>5, <1>6, <1>7, <1>8 DEF Next, Startup

\* A file of _resume/ was there before, at this place or a later one, or it was in
\* queue/, under this id or a later one.
LEMMA OldFile ==
  ASSUME DirInv, [Next]_vars, NEW n \in Complete(resume')
  PROVE  \/ n \in Complete(resume)
            /\ Place(n, Complete(resume')) <= Place(n, Complete(resume))
         \/ n \in queue.names /\ Place(n, Complete(resume')) <= n[1]
<1>0. /\ queue \in Directory /\ resume \in Directory
      /\ Distinct(Complete(resume)) /\ Complete(resume) \subseteq Names
      /\ Distinct(Complete(queue)) /\ Complete(queue) \subseteq Names
  BY DEF DirInv, TypeOK, ListInv, Numbered, Distinct, Complete, Directory
<1>1. CASE resume' = resume
  BY <1>0, <1>1, PlaceMoves
<1>2. CASE Start
  <2>1. resume' = queue \/ resume' = resume
    BY <1>2 DEF Start
  <2>2. CASE resume' = queue
    <3>1. n \in Complete(queue) /\ Place(n, Complete(queue)) <= n[1]
      BY <1>0, <2>2, PlaceRange
    <3> QED BY <2>2, <3>1 DEF Complete
  <2> QED BY <1>1, <2>1, <2>2
<1>3. CASE NukeResume
  <2>1. CASE resume.there
    <3>1. Complete(resume') \subseteq Complete(resume)
      BY <1>0, <1>3, <2>1, PrunedLess DEF NukeResume
    <3> QED BY <1>0, <3>1, PlaceMoves
  <2> QED BY <1>1, <1>3, <2>1 DEF NukeResume
<1>4. CASE ~Start /\ ~NukeResume
  <2>1. resume' = resume
    BY <1>4 DEF Next, Startup, CleanQueue, ReadTestcases, Pivot, PivotDone, SaveCreate,
       SaveWrite, TrimCreate, TrimWrite, TrimUnlink, DetDone, MarkAsRedundant, Kill, vars
  <2> QED BY <1>1, <2>1
<1> QED BY <1>2, <1>3, <1>4

LEMMA IdRange == /\ Ids = 1 .. MaxSeeds /\ MaxSeeds \in Nat /\ MaxSeeds >= 1
                 /\ \A i \in Ids : i \in Nat /\ i >= 1
  BY SeedRange DEF Ids

\* What readdir returns is a name.
LEMMA FileIds ==
  ASSUME DirInv
  PROVE  /\ \A n \in queue.names \cup resume.names :
              /\ n = <<n[1], n[2]>> /\ n[1] \in Ids /\ n[2] \in Seeds
              /\ n[1] <= born /\ n[2] <= born /\ n \in Names
         /\ \A i \in DOMAIN mem : i \in Ids /\ mem[i].seed \in Seeds
         /\ born \in Nat /\ born <= MaxSeeds
<1>1. \A n \in queue.names \cup resume.names : n \in Names
  BY DEF DirInv, TypeOK, Directory
<1>2. \A n \in queue.names \cup resume.names : n[1] <= born /\ n[2] <= born
  BY DEF DirInv, ListInv, Numbered
<1>3. born \in Nat /\ born <= MaxSeeds
  BY ListFacts DEF DirInv
<1>4. \A i \in DOMAIN mem : i \in Ids /\ mem[i].seed \in Seeds
  <2> SUFFICES ASSUME NEW i \in DOMAIN mem PROVE i \in Ids /\ mem[i].seed \in Seeds
    OBVIOUS
  <2>1. i \in Nat /\ i >= 1 /\ i <= born /\ mem[i] \in Entry
    BY ListFacts DEF DirInv
  <2> QED BY <1>3, <2>1, IdRange DEF Entry
<1> QED BY <1>1, <1>2, <1>3, <1>4, NameParts DEF Ids

\* No step gives an old seed a higher id.
LEMMA BearsBack ==
  ASSUME DirInv, [Next]_vars, NEW s \in Seeds, s <= born, NEW k \in Ids, Bears(s, k)'
  PROVE  \E l \in Ids : k <= l /\ Bears(s, l)
<1>0. k <= k
  BY IdRange
<1>1. CASE <<k, s>> \in queue'.names
  <2>1. <<k, s>> \in queue.names \/ (k \in DOMAIN mem /\ mem[k].seed = s)
    BY <1>1, NewFile
  <2> QED BY <1>0, <2>1 DEF Bears
<1>2. CASE k \in DOMAIN mem' /\ mem'[k].seed = s
  <2>1. Bears(s, k)
    BY <1>2, OldEntry DEF Bears
  <2> QED BY <1>0, <2>1
<1>3. ASSUME NEW n \in Complete(resume'), n[2] = s, Place(n, Complete(resume')) = k
      PROVE  \E l \in Ids : k <= l /\ Bears(s, l)
  <2>1. CASE n \in Complete(resume) /\ k <= Place(n, Complete(resume))
    <3>1. Place(n, Complete(resume)) \in Ids
      <4>1. /\ Distinct(Complete(resume)) /\ Complete(resume) \subseteq Names
            /\ n[1] \in Ids
        BY <2>1, FileIds DEF DirInv, TypeOK, ListInv, Numbered, Distinct, Complete, Directory
      <4>2. Place(n, Complete(resume)) \in Nat /\ Place(n, Complete(resume)) >= 1
            /\ Place(n, Complete(resume)) <= n[1]
        BY <2>1, <4>1, PlaceRange, NamesFinite
      <4> QED BY <4>1, <4>2, IdRange
    <3>2. Bears(s, Place(n, Complete(resume)))
      BY <1>3, <2>1 DEF Bears
    <3> QED BY <2>1, <3>1, <3>2
  <2>2. CASE n \in queue.names /\ k <= n[1]
    <3>1. n = <<n[1], s>> /\ n[1] \in Ids
      BY <1>3, <2>2, FileIds
    <3>2. Bears(s, n[1])
      BY <2>2, <3>1 DEF Bears
    <3> QED BY <2>2, <3>1, <3>2
  <2> QED BY <1>3, <2>1, <2>2, OldFile
<1> QED BY <1>1, <1>2, <1>3 DEF Bears, Complete

LEMMA Top == DirInv /\ PlacedInv => TopPlace
<1> SUFFICES ASSUME DirInv, PlacedInv PROVE TopPlace
  OBVIOUS
<1> SUFFICES ASSUME pc \in Running \cup {"pivot", "nuke"},
                    NEW i \in DOMAIN mem, NEW k \in Ids, NEW s \in Seeds,
                    Bears(s, k)
             PROVE  /\ s = mem[i].seed => k <= i
                    /\ k = i => \/ s = mem[i].seed
                                \/ \E j \in DOMAIN mem : i < j /\ mem[j].seed = s
  <2>1. \A j \in DOMAIN mem : j \in Ids /\ mem[j].seed \in Seeds
    BY FileIds
  <2> QED BY <2>1 DEF TopPlace
<1>0. \A j \in DOMAIN mem : j \in Nat
  BY FileIds, IdRange
<1>1. queue.names \subseteq Files(DOMAIN mem)
  BY PivotFacts DEF DirInv, DiskInv, Mirrors, Files, Running
<1>2. \A j \in DOMAIN mem : Fname(j) = <<j, mem[j].seed>>
  BY DEF Fname
<1>3. <<k, s>> \in queue.names => k \in DOMAIN mem /\ mem[k].seed = s
  BY <1>1, <1>2 DEF Files
<1>4. CASE k \in DOMAIN mem /\ mem[k].seed = s
  BY <1>0, <1>4 DEF DirInv, ListInv
<1>5. ASSUME NEW n \in Complete(resume), n[2] = s, Place(n, Complete(resume)) = k
      PROVE  \E j \in DOMAIN mem : mem[j].seed = s /\ k <= j
  <2>1. pc \in {"pivot", "nuke"}
    BY RunFacts, EmptyDirs DEF Complete
  <2> QED BY <1>5, <2>1 DEF PlacedInv
<1>6. CASE \E j \in DOMAIN mem : mem[j].seed = s /\ k <= j
  <2>1. PICK j \in DOMAIN mem : mem[j].seed = s /\ k <= j
    BY <1>6
  <2>2. s = mem[i].seed => j = i
    BY <2>1 DEF DirInv, ListInv
  <2>3. k = i => j = i \/ i < j
    BY <1>0, <2>1
  <2> QED BY <2>1, <2>2, <2>3
<1> QED BY <1>3, <1>4, <1>5, <1>6 DEF Bears

LEMMA PlacedStep == DirInv /\ PlacedInv /\ [Next]_vars => PlacedInv'
<1> SUFFICES ASSUME DirInv, PlacedInv, [Next]_vars, pc' \in {"pivot", "nuke"},
                    NEW n \in Complete(resume')
             PROVE  \E j \in DOMAIN mem' :
                      mem'[j].seed = n[2] /\ Place(n, Complete(resume')) <= j
  BY DEF PlacedInv, Complete
<1>0. \A j \in DOMAIN mem : j \in Nat
  BY FileIds, IdRange
<1>1. CASE ReadTestcases
  <2>1. resume' = resume
    BY <1>1 DEF ReadTestcases
  <2>2. PICK i \in DOMAIN mem' : Listing[i] = n /\ Place(n, Complete(resume)) = i
    BY <1>1, <2>1, Reread
  <2>3. i \in Nat /\ mem'[i].seed = n[2]
    BY <1>1, <2>2, Reread
  <2> QED BY <2>1, <2>2, <2>3
<1>2. CASE NukeResume
  <2>1. resume.there /\ resume' \in Pruned(resume) /\ pc = "nuke" /\ mem' = mem
    BY <1>2 DEF NukeResume
  <2>2. n \in Complete(resume) /\ Complete(resume') \subseteq Complete(resume)
    BY <2>1, PrunedLess DEF DirInv, TypeOK
  <2>3. PICK j \in DOMAIN mem : mem[j].seed = n[2] /\ Place(n, Complete(resume)) <= j
    BY <2>1, <2>2 DEF PlacedInv
  <2>4. Distinct(Complete(resume)) /\ Complete(resume) \subseteq Names
    BY DEF DirInv, TypeOK, ListInv, Numbered, Distinct, Complete, Directory
  <2>5. Place(n, Complete(resume')) <= Place(n, Complete(resume))
    BY <2>2, <2>4, PlaceMoves
  <2>6. Place(n, Complete(resume)) \in Nat /\ Place(n, Complete(resume')) \in Nat
    <3>1. Distinct(Complete(resume')) /\ Complete(resume') \subseteq Names
      BY <2>2, <2>4 DEF Distinct
    <3> QED BY <2>2, <2>4, <3>1, PlaceRange, NamesFinite
  <2> QED BY <1>0, <2>1, <2>3, <2>5, <2>6
<1>3. CASE Pivot \/ PivotDone \/ UNCHANGED vars
  <2>1. resume' = resume /\ mem' = mem /\ pc \in {"pivot", "nuke"}
    BY <1>3 DEF Pivot, PivotDone, vars
  <2> QED BY <2>1 DEF PlacedInv
<1>4. ~(Start \/ CleanQueue \/ Kill \/ SaveCreate \/ SaveWrite \/ TrimCreate \/ TrimWrite)
  BY DEF Start, CleanQueue, Kill, SaveCreate, SaveWrite, TrimCreate, TrimWrite, Create
<1>5. \A i : ~TrimUnlink(i) /\ ~DetDone(i) /\ \A state : ~MarkAsRedundant(i, state)
  BY DEF TrimUnlink, DetDone, MarkAsRedundant
<1> QED BY <1>1, <1>2, <1>3, <1>4, <1>5 DEF Next, Startup

-----------------------------------------------------------------------------
(* First owners, and what the importing fuzzer is through with.            *)

\* The first file to bear an id is remembered, and only that.
LEMMA Owners ==
  ASSUME SyncTypeOK, Watched
  PROVE  /\ owner' \in [Ids -> Seeds \cup {0}]
         /\ \A i \in Ids : owner[i] # 0 => owner'[i] = owner[i]
         /\ \A i \in Ids : owner[i] = 0 /\ owner'[i] # 0 => <<i, owner'[i]>> \in queue'.names
         /\ \A i \in Ids : \A s \in Seeds : <<i, s>> \in queue'.names => owner'[i] # 0
<1> DEFINE new(i) == CHOOSE s \in Seeds : <<i, s>> \in queue'.names
           fresh(i) == owner[i] = 0 /\ \E s \in Seeds : <<i, s>> \in queue'.names
<1>1. owner' = [i \in Ids |-> IF fresh(i) THEN new(i) ELSE owner[i]]
  BY DEF Watched
<1>2. \A i \in Ids : fresh(i) => new(i) \in Seeds /\ <<i, new(i)>> \in queue'.names
  OBVIOUS
<1>3. \A i \in Ids : owner[i] \in Seeds \cup {0}
  BY DEF SyncTypeOK
<1>4. \A s \in Seeds : s # 0
  BY SeedRange
<1>5. \A i \in Ids : fresh(i) <=> owner[i] = 0 /\ \E s \in Seeds : <<i, s>> \in queue'.names
  OBVIOUS
<1> HIDE DEF new, fresh
<1>6. \A i \in Ids : owner'[i] = IF fresh(i) THEN new(i) ELSE owner[i]
  BY <1>1
<1>7. owner' \in [Ids -> Seeds \cup {0}]
  BY <1>1, <1>2, <1>3
<1> QED BY <1>2, <1>4, <1>5, <1>6, <1>7

\* A seed that does not bear an id it was the first to bear never will again.
LEMMA NeverAgain ==
  ASSUME SyncTypeOK, DirInv, OwnerInv, [Next]_vars,
         NEW i \in Ids, NEW s \in Seeds, owner[i] = s, NEW k \in Ids, Bears(s, k)'
  PROVE  k <= i /\ (k = i => Bears(s, i))
<1>1. s # 0 /\ s <= born
  BY SeedRange DEF OwnerInv
<1>2. PICK l \in Ids : k <= l /\ Bears(s, l)
  BY <1>1, BearsBack
<1>3. l <= i
  BY <1>1, <1>2 DEF OwnerInv
<1>4. k \in Nat /\ l \in Nat /\ i \in Nat
  BY IdRange
<1>5. k = i => l = i
  BY <1>2, <1>3, <1>4
<1> QED BY <1>2, <1>3, <1>4, <1>5

LEMMA OwnerStep ==
  ASSUME SyncTypeOK, DirInv, OwnerInv, [Next]_vars, Watched, DirInv', TopPlace'
  PROVE  OwnerInv'
<1>1. /\ \A n \in queue'.names : n = <<n[1], n[2]>> /\ n[1] \in Ids /\ n[2] \in Seeds
                                 /\ n[1] <= born' /\ n[2] <= born'
      /\ \A m, n \in queue'.names : m[1] = n[1] => m = n
  <2>1. queue' \in Directory /\ Numbered(queue)'
    BY DEF DirInv, TypeOK, ListInv
  <2> QED BY <2>1, NameParts DEF Directory, Numbered, Ids
<1>2. born \in Nat /\ born' \in Nat /\ born <= born'
  <2>1. born \in Nat /\ born' \in Nat
    BY SeedRange DEF DirInv, TypeOK
  <2>2. born' = born \/ born' = born + 1
    BY DEF Next, Startup, Start, CleanQueue, ReadTestcases, Pivot, PivotDone, NukeResume,
       SaveCreate, SaveWrite, TrimCreate, TrimWrite, TrimUnlink, DetDone, MarkAsRedundant,
       Kill, vars, history
  <2> QED BY <2>1, <2>2
<1>3. \A i \in Ids : owner[i] \in Seeds \cup {0} /\ owner'[i] \in Seeds \cup {0}
  BY Owners DEF SyncTypeOK
<1>4. ASSUME NEW i \in Ids PROVE owner'[i] <= born'
  <2>1. CASE owner[i] # 0
    BY <1>2, <1>3, <2>1, Owners, SeedRange DEF OwnerInv
  <2>2. CASE owner[i] = 0 /\ owner'[i] # 0
    <3>1. <<i, owner'[i]>> \in queue'.names
      BY <2>2, Owners
    <3> QED BY <1>1, <3>1
  <2> QED BY <1>2, <2>1, <2>2
<1>5. ASSUME NEW n \in queue'.names PROVE owner'[n[1]] # 0
  BY <1>1, Owners
<1>6. ASSUME NEW n \in queue'.names, n \notin queue.names, NEW k \in Ids
      PROVE  /\ Bears(n[2], k)' => k <= n[1]
             /\ \A s \in Seeds : Bears(s, n[1])' =>
                  s = n[2] \/ \E j \in Ids : n[1] < j /\ Bears(s, j)'
  <2>1. /\ pc' \in Running \cup {"pivot"} /\ n[1] \in DOMAIN mem' /\ mem'[n[1]].seed = n[2]
    BY <1>6, NewFile
  <2>2. /\ \A l \in Ids : Bears(mem[n[1]].seed, l)' => l <= n[1]
        /\ \A s \in Seeds : Bears(s, n[1])' =>
             s = mem'[n[1]].seed \/ \E j \in DOMAIN mem' : n[1] < j /\ mem'[j].seed = s
    BY <2>1 DEF TopPlace
  <2>3. Bears(n[2], k)' => k <= n[1]
    BY <2>1, <2>2 DEF Bears
  <2>4. \A j \in DOMAIN mem' : j \in Ids
    <3>1. mem' \in Seq(Entry) /\ Len(mem') <= MaxSeeds
      BY DEF DirInv, TypeOK
    <3> QED BY <3>1, IdRange
  <2>5. \A s \in Seeds : \A j \in DOMAIN mem' : mem'[j].seed = s => Bears(s, j)'
    BY DEF Bears
  <2> QED BY <2>1, <2>2, <2>3, <2>4, <2>5
<1>7. ASSUME NEW i \in Ids, owner'[i] # 0, NEW k \in Ids, Bears(owner[i], k)'
      PROVE  k <= i
  <2>1. PICK s \in Seeds : s = owner'[i]
    BY <1>3, <1>7
  <2>2. Bears(s, k)'
    BY <1>7, <2>1 DEF Bears
  <2>3. CASE owner[i] # 0
    BY <2>1, <2>2, <2>3, NeverAgain, Owners
  <2>4. CASE owner[i] = 0
    <3>1. <<i, s>> \in queue'.names
      BY <1>7, <2>1, <2>4, Owners
    <3>2. <<i, s>> \notin queue.names
      BY <2>4 DEF OwnerInv
    <3>3. <<i, s>>[1] = i /\ <<i, s>>[2] = s
      OBVIOUS
    <3> QED BY <1>6, <2>2, <3>1, <3>2, <3>3
  <2> QED BY <2>3, <2>4
<1>8. ASSUME NEW n \in queue'.names, owner'[n[1]] # n[2] PROVE ~Bears(owner[n[1]], n[1])'
  <2>1. n[1] \in Ids /\ n[2] \in Seeds /\ n = <<n[1], n[2]>>
    BY <1>1
  <2>2. PICK s \in Seeds : s = owner'[n[1]]
    BY <1>3, <1>5, <2>1
  <2>3. CASE owner[n[1]] = 0
    <3>1. <<n[1], s>> \in queue'.names
      BY <1>5, <2>1, <2>2, <2>3, Owners
    <3>2. <<n[1], s>> = n
      BY <1>1, <3>1
    <3> QED BY <1>8, <2>1, <2>2, <3>2
  <2>4. CASE owner[n[1]] # 0
    <3>1. owner[n[1]] = s /\ s # n[2]
      BY <1>8, <2>1, <2>2, <2>4, Owners
    <3>2. CASE n \in queue.names
      <4>1. ~Bears(s, n[1])
        BY <3>1, <3>2 DEF OwnerInv
      <4>2. ~Bears(s, n[1])'
        BY <2>1, <3>1, <4>1, NeverAgain
      <4> QED BY <2>2, <4>2 DEF Bears
    <3>3. CASE n \notin queue.names
      <4>1. \A j \in Ids : Bears(s, j)' => j <= n[1]
        BY <2>1, <3>1, NeverAgain
      <4>2. \A i, j \in Ids : ~(i < j /\ j <= i)
        BY IdRange
      <4>3. ~Bears(s, n[1])'
        BY <1>6, <2>1, <3>1, <3>3, <4>1, <4>2
      <4> QED BY <2>2, <4>3 DEF Bears
    <3> QED BY <3>2, <3>3
  <2> QED BY <2>3, <2>4
<1> QED BY <1>4, <1>5, <1>7, <1>8 DEF OwnerInv

-----------------------------------------------------------------------------
(* The steps of the peer, watched, and those of the listing.               *)

LEMMA ScanFacts ==
  ASSUME SyncTypeOK, DirInv
  PROVE  /\ scan \in Scan /\ scan.todo \subseteq Names /\ scan.shown \subseteq Names
         /\ \A n \in scan.todo \cup scan.shown : /\ n[1] \in Ids /\ n[1] \in Nat
                                                 /\ n[1] <= MaxSeeds
         /\ scan.min_accept \in Nat /\ scan.next_min_accept \in Nat
         /\ synced \in Nat /\ synced >= 1 /\ synced <= MaxSeeds + 1
         /\ born \in Nat /\ born <= MaxSeeds
<1>1. scan \in Scan /\ scan.todo \subseteq Names /\ scan.shown \subseteq Names
      /\ scan.min_accept \in Nat /\ scan.next_min_accept \in Nat
  BY DEF SyncTypeOK, Scan
<1>2. \A n \in Names : n[1] \in Ids /\ n[1] \in Nat /\ n[1] <= MaxSeeds
  BY NameParts, IdRange DEF Ids
<1>3. synced \in Nat /\ synced >= 1 /\ synced <= MaxSeeds + 1
  BY IdRange DEF SyncTypeOK
<1> QED BY <1>1, <1>2, <1>3, FileIds

LEMMA SyncInit_Inv == SyncInit => SyncInv
<1> SUFFICES ASSUME SyncInit PROVE SyncInv
  OBVIOUS
<1>1. DirInv
  BY DirInit DEF SyncInit
<1>2. /\ pc = "pivot" /\ queue = NewDir /\ resume = NoDir /\ scan = NoScan /\ synced = 1
      /\ sync_kills = 0 /\ tried = {} /\ passed = {} /\ owner = [i \in Ids |-> 0]
  BY DEF SyncInit, Init
<1>3. NoScan \in Scan /\ NoScan.next_min_accept = 0 /\ NoScan.todo = {} /\ NoScan.shown = {}
      /\ ~NoScan.on
  BY DEF NoScan, Scan
<1>4. SyncTypeOK
  <2>1. synced \in 1 .. MaxSeeds + 1 /\ sync_kills \in 0 .. MaxSyncKills
    BY <1>2, IdRange, SyncKillsAssumption
  <2> QED BY <1>1, <1>2, <1>3, <2>1 DEF SyncTypeOK, DirInv
<1>5. PlacedInv
  BY <1>2, EmptyDirs DEF PlacedInv, Complete
<1>6. OwnerInv
  <2>1. \A i \in Ids : owner[i] = 0 /\ owner[i] <= born
    BY <1>1, <1>2, FileIds
  <2> QED BY <1>2, <2>1, EmptyDirs DEF OwnerInv
<1>7. ScanInv
  <2>1. \A i \in Ids : ~(i < synced)
    BY <1>2, IdRange
  <2> QED BY <1>2, <1>3, <2>1, IdRange DEF ScanInv
<1> QED BY <1>1, <1>4, <1>5, <1>6, <1>7 DEF SyncInv

\* What the importing fuzzer is through with, it stays through with.
LEMMA SettledForGood ==
  ASSUME SyncTypeOK, DirInv, OwnerInv, [Next]_vars, Watched
  PROVE  \A i \in Ids : Settled(i) => Settled(i)'
<1> SUFFICES ASSUME NEW i \in Ids, Settled(i) PROVE Settled(i)'
  OBVIOUS
<1>1. tried' = tried /\ passed' = passed
  BY DEF Watched, syncHistory
<1>2. CASE i \in passed
  BY <1>1, <1>2 DEF Settled
<1>3. CASE owner[i] # 0 /\ (owner[i] \in tried \/ ~Bears(owner[i], i))
  <2>1. PICK s \in Seeds : s = owner[i]
    BY <1>3 DEF SyncTypeOK
  <2>2. owner'[i] = s
    BY <1>3, <2>1, Owners
  <2>3. s \in tried \/ ~Bears(s, i)'
    BY <1>3, <2>1, NeverAgain
  <2> QED BY <1>1, <1>3, <2>1, <2>2, <2>3 DEF Settled, Bears
<1> QED BY <1>2, <1>3 DEF Settled

LEMMA WatchedStep ==
  ASSUME SyncTypeOK, DirInv, OwnerInv, ScanInv, [Next]_vars, Watched, DirInv'
  PROVE  SyncTypeOK' /\ ScanInv'
<1>1. /\ synced' = synced /\ sync_kills' = sync_kills /\ tried' = tried /\ passed' = passed
  BY DEF Watched, syncHistory
<1>2. PICK lost \in SUBSET scan.todo :
        scan' = [scan EXCEPT !.todo = @ \ lost, !.attached = @ /\ queue'.there]
  BY DEF Watched
<1>3. queue'.there \in BOOLEAN /\ scan \in Scan
  BY ScanFacts DEF DirInv, TypeOK, Directory
<1>4. /\ scan' \in Scan /\ scan'.todo = scan.todo \ lost /\ scan'.shown = scan.shown
      /\ scan'.on = scan.on /\ scan'.min_accept = scan.min_accept
      /\ scan'.next_min_accept = scan.next_min_accept
      /\ scan'.attached = (scan.attached /\ queue'.there)
  <2> DEFINE a == scan.attached /\ queue'.there
  <2>1. a \in BOOLEAN
    OBVIOUS
  <2>2. scan' = [scan EXCEPT !.todo = @ \ lost, !.attached = a]
    BY <1>2, <1>3 DEF Scan
  <2> HIDE DEF a
  <2>3. /\ scan' \in Scan /\ scan'.todo = scan.todo \ lost /\ scan'.shown = scan.shown
        /\ scan'.on = scan.on /\ scan'.min_accept = scan.min_accept
        /\ scan'.next_min_accept = scan.next_min_accept /\ scan'.attached = a
    BY <1>3, <2>1, <2>2 DEF Scan
  <2> QED BY <2>3 DEF a
<1>5. born' \in Nat /\ born <= born'
  <2>1. born \in Nat /\ born' \in Nat
    BY SeedRange DEF DirInv, TypeOK
  <2>2. born' = born \/ born' = born + 1
    BY DEF Next, Startup, Start, CleanQueue, ReadTestcases, Pivot, PivotDone, NukeResume,
       SaveCreate, SaveWrite, TrimCreate, TrimWrite, TrimUnlink, DetDone, MarkAsRedundant,
       Kill, vars, history
  <2> QED BY <2>1, <2>2
<1>6. SyncTypeOK'
  <2>1. tried' \subseteq 1 .. born'
    <3>1. tried \subseteq 1 .. born /\ born \in Nat
      BY ScanFacts DEF SyncTypeOK
    <3> QED BY <1>1, <1>5, <3>1
  <2> QED BY <1>1, <1>4, <2>1, Owners DEF SyncTypeOK, DirInv
<1>7. ScanInv'
  <2>1. \A n \in scan'.todo \cup scan'.shown : owner'[n[1]] # 0
    BY <1>4, Owners, ScanFacts DEF ScanInv
  <2>2. \A n \in scan'.shown :
          n[1] >= synced' => n[1] < scan'.next_min_accept /\ Settled(n[1])'
    BY <1>1, <1>4, SettledForGood, ScanFacts DEF ScanInv
  <2>3. \A i \in Ids : i < synced' => Settled(i)'
    BY <1>1, SettledForGood DEF ScanInv
  <2>4. ~scan'.on => scan' = NoScan
    <3> SUFFICES ASSUME ~scan'.on PROVE scan' = NoScan
      OBVIOUS
    <3>1. scan = NoScan
      BY <1>4 DEF ScanInv
    <3>2. scan.attached = FALSE /\ scan.todo = {}
      BY <3>1 DEF NoScan
    <3>3. scan'.attached = FALSE /\ scan'.todo = {}
      BY <1>4, <3>2
    <3> QED BY <1>3, <1>4, <3>1, <3>2, <3>3 DEF NoScan, Scan
  <2>5. /\ scan'.next_min_accept <= MaxSeeds + 1
        /\ scan'.on => scan'.min_accept = synced' /\ synced' <= scan'.next_min_accept
    BY <1>1, <1>4 DEF ScanInv
  <2> QED BY <2>1, <2>2, <2>3, <2>4, <2>5 DEF ScanInv, Settled, Bears
<1> QED BY <1>6, <1>7

\* While the peer does nothing, its directories, list and ids stay what they are.
LEMMA PeerSame ==
  ASSUME DirInv, PlacedInv, OwnerInv, UNCHANGED vars, UNCHANGED owner
  PROVE  /\ DirInv' /\ PlacedInv' /\ OwnerInv'
         /\ \A s, i : Bears(s, i)' <=> Bears(s, i)
<1>1. UNCHANGED <<queue, resume, pc, mem, born>>
  BY DEF vars, history
<1>2. \A s, i : Bears(s, i)' <=> Bears(s, i)
  BY <1>1 DEF Bears, Complete
<1>3. DirInv'
  BY DirStutter
<1>4. PlacedInv'
  BY <1>1 DEF PlacedInv, Complete
<1>5. OwnerInv'
  BY <1>1, <1>2 DEF OwnerInv
<1> QED BY <1>2, <1>3, <1>4, <1>5

LEMMA SettledSame ==
  ASSUME UNCHANGED <<queue, mem, resume, owner>>, tried \subseteq tried', passed \subseteq passed'
  PROVE  \A i : Settled(i) => Settled(i)'
<1> SUFFICES ASSUME NEW i, Settled(i) PROVE Settled(i)'
  OBVIOUS
<1>1. ~Bears(owner[i], i) => ~Bears(owner[i], i)'
  BY DEF Bears, Complete
<1> QED BY <1>1 DEF Settled

LEMMA NoScanFacts ==
  /\ NoScan \in Scan /\ NoScan.next_min_accept = 0 /\ ~NoScan.on
  /\ NoScan.todo = {} /\ NoScan.shown = {}
  BY DEF NoScan, Scan

\* The steps of the listing that leave alone what the importing fuzzer is through with.
LEMMA OpenScanStep ==
  ASSUME SyncTypeOK, DirInv, PlacedInv, OwnerInv, ScanInv, OpenScan
  PROVE  SyncTypeOK' /\ ScanInv'
<1>1. /\ UNCHANGED vars /\ UNCHANGED <<owner, synced, sync_kills, tried, passed>>
      /\ UNCHANGED <<queue, born>>
      /\ scan' = [on |-> TRUE, attached |-> TRUE, todo |-> queue.names, shown |-> {},
                  min_accept |-> synced, next_min_accept |-> synced]
  BY DEF OpenScan, syncHistory, vars, history
<1>2. queue.names \subseteq Names
  BY FileIds
<1>3. scan' \in Scan
  BY <1>1, <1>2, ScanFacts DEF Scan
<1>4. SyncTypeOK'
  BY <1>1, <1>3, PeerSame DEF SyncTypeOK, DirInv
<1>5. \A i : Settled(i) => Settled(i)'
  BY <1>1, SettledSame DEF vars
<1>6. \A n \in queue.names : owner[n[1]] # 0
  BY DEF OwnerInv
<1>7. ScanInv'
  BY <1>1, <1>5, <1>6, ScanFacts DEF ScanInv
<1> QED BY <1>4, <1>7

LEMMA ShowNewStep ==
  ASSUME SyncTypeOK, DirInv, PlacedInv, OwnerInv, ScanInv, NEW n \in Names, ShowNew(n)
  PROVE  SyncTypeOK' /\ ScanInv'
<1>1. /\ UNCHANGED vars /\ UNCHANGED <<owner, synced, sync_kills, tried, passed>>
      /\ UNCHANGED <<queue, born>> /\ scan.on /\ n \in queue.names
      /\ scan' = [scan EXCEPT !.todo = @ \cup {n}]
  BY DEF ShowNew, syncHistory, vars, history
<1>2. /\ scan' \in Scan /\ scan'.todo = scan.todo \cup {n} /\ scan'.shown = scan.shown
      /\ scan'.on = scan.on /\ scan'.min_accept = scan.min_accept
      /\ scan'.next_min_accept = scan.next_min_accept
  BY <1>1, ScanFacts DEF Scan
<1>3. SyncTypeOK'
  BY <1>1, <1>2, PeerSame DEF SyncTypeOK, DirInv
<1>4. \A i : Settled(i) => Settled(i)'
  BY <1>1, SettledSame DEF vars
<1>5. owner[n[1]] # 0
  BY <1>1 DEF OwnerInv
<1>6. ScanInv'
  BY <1>1, <1>2, <1>4, <1>5 DEF ScanInv
<1> QED BY <1>3, <1>6

LEMMA SyncKillStep ==
  ASSUME SyncTypeOK, DirInv, PlacedInv, OwnerInv, ScanInv, SyncKill
  PROVE  SyncTypeOK' /\ ScanInv'
<1>1. /\ UNCHANGED vars /\ UNCHANGED <<owner, synced, tried, passed>>
      /\ UNCHANGED <<queue, born>> /\ scan' = NoScan
      /\ sync_kills < MaxSyncKills /\ sync_kills' = sync_kills + 1
  BY DEF SyncKill, syncHistory, vars, history
<1>2. sync_kills' \in 0 .. MaxSyncKills
  BY <1>1, SyncKillsAssumption DEF SyncTypeOK
<1>3. SyncTypeOK'
  BY <1>1, <1>2, NoScanFacts, PeerSame DEF SyncTypeOK, DirInv
<1>4. \A i : Settled(i) => Settled(i)'
  BY <1>1, SettledSame DEF vars
<1>5. ScanInv'
  BY <1>1, <1>4, NoScanFacts, IdRange DEF ScanInv
<1> QED BY <1>3, <1>5

\* A file that is returned is run, passed over, or not that of the id's first owner.
LEMMA ReturnStep ==
  ASSUME SyncTypeOK, DirInv, PlacedInv, OwnerInv, ScanInv, NEW n \in Names, Return(n)
  PROVE  SyncTypeOK' /\ ScanInv'
<1> DEFINE new == n[1] >= scan.min_accept
           readable == n \in queue.names \ queue.empty
           mark == IF new /\ n[1] >= scan.next_min_accept THEN n[1] + 1
                   ELSE scan.next_min_accept
<1>1. /\ UNCHANGED vars /\ UNCHANGED <<owner, synced, sync_kills>>
      /\ UNCHANGED <<queue, born>> /\ n \in scan.todo
      /\ scan' = [scan EXCEPT !.todo = @ \ {n}, !.shown = @ \cup {n}, !.next_min_accept = mark]
      /\ tried' = IF new /\ readable THEN tried \cup {n[2]} ELSE tried
      /\ passed' = IF new /\ ~readable THEN passed \cup {n[1]} ELSE passed
  BY DEF Return, vars, history
<1>2. /\ scan.on /\ scan.min_accept = synced /\ synced <= scan.next_min_accept
      /\ scan.next_min_accept <= MaxSeeds + 1 /\ owner[n[1]] # 0
  BY <1>1, NoScanFacts DEF ScanInv
<1>3. /\ n[1] \in Nat /\ n[1] <= MaxSeeds /\ n[1] \in Ids /\ MaxSeeds \in Nat
      /\ scan.next_min_accept \in Nat /\ synced \in Nat
  BY <1>1, ScanFacts, IdRange
<1>4. /\ mark \in Nat /\ mark <= MaxSeeds + 1 /\ scan.next_min_accept <= mark
      /\ synced <= mark /\ (n[1] >= synced => n[1] < mark)
  BY <1>2, <1>3
<1>5. new <=> n[1] >= synced
  BY <1>2
<1>6. readable => n[2] \in 1 .. born /\ n \in queue.names
  BY FileIds, SeedRange
<1>7. readable <=> n \in queue.names \ queue.empty
  OBVIOUS
<1> HIDE DEF new, readable, mark
<1>8. /\ scan' \in Scan /\ scan'.todo = scan.todo \ {n} /\ scan'.shown = scan.shown \cup {n}
      /\ scan'.on = scan.on /\ scan'.min_accept = scan.min_accept
      /\ scan'.next_min_accept = mark
  BY <1>1, <1>4, ScanFacts DEF Scan
<1>9. SyncTypeOK'
  <2>1. tried' \subseteq 1 .. born /\ passed' \subseteq Ids
    BY <1>1, <1>3, <1>6 DEF SyncTypeOK
  <2> QED BY <1>1, <1>8, <2>1, PeerSame DEF SyncTypeOK, DirInv
<1>10. \A i : Settled(i) => Settled(i)'
  BY <1>1, SettledSame DEF vars
<1>11. n[1] >= synced => Settled(n[1])'
  <2>1. CASE new /\ ~readable
    BY <1>1, <2>1 DEF Settled
  <2>2. CASE new /\ readable
    <3>1. n[2] \in tried'
      BY <1>1, <2>2
    <3>2. owner[n[1]] = n[2] \/ ~Bears(owner[n[1]], n[1])
      BY <1>6, <2>2 DEF OwnerInv
    <3>3. Settled(n[1])' \/ ~Bears(owner[n[1]], n[1])
      BY <1>1, <1>2, <3>1, <3>2 DEF Settled
    <3>4. ~Bears(owner[n[1]], n[1]) => Settled(n[1])
      BY <1>2 DEF Settled
    <3> QED BY <1>10, <3>3, <3>4
  <2> QED BY <1>5, <2>1, <2>2
<1>12. ScanInv'
  <2>1. \A m \in scan'.todo \cup scan'.shown : owner'[m[1]] # 0
    BY <1>1, <1>2, <1>8 DEF ScanInv
  <2>2. \A m \in scan'.shown : m[1] >= synced' => m[1] < scan'.next_min_accept /\ Settled(m[1])'
    <3> SUFFICES ASSUME NEW m \in scan'.shown, m[1] >= synced
                 PROVE  m[1] < mark /\ Settled(m[1])'
      BY <1>1, <1>8
    <3>1. CASE m = n
      BY <1>4, <1>11, <3>1 DEF Settled, Bears
    <3>2. CASE m \in scan.shown
      <4>1. m[1] < scan.next_min_accept /\ Settled(m[1])
        BY <3>2 DEF ScanInv
      <4>2. m[1] \in Ids /\ m[1] \in Nat
        BY <3>2, ScanFacts
      <4> QED BY <1>3, <1>4, <1>10, <4>1, <4>2
    <3> QED BY <1>8, <3>1, <3>2
  <2>3. \A i \in Ids : i < synced' => Settled(i)'
    BY <1>1, <1>10 DEF ScanInv
  <2>4. /\ scan'.on /\ scan'.min_accept = synced' /\ synced' <= scan'.next_min_accept
        /\ scan'.next_min_accept <= MaxSeeds + 1
    BY <1>1, <1>2, <1>4, <1>8
  <2> QED BY <2>1, <2>2, <2>3, <2>4 DEF ScanInv, Settled, Bears
<1> QED BY <1>9, <1>12

LEMMA EndScanStep ==
  ASSUME SyncTypeOK, DirInv, PlacedInv, OwnerInv, ScanInv, EndScan
  PROVE  SyncTypeOK' /\ ScanInv'
<1> DEFINE skipped == {i \in scan.min_accept .. scan.next_min_accept - 1 :
                         \A n \in scan.shown : n[1] # i}
<1>1. /\ UNCHANGED vars /\ UNCHANGED <<owner, sync_kills, tried>> /\ UNCHANGED <<queue, born>>
      /\ scan.on /\ synced' = scan.next_min_accept /\ scan' = NoScan
      /\ passed' = passed \cup skipped
  BY DEF EndScan, vars, history
<1>2. /\ scan.min_accept = synced /\ synced <= scan.next_min_accept
      /\ scan.next_min_accept <= MaxSeeds + 1
      /\ scan.next_min_accept \in Nat /\ synced \in Nat /\ synced >= 1
  BY <1>1, ScanFacts DEF ScanInv
<1>3. skipped \subseteq Ids
  BY <1>2, IdRange
<1>4. \A i \in Ids : i >= synced /\ i < scan.next_min_accept =>
        i \in skipped \/ \E n \in scan.shown : n[1] = i
  BY <1>2, IdRange
<1> HIDE DEF skipped
<1>5. SyncTypeOK'
  <2>1. synced' \in 1 .. MaxSeeds + 1
    BY <1>1, <1>2, IdRange
  <2> QED BY <1>1, <1>3, <2>1, NoScanFacts, PeerSame DEF SyncTypeOK, DirInv
<1>6. \A i : Settled(i) => Settled(i)'
  BY <1>1, SettledSame DEF vars
<1>7. ASSUME NEW i \in Ids, i < scan.next_min_accept PROVE Settled(i)'
  <2>1. CASE i < synced
    BY <1>6, <2>1 DEF ScanInv
  <2>2. CASE i \in skipped
    BY <1>1, <2>2 DEF Settled
  <2>3. ASSUME NEW n \in scan.shown, n[1] = i, i >= synced PROVE Settled(i)'
    <3>1. Settled(n[1])
      BY <2>3 DEF ScanInv
    <3> QED BY <1>6, <2>3, <3>1
  <2> QED BY <1>2, <1>4, <1>7, <2>1, <2>2, <2>3, IdRange
<1>8. ScanInv'
  BY <1>1, <1>7, NoScanFacts, IdRange DEF ScanInv
<1> QED BY <1>5, <1>8

-----------------------------------------------------------------------------

LEMMA SyncStep == SyncInv /\ [SyncNext]_<<vars, syncVars>> => SyncInv'
<1> SUFFICES ASSUME SyncInv, [SyncNext]_<<vars, syncVars>> PROVE SyncInv'
  OBVIOUS
<1>0. SyncTypeOK /\ DirInv /\ PlacedInv /\ OwnerInv /\ ScanInv
  BY DEF SyncInv
<1>1. CASE Next /\ Watched
  <2>1. DirInv' /\ PlacedInv'
    BY <1>0, <1>1, DirStep, PlacedStep
  <2>2. TopPlace'
    BY <2>1, Top, PTL
  <2>3. OwnerInv'
    BY <1>0, <1>1, <2>1, <2>2, OwnerStep
  <2>4. SyncTypeOK' /\ ScanInv'
    BY <1>0, <1>1, <2>1, WatchedStep
  <2> QED BY <2>1, <2>3, <2>4 DEF SyncInv
<1>2. CASE Sync
  <2>1. UNCHANGED vars /\ UNCHANGED owner
    BY <1>2 DEF Sync, OpenScan, Return, ShowNew, EndScan, SyncKill
  <2>2. DirInv' /\ PlacedInv' /\ OwnerInv'
    BY <1>0, <2>1, PeerSame
  <2>3. SyncTypeOK' /\ ScanInv'
    BY <1>0, <1>2, OpenScanStep, ReturnStep, ShowNewStep, EndScanStep, SyncKillStep DEF Sync
  <2> QED BY <2>2, <2>3 DEF SyncInv
<1>3. CASE UNCHANGED <<vars, syncVars>>
  <2>1. UNCHANGED vars /\ UNCHANGED <<owner, scan, synced, sync_kills, tried, passed, born>>
    BY <1>3 DEF syncVars, syncHistory, vars, history
  <2>2. DirInv' /\ PlacedInv' /\ OwnerInv' /\ \A s, i : Bears(s, i)' <=> Bears(s, i)
    BY <1>0, <2>1, PeerSame
  <2>3. SyncTypeOK'
    BY <1>0, <2>1, <2>2 DEF SyncTypeOK, DirInv
  <2>4. \A i : Settled(i) => Settled(i)'
    BY <2>1, SettledSame DEF vars
  <2>5. ScanInv'
    BY <1>0, <2>1, <2>4 DEF ScanInv
  <2> QED BY <2>2, <2>3, <2>5 DEF SyncInv
<1> QED BY <1>1, <1>2, <1>3 DEF SyncNext

LEMMA SyncHolds == SyncSpec => []SyncInv
BY SyncInit_Inv, SyncStep, PTL DEF SyncSpec

\* Peer and importing fuzzer together leave every variable well-typed.
THEOREM SyncTypeCorrect == SyncSpec => []SyncTypeOK
<1>1. SyncInv => SyncTypeOK
  BY DEF SyncInv
<1> QED BY <1>1, SyncHolds, PTL

\* The number that sync_fuzzers writes to .synced/ is worth what it promises: what
\* the peer's queue/ holds below it, under the id that a case was the first to bear,
\* was run, unless one of the listings had to pass over the id.  It holds for any
\* corpus and any number of kills of both, in spite of the renumbering at a resume,
\* because a resume never gives a case a higher id.
THEOREM SyncedWasTried == SyncSpec => []SyncedMeansTried
<1>1. ASSUME SyncInv PROVE SyncedMeansTried
  <2> SUFFICES ASSUME NEW n \in queue.names, n[1] < synced, owner[n[1]] = n[2],
                      n[1] \notin passed
               PROVE  n[2] \in tried
    BY DEF SyncedMeansTried
  <2>1. n[1] \in Ids /\ n = <<n[1], n[2]>>
    BY <1>1, FileIds DEF SyncInv
  <2>2. Settled(n[1])
    BY <1>1, <2>1 DEF SyncInv, ScanInv
  <2>3. Bears(n[2], n[1])
    BY <2>1 DEF Bears
  <2> QED BY <2>2, <2>3 DEF Settled
<1> QED BY <1>1, SyncHolds, PTL
=============================================================================
