--------------------------- MODULE OutDir_proofs ---------------------------
(***************************************************************************)
(* The output directory, for corpora of any size and any number of kills:  *)
(* no file or marker is ever in the way of another, and what was saved and *)
(* marked is found again by the next in-place resume.                      *)
(***************************************************************************)
EXTENDS OutDir, FiniteSetTheorems, TLAPS

Files(S) == {Fname(i) : i \in S}
DetMarks(S) == Files({i \in S : mem[i].passed_det})
RedMarks(S) == Files({i \in S : mem[i].fs_redundant})
SeedsIn(S) == {mem[i].seed : i \in S}
SeedsDet(S) == SeedsIn({i \in S : mem[i].passed_det})
Complete(d) == d.names \ d.empty

\* A directory has a file to an id and to a seed, of places and seeds there were.
Numbered(d) ==
  /\ \A m, n \in d.names : m[1] = n[1] \/ m[2] = n[2] => m = n
  /\ \A n \in d.names : n[1] <= born /\ n[2] <= born
  /\ ~d.there => d = NoDir

\* The entries are as many as there are seeds, at most, and each has its own.
ListInv ==
  /\ Numbered(queue) /\ Numbered(resume)
  /\ Len(mem) <= born
  /\ \A i, j \in DOMAIN mem : mem[i].seed = mem[j].seed => i = j
  /\ \A i \in DOMAIN mem : mem[i].seed <= born

\* The new queue/ holds the files of all entries but those in missing, those in
\* empty without their bytes, and their markers.
Mirrors(missing, empty) ==
  /\ queue.names = Files(DOMAIN mem \ missing)
  /\ queue.empty = Files(empty)
  /\ queue.det = DetMarks(DOMAIN mem)
  /\ queue.red = RedMarks(DOMAIN mem)

\* What the disk looks like between the steps that lead from one entry list to
\* the next.
DiskInv ==
  /\ pc # "fatal"
  /\ pc \in Running \cup {"pivot", "nuke"} => queue.there
  /\ pc \in {"run", "nuke"} => Mirrors({}, {})
  /\ pc = "saving" => /\ at = Len(mem) /\ at \in DOMAIN mem /\ ~mem[at].passed_det
                      /\ Mirrors({}, {at})
  /\ pc = "unlinked" => at \in DOMAIN mem /\ Mirrors({at}, {})
  /\ pc = "created" => at \in DOMAIN mem /\ Mirrors({}, {at})
  /\ pc = "pivot" => /\ queue.names = Files(1 .. at) /\ queue.empty = {}
                     /\ queue.det = DetMarks(1 .. at) /\ queue.red = {}
                     /\ \A i \in DOMAIN mem : ~mem[i].fs_redundant

\* Which directory the entries came from, and whether it is there still.
ResumeInv ==
  /\ pc \in {"down", "clean", "nuke"} => kills > 0
  /\ pc \in Running => resume = NoDir
  /\ pc = "pivot" /\ kills = 0 => resume = NoDir
  /\ pc = "pivot" /\ kills > 0 =>
       /\ DOMAIN mem # {}
       /\ SeedsIn(DOMAIN mem) = SeedsOf(Complete(resume))
       /\ SeedsDet(DOMAIN mem) = SeedsOf(resume.det \cap Complete(resume))
  /\ pc = "nuke" /\ resume.names = {} => ~resume.state
  /\ pc = "clean" => ~Moves

\* A marker without a complete file is that of a test case that was at risk.
Stale(d) == \A n \in d.det \ Complete(d) : n[2] \in atRisk

\* Directory d has all that was saved and marked, but for what was at risk.
Keeps(d) ==
  /\ saved \ atRisk \subseteq SeedsOf(Complete(d))
  /\ detDone \ (atRisk \cup detAtRisk) \subseteq SeedsOf(d.det \cap d.names)
  /\ Stale(d)

\* The entries S of the list do.
KeptBy(S) ==
  /\ saved \ atRisk \subseteq SeedsIn(S)
  /\ detDone \ (atRisk \cup detAtRisk) \subseteq SeedsDet(S)

KeepInv ==
  /\ pc = "down" => Keeps(Source)
  /\ pc = "clean" => Keeps(resume)
  /\ pc = "pivot" /\ kills = 0 => KeptBy(1 .. at)
  /\ pc = "pivot" /\ kills > 0 => Keeps(resume)
  /\ pc = "nuke" => KeptBy(DOMAIN mem) /\ Stale(resume)
  /\ pc \in {"run", "unlinked", "created"} => KeptBy(DOMAIN mem)
  /\ pc = "saving" => KeptBy(DOMAIN mem \ {at})

\* What is in the list is saved, but for the file under way.
SavedInv ==
  /\ pc \in {"run", "unlinked", "created", "nuke"} => SeedsIn(DOMAIN mem) \subseteq saved
  /\ pc = "saving" => SeedsIn(DOMAIN mem \ {at}) \subseteq saved
  /\ pc = "pivot" => SeedsIn(1 .. at) \subseteq saved

DirInv == TypeOK /\ ListInv /\ DiskInv /\ ResumeInv /\ KeepInv /\ SavedInv

-----------------------------------------------------------------------------
(* The places of names in a sorted listing.                                *)

\* The ids of a set of names are distinct.
Distinct(S) == \A m, n \in S : m[1] = n[1] => m = n

LEMMA NameParts ==
  \A n \in Names : n = <<n[1], n[2]>> /\ n[1] \in Seeds /\ n[2] \in Seeds
                   /\ n[1] \in Nat /\ n[2] \in Nat /\ n[1] >= 1
  BY DEF Names, Seeds

\* As many names as ids.
LEMMA NamesBounded ==
  ASSUME NEW S, S \subseteq Names, Distinct(S), NEW b \in Nat, \A n \in S : n[1] <= b
  PROVE  IsFiniteSet(S) /\ Cardinality(S) \in Nat /\ Cardinality(S) <= b
<1> DEFINE id == [n \in S |-> n[1]]
<1>1. id \in [S -> 1 .. b]
  BY NameParts
<1>2. \A m, n \in S : id[m] = id[n] => m = n
  BY DEF Distinct
<1>3. id \in Injection(S, 1 .. b)
  BY <1>1, <1>2 DEF Injection, IsInjective
<1>4. IsFiniteSet(1 .. b) /\ Cardinality(1 .. b) = b
  BY FS_Interval
<1>5. IsFiniteSet(S) /\ Cardinality(S) <= Cardinality(1 .. b)
  BY <1>3, <1>4, FS_Injection
<1> QED BY <1>4, <1>5, FS_CardinalityType

LEMMA NamesFinite ==
  ASSUME NEW S, S \subseteq Names, Distinct(S)
  PROVE  IsFiniteSet(S) /\ Cardinality(S) \in Nat /\ Cardinality(S) <= MaxSeeds
<1>1. \A n \in S : n[1] <= MaxSeeds
  BY NameParts, SeedsAssumption DEF Seeds
<1> QED BY <1>1, NamesBounded, SeedsAssumption

Upto(n, files) == {m \in files : m[1] <= n[1]}

LEMMA PlaceRange ==
  ASSUME NEW S, S \subseteq Names, Distinct(S), NEW n \in S
  PROVE  /\ Place(n, S) \in 1 .. Cardinality(S)
         /\ Place(n, S) <= n[1]
<1>1. n \in Upto(n, S) /\ Upto(n, S) \subseteq S /\ Distinct(Upto(n, S))
      /\ Upto(n, S) \subseteq Names
  BY NameParts DEF Upto, Distinct
<1>2. n[1] \in Nat /\ \A m \in Upto(n, S) : m[1] <= n[1]
  BY NameParts DEF Upto
<1>3. /\ IsFiniteSet(Upto(n, S)) /\ Cardinality(Upto(n, S)) \in Nat
      /\ Cardinality(Upto(n, S)) <= n[1]
  BY <1>1, <1>2, NamesBounded
<1>4. IsFiniteSet(S) /\ Cardinality(S) \in Nat
  BY NamesFinite
<1>5. Cardinality(Upto(n, S)) <= Cardinality(S)
  BY <1>1, <1>4, FS_Subset
<1>6. Cardinality(Upto(n, S)) # 0
  BY <1>1, <1>3, FS_EmptySet
<1>7. Place(n, S) = Cardinality(Upto(n, S))
  BY DEF Place, Upto
<1> QED BY <1>3, <1>4, <1>5, <1>6, <1>7

LEMMA PlaceDistinct ==
  ASSUME NEW S, S \subseteq Names, Distinct(S), NEW m \in S, NEW n \in S,
         Place(m, S) = Place(n, S)
  PROVE  m = n
<1>1. \A p, q \in S : Cardinality(Upto(p, S)) = Cardinality(Upto(q, S)) /\ p[1] <= q[1]
                      => p = q
  <2> SUFFICES ASSUME NEW p \in S, NEW q \in S, p[1] <= q[1],
                      Cardinality(Upto(p, S)) = Cardinality(Upto(q, S))
               PROVE  p = q
    OBVIOUS
  <2>1. Upto(p, S) \subseteq Upto(q, S) /\ Upto(q, S) \subseteq S
    BY NameParts DEF Upto
  <2>2. IsFiniteSet(Upto(q, S))
    BY <2>1, NamesFinite, FS_Subset
  <2>3. Upto(p, S) = Upto(q, S)
    BY <2>1, <2>2, FS_Subset
  <2>4. q \in Upto(q, S)
    BY NameParts DEF Upto
  <2>5. q[1] <= p[1]
    BY <2>3, <2>4 DEF Upto
  <2> QED BY <2>5, NameParts DEF Distinct
<1>2. Cardinality(Upto(m, S)) = Cardinality(Upto(n, S))
  BY DEF Place, Upto
<1>3. m[1] <= n[1] \/ n[1] <= m[1]
  BY NameParts
<1> QED BY <1>1, <1>2, <1>3

\* Fewer files, and a name moves up.
LEMMA PlaceMoves ==
  ASSUME NEW S, S \subseteq Names, Distinct(S), NEW T, T \subseteq S, NEW n \in T
  PROVE  Place(n, T) <= Place(n, S)
<1>1. Upto(n, T) \subseteq Upto(n, S) /\ Upto(n, S) \subseteq S
  BY DEF Upto
<1>2. IsFiniteSet(Upto(n, S))
  BY <1>1, NamesFinite, FS_Subset
<1> QED BY <1>1, <1>2, FS_Subset DEF Place, Upto

\* Every place is taken.
LEMMA PlaceTaken ==
  ASSUME NEW S, S \subseteq Names, Distinct(S), NEW i \in 1 .. Cardinality(S)
  PROVE  \E n \in S : Place(n, S) = i
<1> DEFINE place == [n \in S |-> Place(n, S)]
<1>1. IsFiniteSet(S) /\ Cardinality(S) \in Nat
  BY NamesFinite
<1>2. place \in [S -> 1 .. Cardinality(S)]
  BY PlaceRange
<1>3. \A m, n \in S : place[m] = place[n] => m = n
  BY PlaceDistinct
<1>4. place \in Injection(S, 1 .. Cardinality(S))
  BY <1>2, <1>3 DEF Injection, IsInjective
<1>5. IsFiniteSet(1 .. Cardinality(S)) /\ Cardinality(1 .. Cardinality(S)) = Cardinality(S)
  BY <1>1, FS_Interval
<1>6. place \in Surjection(S, 1 .. Cardinality(S))
  BY <1>4, <1>5, FS_Injection
<1> QED BY <1>6 DEF Surjection

\* The listing has every complete file of _resume/ at its place, and no other.
LEMMA ListingPlaces ==
  ASSUME resume \in Directory, Distinct(resume.names)
  PROVE  /\ Cardinality(Complete(resume)) \in Nat
         /\ Cardinality(Complete(resume)) <= MaxSeeds
         /\ Listing \in [1 .. Cardinality(Complete(resume)) -> Complete(resume)]
         /\ \A i \in DOMAIN Listing : Place(Listing[i], Complete(resume)) = i
         /\ \A n \in Complete(resume) :
              /\ Place(n, Complete(resume)) \in DOMAIN Listing
              /\ Listing[Place(n, Complete(resume))] = n
<1> DEFINE S == Complete(resume)
<1>1. S \subseteq Names /\ Distinct(S)
  BY DEF Complete, Distinct, Directory
<1>2. Listing = [i \in 1 .. Cardinality(S) |-> CHOOSE n \in S : Place(n, S) = i]
  BY DEF Listing, Complete
<1>3. \A i \in 1 .. Cardinality(S) : Listing[i] \in S /\ Place(Listing[i], S) = i
  BY <1>1, <1>2, PlaceTaken
<1>4. Listing \in [1 .. Cardinality(S) -> S]
  BY <1>2, <1>3
<1>5. ASSUME NEW n \in S
      PROVE  Place(n, S) \in DOMAIN Listing /\ Listing[Place(n, S)] = n
  <2>1. Place(n, S) \in 1 .. Cardinality(S)
    BY <1>1, PlaceRange
  <2>2. Listing[Place(n, S)] \in S /\ Place(Listing[Place(n, S)], S) = Place(n, S)
    BY <1>3, <2>1
  <2> QED BY <1>1, <1>4, <2>1, <2>2, PlaceDistinct
<1>6. Cardinality(S) \in Nat /\ Cardinality(S) <= MaxSeeds
  BY <1>1, NamesFinite
<1> QED BY <1>2, <1>3, <1>4, <1>5, <1>6

-----------------------------------------------------------------------------
(* Directories and the files of the list.                                  *)

LEMMA SeedRange == /\ MaxSeeds \in Nat /\ InitSeeds \in Nat /\ InitSeeds >= 1
                   /\ InitSeeds <= MaxSeeds /\ Seeds = 1 .. MaxSeeds
  BY SeedsAssumption DEF Seeds

LEMMA EmptyDirs ==
  /\ NoDir \in Directory /\ NewDir \in Directory
  /\ ~NoDir.there /\ ~NoDir.state /\ NoDir.names = {} /\ NoDir.empty = {}
  /\ NoDir.det = {} /\ NoDir.red = {}
  /\ NewDir.there /\ NewDir.state /\ NewDir.names = {} /\ NewDir.empty = {}
  /\ NewDir.det = {} /\ NewDir.red = {}
  BY DEF NoDir, NewDir, Directory

\* One unlink or rmdir: the markers go first, then .state/, the files, the rest.
LEMMA PrunedLess ==
  ASSUME NEW d \in Directory, d.there, NEW p \in Pruned(d)
  PROVE  /\ p \in Directory
         /\ p.names \subseteq d.names
         /\ Complete(p) \subseteq Complete(d)
         /\ p.det \subseteq d.det
         /\ d.det # {} => Complete(p) = Complete(d)
         /\ p.there \/ p = NoDir
         /\ d.names # {} \/ ~d.state => p.names # {} \/ ~p.state
<1> USE DEF Directory, Complete
<1>1. CASE d.det # {}
  <2>1. PICK n \in d.det : p = [d EXCEPT !.det = @ \ {n}]
    BY <1>1 DEF Pruned
  <2>2. p = [there |-> d.there, state |-> d.state, names |-> d.names, empty |-> d.empty,
             det |-> d.det \ {n}, red |-> d.red]
    BY <2>1
  <2> QED BY <2>2
<1>2. CASE d.det = {} /\ d.red # {}
  <2>1. PICK n \in d.red : p = [d EXCEPT !.red = @ \ {n}]
    BY <1>2 DEF Pruned
  <2> QED BY <1>2, <2>1
<1>3. CASE d.det = {} /\ d.red = {} /\ d.state
  <2>1. p = [d EXCEPT !.state = FALSE]
    BY <1>3 DEF Pruned
  <2> QED BY <1>3, <2>1
<1>4. CASE d.det = {} /\ d.red = {} /\ ~d.state /\ d.names # {}
  <2>1. PICK n \in d.names : p = [d EXCEPT !.names = @ \ {n}, !.empty = @ \ {n}]
    BY <1>4 DEF Pruned
  <2> QED BY <1>4, <2>1
<1>5. CASE d.det = {} /\ d.red = {} /\ ~d.state /\ d.names = {}
  <2>1. p = NoDir
    BY <1>5 DEF Pruned
  <2> QED BY <1>5, <2>1, EmptyDirs
<1> QED BY <1>1, <1>2, <1>3, <1>4, <1>5

LEMMA ListFacts ==
  ASSUME TypeOK, ListInv
  PROVE  /\ DOMAIN mem = 1 .. Len(mem) /\ Len(mem) \in Nat /\ Len(mem) <= born
         /\ born \in Nat /\ born <= MaxSeeds /\ at \in Nat
         /\ \A i \in DOMAIN mem :
              /\ i \in Nat /\ i >= 1 /\ i <= born /\ mem[i] \in Entry
              /\ mem[i].seed \in 1 .. born /\ mem[i].passed_det \in BOOLEAN
              /\ mem[i].fs_redundant \in BOOLEAN
              /\ Fname(i) = <<i, mem[i].seed>> /\ Fname(i) \in Names
<1>1. DOMAIN mem = 1 .. Len(mem) /\ Len(mem) \in Nat /\ Len(mem) <= born
      /\ born \in Nat /\ born <= MaxSeeds /\ at \in Nat
  BY SeedRange DEF TypeOK, ListInv
<1>2. ASSUME NEW i \in DOMAIN mem
      PROVE  /\ i \in Nat /\ i >= 1 /\ i <= born /\ mem[i] \in Entry
             /\ mem[i].seed \in 1 .. born /\ mem[i].passed_det \in BOOLEAN
             /\ mem[i].fs_redundant \in BOOLEAN
             /\ Fname(i) = <<i, mem[i].seed>> /\ Fname(i) \in Names
  <2>1. mem[i] \in Entry
    BY <1>1 DEF TypeOK
  <2>2. mem[i].seed \in Seeds /\ mem[i].passed_det \in BOOLEAN
        /\ mem[i].fs_redundant \in BOOLEAN /\ mem[i].seed <= born
    BY <2>1 DEF Entry, ListInv
  <2>3. mem[i].seed \in 1 .. born
    BY <1>1, <2>2 DEF Seeds
  <2>4. i \in Nat /\ i >= 1 /\ i <= born /\ i \in Seeds
    BY <1>1, SeedRange
  <2>5. Fname(i) = <<i, mem[i].seed>> /\ Fname(i) \in Names
    BY <2>2, <2>4 DEF Fname, Names
  <2> QED BY <2>1, <2>2, <2>3, <2>4, <2>5
<1> QED BY <1>1, <1>2

\* The files of a list have an id and a seed each.
LEMMA FilesNumbered ==
  ASSUME TypeOK, ListInv, NEW S, S \subseteq DOMAIN mem
  PROVE  /\ Files(S) \subseteq Names
         /\ \A m, n \in Files(S) : m[1] = n[1] \/ m[2] = n[2] => m = n
         /\ \A n \in Files(S) : n[1] <= born /\ n[2] <= born
         /\ \A i \in DOMAIN mem : Fname(i) \in Files(S) <=> i \in S
<1>1. \A i \in DOMAIN mem : /\ Fname(i) = <<i, mem[i].seed>> /\ Fname(i) \in Names
                            /\ i <= born /\ mem[i].seed <= born
  BY ListFacts
<1>2. \A i, j \in DOMAIN mem : mem[i].seed = mem[j].seed => i = j
  BY DEF ListInv
<1>3. \A n \in Files(S) : \E i \in S : i \in DOMAIN mem /\ n = Fname(i)
  BY DEF Files
<1>4. \A i \in S : Fname(i) \in Files(S)
  BY DEF Files
<1>5. \A i \in DOMAIN mem : Fname(i)[1] = i /\ Fname(i)[2] = mem[i].seed
  BY <1>1
<1>6. \A m, n \in Files(S) : m[1] = n[1] \/ m[2] = n[2] => m = n
  BY <1>2, <1>3, <1>5
<1>7. Files(S) \subseteq Names /\ \A n \in Files(S) : n[1] <= born /\ n[2] <= born
  BY <1>1, <1>3, <1>5
<1>8. \A i \in DOMAIN mem : Fname(i) \in Files(S) => i \in S
  BY <1>3, <1>5
<1> QED BY <1>4, <1>6, <1>7, <1>8

\* The seeds of files and of entries.
LEMMA SeedsOfFiles ==
  ASSUME TypeOK, ListInv, NEW S, S \subseteq DOMAIN mem
  PROVE  SeedsOf(Files(S)) = SeedsIn(S)
<1>1. \A i \in S : Fname(i)[2] = mem[i].seed
  BY ListFacts
<1> QED BY <1>1 DEF SeedsOf, Files, SeedsIn

-----------------------------------------------------------------------------
(* Init, and the actions of the start-up.                                  *)

LEMMA Listed ==
  ASSUME NEW S, NEW k \in Nat, NEW f \in [1 .. k -> S]
  PROVE  f \in Seq(S) /\ Len(f) = k /\ DOMAIN f = 1 .. k
  OBVIOUS

LEMMA DirInit == Init => DirInv
<1> SUFFICES ASSUME Init PROVE DirInv
  OBVIOUS
<1>0. born = InitSeeds /\ born \in Nat /\ kills = 0 /\ at = 0 /\ pc = "pivot"
  BY SeedRange DEF Init
<1>1. /\ mem = [s \in 1 .. InitSeeds |-> NewEntry(s, FALSE)]
      /\ \A s \in 1 .. InitSeeds : NewEntry(s, FALSE) \in Entry
                                   /\ NewEntry(s, FALSE).seed = s
                                   /\ ~NewEntry(s, FALSE).fs_redundant
  BY SeedRange DEF Init, NewEntry, Entry
<1>2. mem \in Seq(Entry) /\ Len(mem) = InitSeeds /\ DOMAIN mem = 1 .. InitSeeds
  <2>1. mem \in [1 .. InitSeeds -> Entry] /\ InitSeeds \in Nat
    BY <1>1, SeedRange
  <2> QED BY <2>1, Listed
<1>3. \A i \in DOMAIN mem : mem[i].seed = i /\ ~mem[i].fs_redundant
  BY <1>1
<1>4. TypeOK
  <2>1. queue \in Directory /\ resume \in Directory
    BY EmptyDirs DEF Init
  <2>2. /\ at \in 0 .. Len(mem) /\ born \in InitSeeds .. MaxSeeds
        /\ kills \in 0 .. MaxKills /\ Len(mem) <= MaxSeeds
    BY <1>0, <1>2, SeedRange, KillsAssumption
  <2> QED BY <1>0, <1>2, <2>1, <2>2 DEF Init, TypeOK
<1>5. ListInv
  <2>1. queue.names = {} /\ queue.there /\ resume.names = {} /\ resume = NoDir
    BY EmptyDirs DEF Init
  <2>2. Numbered(queue) /\ Numbered(resume)
    BY <2>1 DEF Numbered
  <2>3. \A i \in DOMAIN mem : mem[i].seed <= born
    BY <1>0, <1>2, <1>3, SeedRange
  <2>4. \A i, j \in DOMAIN mem : mem[i].seed = mem[j].seed => i = j
    BY <1>3
  <2> QED BY <1>0, <1>2, <2>2, <2>3, <2>4 DEF ListInv
<1>6. Files(1 .. at) = {} /\ DetMarks(1 .. at) = {} /\ SeedsIn(1 .. at) = {}
  BY <1>0 DEF Files, DetMarks, SeedsIn
<1>7. DiskInv
  BY <1>0, <1>3, <1>6, EmptyDirs DEF Init, DiskInv, Running
<1>8. ResumeInv
  BY <1>0 DEF Init, ResumeInv, Running
<1>9. KeepInv
  BY <1>0 DEF Init, KeepInv, KeptBy
<1>10. SavedInv
  BY <1>0, <1>6 DEF SavedInv
<1> QED BY <1>4, <1>5, <1>7, <1>8, <1>9, <1>10 DEF DirInv

LEMMA StartStep == DirInv /\ Start => DirInv'
<1> SUFFICES ASSUME DirInv, Start PROVE DirInv'
  OBVIOUS
<1>1. /\ pc = "down" /\ pc' = "clean"
      /\ UNCHANGED <<mem, at, born, kills, saved, detDone, atRisk, detAtRisk>>
      /\ resume' = Source
      /\ queue' = IF Moves THEN NoDir ELSE queue
  BY DEF Start, Source, history
<1>2. TypeOK'
  BY <1>1, EmptyDirs DEF DirInv, TypeOK, Source
<1>3. ListInv'
  BY <1>1, EmptyDirs DEF DirInv, ListInv, Numbered, Source
<1>4. DiskInv'
  BY <1>1 DEF DiskInv, Running
<1>5. ResumeInv'
  BY <1>1, EmptyDirs DEF DirInv, ResumeInv, Running, Moves, Source
<1>6. KeepInv'
  <2>1. Keeps(Source)
    BY <1>1 DEF DirInv, KeepInv
  <2>2. Keeps(resume)'
    BY <1>1, <2>1 DEF Keeps, Stale
  <2> QED BY <1>1, <2>2 DEF KeepInv
<1>7. SavedInv'
  BY <1>1 DEF SavedInv
<1> QED BY <1>2, <1>3, <1>4, <1>5, <1>6, <1>7 DEF DirInv

LEMMA CleanQueueStep == DirInv /\ CleanQueue => DirInv'
<1> SUFFICES ASSUME DirInv, CleanQueue PROVE DirInv'
  OBVIOUS
<1>1. /\ pc = "clean" /\ pc' = "clean" /\ queue.there /\ queue' \in Pruned(queue)
      /\ UNCHANGED <<resume, mem, at, born, kills, saved, detDone, atRisk, detAtRisk>>
  BY DEF CleanQueue, history
<1>2. /\ queue \in Directory /\ queue' \in Directory /\ queue'.names \subseteq queue.names
      /\ queue'.there \/ queue' = NoDir
  BY <1>1, PrunedLess DEF DirInv, TypeOK
<1>3. TypeOK'
  BY <1>1, <1>2 DEF DirInv, TypeOK
<1>4. ListInv'
  BY <1>1, <1>2 DEF DirInv, ListInv, Numbered
<1>5. DiskInv'
  BY <1>1 DEF DiskInv, Running
<1>6. ResumeInv'
  BY <1>1 DEF DirInv, ResumeInv, Running, Moves
<1>7. KeepInv'
  BY <1>1 DEF DirInv, KeepInv, Keeps, Stale
<1>8. SavedInv'
  BY <1>1 DEF SavedInv
<1> QED BY <1>3, <1>4, <1>5, <1>6, <1>7, <1>8 DEF DirInv

\* read_testcases lists the complete files of _resume/, each once, with its marker.
LEMMA Reread ==
  ASSUME DirInv, ReadTestcases
  PROVE  /\ mem' \in Seq(Entry) /\ Len(mem') <= born /\ Len(mem') <= MaxSeeds
         /\ DOMAIN mem' = DOMAIN Listing /\ DOMAIN mem' = 1 .. Len(mem')
         /\ Len(mem') \in Nat /\ Len(mem') = Len(Listing)
         /\ \A i \in DOMAIN mem' :
              /\ Listing[i] \in Complete(resume)
              /\ mem'[i].seed = Listing[i][2]
              /\ mem'[i].passed_det <=> Listing[i] \in resume.det
              /\ ~mem'[i].fs_redundant
         /\ \A n \in Complete(resume) : \E i \in DOMAIN mem' :
              Listing[i] = n /\ Place(n, Complete(resume)) = i
         /\ \A i, j \in DOMAIN mem' : mem'[i].seed = mem'[j].seed => i = j
         /\ \A i \in DOMAIN mem' : mem'[i].seed <= born
<1>1. /\ Numbered(resume) /\ resume \in Directory /\ born \in Nat /\ born <= MaxSeeds
      /\ Distinct(resume.names) /\ Complete(resume) \subseteq Names
      /\ Distinct(Complete(resume)) /\ Complete(resume) \subseteq resume.names
  BY SeedRange DEF DirInv, ListInv, TypeOK, Numbered, Distinct, Complete, Directory
<1> DEFINE k == Cardinality(Complete(resume))
<1>2. /\ k \in Nat /\ Listing \in [1 .. k -> Complete(resume)]
      /\ \A i \in DOMAIN Listing : Place(Listing[i], Complete(resume)) = i
      /\ \A n \in Complete(resume) :
           /\ Place(n, Complete(resume)) \in DOMAIN Listing
           /\ Listing[Place(n, Complete(resume))] = n
  BY <1>1, ListingPlaces
<1>3. k <= born
  <2>1. \A n \in Complete(resume) : n[1] <= born
    BY <1>1 DEF Numbered
  <2> QED BY <1>1, <2>1, NamesBounded
<1>4. mem' = [i \in DOMAIN Listing |-> NewEntry(Listing[i][2], Listing[i] \in resume.det)]
  BY DEF ReadTestcases
<1>5. \A i \in 1 .. k : /\ Listing[i] \in Complete(resume) /\ Listing[i][2] \in Seeds
                        /\ Listing[i][2] <= born
  BY <1>1, <1>2, NameParts DEF Numbered
<1>7. ASSUME NEW i \in 1 .. k
      PROVE  /\ mem'[i] \in Entry /\ mem'[i].seed = Listing[i][2]
             /\ mem'[i].passed_det <=> Listing[i] \in resume.det
             /\ ~mem'[i].fs_redundant
  <2>1. Listing[i][2] \in Seeds
    BY <1>5
  <2>2. mem'[i] = NewEntry(Listing[i][2], Listing[i] \in resume.det)
    BY <1>2, <1>4
  <2>3. CASE Listing[i] \in resume.det
    <3>1. mem'[i] = NewEntry(Listing[i][2], TRUE)
      BY <2>2, <2>3
    <3> QED BY <2>1, <2>3, <3>1 DEF NewEntry, Entry
  <2>4. CASE Listing[i] \notin resume.det
    <3>0. (Listing[i] \in resume.det) = FALSE
      BY <2>4
    <3>1. mem'[i] = NewEntry(Listing[i][2], FALSE)
      BY <2>2, <3>0, Zenon
    <3> QED BY <2>1, <2>4, <3>1 DEF NewEntry, Entry
  <2> QED BY <2>3, <2>4
<1>8. mem' \in [1 .. k -> Entry]
  BY <1>2, <1>4, <1>7
<1>9. mem' \in Seq(Entry) /\ Len(mem') = k /\ DOMAIN mem' = 1 .. k
  BY <1>2, <1>8, Listed
<1>10. Len(Listing) = k /\ DOMAIN Listing = 1 .. k
  BY <1>2, Listed
<1>11. \A i, j \in 1 .. k : mem'[i].seed = mem'[j].seed => i = j
  <2> SUFFICES ASSUME NEW i \in 1 .. k, NEW j \in 1 .. k, mem'[i].seed = mem'[j].seed
               PROVE  i = j
    OBVIOUS
  <2>1. Listing[i] = Listing[j]
    BY <1>1, <1>5, <1>7 DEF Numbered
  <2> QED BY <1>2, <1>10, <2>1
<1>12. \A n \in Complete(resume) : \E i \in 1 .. k :
              Listing[i] = n /\ Place(n, Complete(resume)) = i
  BY <1>2, <1>10
<1>13. \A i \in 1 .. k :
         /\ Listing[i] \in Complete(resume)
         /\ mem'[i].seed = Listing[i][2]
         /\ mem'[i].passed_det <=> Listing[i] \in resume.det
         /\ ~mem'[i].fs_redundant
         /\ mem'[i].seed <= born
  BY <1>5, <1>7
<1>14. k <= MaxSeeds
  BY <1>1, <1>2, <1>3, SeedRange
<1> HIDE DEF k
<1> QED BY <1>3, <1>2, <1>9, <1>10, <1>11, <1>12, <1>13, <1>14

LEMMA ReadStep == DirInv /\ ReadTestcases => DirInv'
<1> SUFFICES ASSUME DirInv, ReadTestcases PROVE DirInv'
  OBVIOUS
<1>1. /\ pc = "clean" /\ queue' = NewDir /\ at' = 0
      /\ pc' = IF Listing = <<>> THEN "down" ELSE "pivot"
      /\ UNCHANGED <<resume, born, kills, saved, detDone, atRisk, detAtRisk>>
  BY DEF ReadTestcases, history
<1>2. TypeOK'
  <2>1. at' \in 0 .. Len(mem')
    BY <1>1, Reread
  <2> QED BY <1>1, <2>1, Reread, EmptyDirs DEF DirInv, TypeOK, Running
<1>3. ListInv'
  <2>1. Numbered(queue)'
    BY <1>1, EmptyDirs DEF Numbered
  <2>2. Numbered(resume)'
    BY <1>1 DEF DirInv, ListInv, Numbered
  <2> QED BY <1>1, <2>1, <2>2, Reread DEF ListInv
<1>4. \A S : S = {} => Files(S)' = {} /\ DetMarks(S)' = {} /\ SeedsIn(S)' = {}
  BY DEF Files, DetMarks, SeedsIn
<1>5. 1 .. at' = {}
  BY <1>1
<1>6. DiskInv'
  <2>1. Files(1 .. at)' = {} /\ DetMarks(1 .. at)' = {}
    BY <1>5 DEF Files, DetMarks
  <2> QED BY <1>1, <2>1, Reread, EmptyDirs DEF DiskInv, Running
<1>7. \A n \in Complete(resume) : n \in resume.names
  BY DEF Complete
<1>8. ResumeInv'
  <2>1. kills' > 0
    BY <1>1 DEF DirInv, ResumeInv
  <2>2. SeedsIn(DOMAIN mem)' = SeedsOf(Complete(resume))
    <3>1. \A i \in DOMAIN mem' : \E n \in Complete(resume) : mem'[i].seed = n[2]
      BY Reread
    <3>2. \A n \in Complete(resume) : \E i \in DOMAIN mem' : mem'[i].seed = n[2]
      BY Reread
    <3> QED BY <3>1, <3>2 DEF SeedsIn, SeedsOf
  <2>3. SeedsDet(DOMAIN mem)' = SeedsOf(resume.det \cap Complete(resume))
    <3>1. \A i \in {j \in DOMAIN mem' : mem'[j].passed_det} :
            \E n \in resume.det \cap Complete(resume) : mem'[i].seed = n[2]
      BY Reread
    <3>2. \A n \in resume.det \cap Complete(resume) :
            \E i \in {j \in DOMAIN mem' : mem'[j].passed_det} : mem'[i].seed = n[2]
      BY Reread
    <3> QED BY <3>1, <3>2 DEF SeedsDet, SeedsIn, SeedsOf
  <2>4. pc' = "pivot" => DOMAIN mem' # {}
    <3> SUFFICES ASSUME DOMAIN mem' = {} PROVE Listing = <<>>
      BY <1>1
    <3>1. Len(Listing) = 0
      BY Reread
    <3>2. Listing \in Seq(Complete(resume))
      <4>1. resume \in Directory /\ Distinct(resume.names)
        BY DEF DirInv, ListInv, TypeOK, Numbered, Distinct
      <4> QED BY <4>1, ListingPlaces, Listed
    <3> QED BY <3>1, <3>2
  <2> QED BY <1>1, <2>1, <2>2, <2>3, <2>4 DEF ResumeInv, Running, Complete
<1>9. Keeps(resume) /\ detDone \subseteq saved
  BY <1>1 DEF DirInv, KeepInv, TypeOK
<1>10. KeepInv'
  <2>1. CASE pc' = "pivot"
    <3>1. Keeps(resume)' /\ kills' > 0
      BY <1>1, <1>9 DEF Keeps, Stale, DirInv, ResumeInv
    <3> QED BY <2>1, <3>1, <1>1 DEF KeepInv, DirInv, TypeOK
  <2>2. CASE pc' = "down"
    <3>1. Complete(resume) = {}
      <4>1. DOMAIN mem' = {}
        BY <1>1, <2>2, Reread
      <4> QED BY <4>1, Reread
    <3>2. saved \ atRisk = {}
      BY <1>9, <3>1 DEF Keeps, SeedsOf
    <3>3. Keeps(NewDir)'
      BY <1>1, <1>9, <3>2, EmptyDirs DEF Keeps, Stale
    <3>4. Keeps(resume)'
      BY <1>1, <1>9 DEF Keeps, Stale
    <3>5. Source' = NewDir \/ Source' = resume
      BY <1>1 DEF Source
    <3>6. Keeps(Source)'
      BY <1>1, <3>3, <3>4, <3>5 DEF Keeps, Stale
    <3> QED BY <2>2, <3>6 DEF KeepInv
  <2> QED BY <1>1, <2>1, <2>2
<1>11. SavedInv'
  BY <1>1, <1>5 DEF SavedInv, SeedsIn
<1> QED BY <1>2, <1>3, <1>6, <1>8, <1>10, <1>11 DEF DirInv

LEMMA SameFiles ==
  ASSUME mem' = mem
  PROVE  \A S : /\ Files(S)' = Files(S) /\ DetMarks(S)' = DetMarks(S)
                /\ RedMarks(S)' = RedMarks(S)
                /\ SeedsIn(S)' = SeedsIn(S) /\ SeedsDet(S)' = SeedsDet(S)
  BY DEF Files, DetMarks, RedMarks, SeedsIn, SeedsDet, Fname

\* While the list is pivoted.
LEMMA PivotFacts ==
  ASSUME DirInv, pc = "pivot"
  PROVE  /\ at \in Nat /\ at <= Len(mem) /\ 1 .. at \subseteq DOMAIN mem
         /\ queue.names = Files(1 .. at) /\ queue.empty = {}
         /\ queue.det = DetMarks(1 .. at) /\ queue.red = {} /\ queue.there
         /\ SeedsIn(1 .. at) \subseteq saved
  BY ListFacts DEF DirInv, TypeOK, DiskInv, SavedInv

LEMMA PivotStep == DirInv /\ Pivot => DirInv'
<1> SUFFICES ASSUME DirInv, Pivot PROVE DirInv'
  OBVIOUS
<1> DEFINE k == at + 1
<1>0. TypeOK /\ ListInv
  BY DEF DirInv
<1>1. /\ pc = "pivot" /\ at < Len(mem) /\ at \in Nat /\ k \in DOMAIN mem
      /\ 1 .. k = (1 .. at) \cup {k} /\ 1 .. k \subseteq DOMAIN mem /\ k \notin 1 .. at
      /\ UNCHANGED <<resume, mem, born, kills, detDone, atRisk, detAtRisk>>
  BY <1>0, ListFacts DEF Pivot
<1>2. Fname(k) \notin queue.names
  BY <1>0, <1>1, PivotFacts, FilesNumbered
<1>3. /\ queue' = [queue EXCEPT !.names = @ \cup {Fname(k)},
                     !.det = IF mem[k].passed_det THEN @ \cup {Fname(k)} ELSE @]
      /\ at' = k /\ saved' = saved \cup {mem[k].seed} /\ pc' = pc
  BY <1>2 DEF Pivot
<1>4. queue \in Directory /\ Fname(k) \in Names /\ mem[k].seed \in 1 .. born
  BY <1>0, <1>1, ListFacts DEF TypeOK
<1>5. /\ queue' \in Directory /\ queue'.names = queue.names \cup {Fname(k)}
      /\ queue'.empty = queue.empty /\ queue'.red = queue.red /\ queue'.there = queue.there
      /\ queue'.det = IF mem[k].passed_det THEN queue.det \cup {Fname(k)} ELSE queue.det
  BY <1>3, <1>4 DEF Directory
<1>6. /\ Files(1 .. k) = Files(1 .. at) \cup {Fname(k)}
      /\ SeedsIn(1 .. k) = SeedsIn(1 .. at) \cup {mem[k].seed}
      /\ DetMarks(1 .. k) = IF mem[k].passed_det THEN DetMarks(1 .. at) \cup {Fname(k)}
                            ELSE DetMarks(1 .. at)
      /\ SeedsDet(1 .. at) \subseteq SeedsDet(1 .. k)
  BY <1>1 DEF Files, SeedsIn, DetMarks, SeedsDet
<1>7. TypeOK'
  BY <1>0, <1>1, <1>3, <1>4, <1>5 DEF TypeOK
<1>8. ListInv'
  <2>1. queue'.names = Files(1 .. k) /\ queue'.there
    BY <1>1, <1>5, <1>6, PivotFacts
  <2>2. Numbered(queue)'
    BY <1>0, <1>1, <2>1, FilesNumbered DEF Numbered
  <2> QED BY <1>0, <1>1, <2>2 DEF ListInv, Numbered
<1>9. DiskInv'
  <2>1. /\ queue'.names = Files(1 .. k) /\ queue'.empty = {} /\ queue'.there
        /\ queue'.det = DetMarks(1 .. k) /\ queue'.red = {}
    BY <1>1, <1>5, <1>6, PivotFacts
  <2>3. Files(1 .. at)' = Files(1 .. k) /\ DetMarks(1 .. at)' = DetMarks(1 .. k)
    BY <1>1, <1>3 DEF Files, DetMarks, Fname
  <2>4. \A i \in DOMAIN mem' : ~mem'[i].fs_redundant
    BY <1>1 DEF DirInv, DiskInv
  <2> QED BY <1>1, <1>3, <2>1, <2>3, <2>4 DEF DiskInv, Running
<1>10. ResumeInv'
  BY <1>1, <1>3, SameFiles DEF DirInv, ResumeInv, Running, Complete
<1>11. KeepInv'
  <2>1. CASE kills = 0
    <3>1. KeptBy(1 .. at)
      BY <1>1, <2>1 DEF DirInv, KeepInv
    <3>2. /\ saved' \ atRisk \subseteq SeedsIn(1 .. k)
          /\ detDone \ (atRisk \cup detAtRisk) \subseteq SeedsDet(1 .. k)
      BY <1>3, <1>6, <3>1 DEF KeptBy
    <3>3. SeedsIn(1 .. at)' = SeedsIn(1 .. k) /\ SeedsDet(1 .. at)' = SeedsDet(1 .. k)
      BY <1>1, <1>3 DEF SeedsIn, SeedsDet
    <3>4. KeptBy(1 .. at)'
      BY <1>1, <3>2, <3>3 DEF KeptBy
    <3> QED BY <1>1, <1>3, <2>1, <3>4 DEF KeepInv
  <2>2. CASE kills > 0
    <3>1. Keeps(resume) /\ SeedsIn(DOMAIN mem) = SeedsOf(Complete(resume))
      BY <1>1, <2>2 DEF DirInv, KeepInv, ResumeInv
    <3>2. mem[k].seed \in SeedsOf(Complete(resume))
      BY <1>1, <3>1 DEF SeedsIn
    <3>3. Keeps(resume)'
      BY <1>1, <1>3, <3>1, <3>2 DEF Keeps, Stale, Complete
    <3> QED BY <1>1, <1>3, <2>2, <3>3 DEF KeepInv
  <2> QED BY <1>0, <2>1, <2>2 DEF TypeOK
<1>12. SavedInv'
  <2>1. SeedsIn(1 .. at)' = SeedsIn(1 .. k)
    BY <1>1, <1>3 DEF SeedsIn
  <2>2. SeedsIn(1 .. k) \subseteq saved'
    BY <1>1, <1>3, <1>6, PivotFacts
  <2> QED BY <1>1, <1>3, <2>1, <2>2 DEF SavedInv
<1> QED BY <1>7, <1>8, <1>9, <1>10, <1>11, <1>12 DEF DirInv

LEMMA PivotDoneStep == DirInv /\ PivotDone => DirInv'
<1> SUFFICES ASSUME DirInv, PivotDone PROVE DirInv'
  OBVIOUS
<1>0. TypeOK /\ ListInv
  BY DEF DirInv
<1>1. /\ pc = "pivot" /\ at = Len(mem) /\ 1 .. at = DOMAIN mem /\ at' = 0
      /\ pc' = IF kills > 0 THEN "nuke" ELSE "run"
      /\ UNCHANGED <<queue, resume, mem, born, kills, saved, detDone, atRisk, detAtRisk>>
  BY <1>0, ListFacts DEF PivotDone, history, in_place_resume
<1>2. TypeOK'
  BY <1>0, <1>1, ListFacts DEF TypeOK, Running
<1>3. ListInv'
  BY <1>0, <1>1 DEF ListInv, Numbered
<1>4. RedMarks(DOMAIN mem) = {}
  BY <1>1 DEF DirInv, DiskInv, RedMarks, Files
<1>5. Mirrors({}, {})'
  <2>1. DOMAIN mem \ {} = DOMAIN mem /\ Files({}) = {}
    BY DEF Files
  <2>2. Mirrors({}, {})
    BY <1>1, <1>4, <2>1, PivotFacts DEF Mirrors
  <2> QED BY <1>1, <2>2, SameFiles DEF Mirrors
<1>6. DiskInv'
  BY <1>1, <1>5, PivotFacts DEF DiskInv, Running
<1>7. CASE kills = 0
  <2>1. resume = NoDir /\ KeptBy(DOMAIN mem) /\ pc' = "run"
    BY <1>1, <1>7 DEF DirInv, ResumeInv, KeepInv
  <2>2. ResumeInv'
    BY <1>1, <2>1, <1>7 DEF ResumeInv
  <2>3. KeptBy(DOMAIN mem)'
    BY <1>1, <2>1, SameFiles DEF KeptBy
  <2>4. KeepInv'
    BY <2>1, <2>3 DEF KeepInv
  <2>5. SeedsIn(DOMAIN mem) \subseteq saved
    BY <1>1, PivotFacts
  <2>6. SavedInv'
    BY <1>1, <2>1, <2>5, SameFiles DEF SavedInv
  <2> QED BY <1>2, <1>3, <1>6, <2>2, <2>4, <2>6 DEF DirInv
<1>8. CASE kills > 0
  <2>1. /\ pc' = "nuke" /\ Keeps(resume) /\ DOMAIN mem # {}
        /\ SeedsIn(DOMAIN mem) = SeedsOf(Complete(resume))
        /\ SeedsDet(DOMAIN mem) = SeedsOf(resume.det \cap Complete(resume))
    BY <1>1, <1>8 DEF DirInv, ResumeInv, KeepInv
  <2>2. resume.names # {}
    <3>1. SeedsOf(Complete(resume)) # {}
      BY <2>1 DEF SeedsIn
    <3> QED BY <3>1 DEF SeedsOf, Complete
  <2>3. ResumeInv'
    BY <1>1, <1>8, <2>1, <2>2 DEF ResumeInv, Running
  <2>4. KeptBy(DOMAIN mem)
    <3>1. ASSUME NEW s \in detDone \ (atRisk \cup detAtRisk)
          PROVE  s \in SeedsOf(resume.det \cap Complete(resume))
      <4>1. PICK n \in resume.det \cap resume.names : n[2] = s
        BY <2>1 DEF Keeps, SeedsOf
      <4>2. n \in Complete(resume)
        BY <2>1, <4>1 DEF Keeps, Stale
      <4> QED BY <4>1, <4>2 DEF SeedsOf
    <3> QED BY <2>1, <3>1 DEF KeptBy, Keeps
  <2>5. KeptBy(DOMAIN mem)' /\ Stale(resume)'
    BY <1>1, <2>1, <2>4, SameFiles DEF KeptBy, Keeps, Stale, Complete
  <2>6. KeepInv'
    BY <2>1, <2>5 DEF KeepInv
  <2>7. SeedsIn(DOMAIN mem) \subseteq saved
    BY <1>1, PivotFacts
  <2>8. SavedInv'
    BY <1>1, <2>1, <2>7, SameFiles DEF SavedInv
  <2> QED BY <1>2, <1>3, <1>6, <2>3, <2>6, <2>8 DEF DirInv
<1> QED BY <1>0, <1>7, <1>8 DEF TypeOK

LEMMA NukeResumeStep == DirInv /\ NukeResume => DirInv'
<1> SUFFICES ASSUME DirInv, NukeResume PROVE DirInv'
  OBVIOUS
<1>1. /\ pc = "nuke" /\ resume \in Directory /\ kills > 0
      /\ UNCHANGED <<queue, mem, at, born, kills, saved, detDone, atRisk, detAtRisk>>
      /\ Mirrors({}, {}) /\ queue.there /\ KeptBy(DOMAIN mem) /\ Stale(resume)
      /\ SeedsIn(DOMAIN mem) \subseteq saved
      /\ (resume.names # {} \/ ~resume.state)
  BY DEF NukeResume, history, DirInv, TypeOK, DiskInv, KeepInv, ResumeInv, SavedInv
<1>2. Mirrors({}, {})' /\ KeptBy(DOMAIN mem)' /\ SeedsIn(DOMAIN mem)' \subseteq saved'
  BY <1>1, SameFiles DEF Mirrors, KeptBy
<1>3. CASE resume.there
  <2>1. pc' = "nuke" /\ resume' \in Pruned(resume)
    BY <1>1, <1>3 DEF NukeResume
  <2>2. /\ resume' \in Directory /\ resume'.names \subseteq resume.names
        /\ resume'.there \/ resume' = NoDir
        /\ resume'.names # {} \/ ~resume'.state
        /\ resume'.det \subseteq resume.det
        /\ resume.det # {} => Complete(resume') = Complete(resume)
    BY <1>1, <1>3, <2>1, PrunedLess
  <2>3. TypeOK'
    BY <1>1, <2>1, <2>2 DEF DirInv, TypeOK
  <2>4. ListInv'
    BY <1>1, <2>2 DEF DirInv, ListInv, Numbered
  <2>5. DiskInv'
    BY <1>1, <1>2, <2>1 DEF DiskInv, Running
  <2>6. ResumeInv'
    BY <1>1, <2>1, <2>2 DEF ResumeInv, Running
  <2>7. Stale(resume)'
    <3>1. \A n \in resume'.det \ Complete(resume') : n \in resume.det \ Complete(resume)
      BY <2>2
    <3> QED BY <1>1, <3>1 DEF Stale, Complete
  <2>8. KeepInv'
    BY <1>2, <2>1, <2>7 DEF KeepInv
  <2>9. SavedInv'
    BY <1>2, <2>1 DEF SavedInv
  <2> QED BY <2>3, <2>4, <2>5, <2>6, <2>8, <2>9 DEF DirInv
<1>4. CASE ~resume.there
  <2>1. pc' = "run" /\ resume' = resume /\ resume = NoDir
    BY <1>1, <1>4 DEF NukeResume, DirInv, ListInv, Numbered
  <2>3. TypeOK'
    BY <1>1, <2>1 DEF DirInv, TypeOK, Running
  <2>4. ListInv'
    BY <1>1, <2>1 DEF DirInv, ListInv, Numbered
  <2>5. DiskInv'
    BY <1>1, <1>2, <2>1 DEF DiskInv, Running
  <2>6. ResumeInv'
    BY <2>1 DEF ResumeInv
  <2>8. KeepInv'
    BY <1>2, <2>1 DEF KeepInv
  <2>9. SavedInv'
    BY <1>2, <2>1 DEF SavedInv
  <2> QED BY <2>3, <2>4, <2>5, <2>6, <2>8, <2>9 DEF DirInv
<1> QED BY <1>3, <1>4

-----------------------------------------------------------------------------
(* The actions of the fuzzing.                                             *)

\* While the fuzzer runs, the entries are on disk and kept, and _resume/ is gone.
LEMMA RunFacts ==
  ASSUME DirInv, pc \in Running
  PROVE  /\ queue \in Directory /\ queue.there /\ resume = NoDir
         /\ pc \in {"run", "unlinked", "created"} =>
              KeptBy(DOMAIN mem) /\ SeedsIn(DOMAIN mem) \subseteq saved
         /\ pc \in {"saving", "unlinked", "created"} => at \in DOMAIN mem
         /\ pc = "run" => Mirrors({}, {})
         /\ pc = "saving" => Mirrors({}, {at})
         /\ pc = "unlinked" => Mirrors({at}, {})
         /\ pc = "created" => Mirrors({}, {at})
<1>1. queue \in Directory /\ queue.there /\ resume = NoDir
  BY DEF DirInv, TypeOK, DiskInv, ResumeInv
<1>2. pc \in {"run", "unlinked", "created"} =>
        KeptBy(DOMAIN mem) /\ SeedsIn(DOMAIN mem) \subseteq saved
  BY DEF DirInv, KeepInv, SavedInv
<1>3. /\ pc \in {"saving", "unlinked", "created"} => at \in DOMAIN mem
      /\ pc = "run" => Mirrors({}, {})
      /\ pc = "saving" => Mirrors({}, {at})
      /\ pc = "unlinked" => Mirrors({at}, {})
      /\ pc = "created" => Mirrors({}, {at})
  BY DEF DirInv, DiskInv
<1> QED BY <1>1, <1>2, <1>3

LEMMA SaveCreateStep == DirInv /\ SaveCreate => DirInv'
<1> SUFFICES ASSUME DirInv, SaveCreate PROVE DirInv'
  OBVIOUS
<1> DEFINE k == Len(mem) + 1
           s == born + 1
           n == <<k, s>>
<1>0. TypeOK /\ ListInv /\ pc = "run"
  BY DEF DirInv, SaveCreate
<1>1. /\ born' = s /\ s <= MaxSeeds /\ mem' = Append(mem, NewEntry(s, FALSE))
      /\ at' = k /\ Create(n, "saving")
      /\ UNCHANGED <<resume, kills, saved, detDone, atRisk, detAtRisk>>
  BY <1>0, SeedRange DEF SaveCreate, TypeOK, Create
<1>2. /\ queue.names = Files(DOMAIN mem) /\ queue.empty = {} /\ queue.there
      /\ queue.det = DetMarks(DOMAIN mem) /\ queue.red = RedMarks(DOMAIN mem)
      /\ resume = NoDir /\ queue \in Directory
      /\ KeptBy(DOMAIN mem) /\ SeedsIn(DOMAIN mem) \subseteq saved
  <2>1. Files({}) = {} /\ DOMAIN mem \ {} = DOMAIN mem
    BY DEF Files
  <2> QED BY <1>0, <2>1, RunFacts DEF Mirrors, Running
<1>3. /\ DOMAIN mem = 1 .. Len(mem) /\ Len(mem) \in Nat /\ Len(mem) <= born
      /\ born \in Nat /\ k \notin DOMAIN mem /\ k \in Nat /\ k <= s
      /\ s \in Seeds /\ k \in Seeds /\ n \in Names
  BY <1>0, <1>1, ListFacts, SeedRange DEF Names
<1>4. n \notin queue.names
  BY <1>0, <1>2, <1>3, ListFacts DEF Files, Fname
<1>5. /\ queue' \in Directory /\ queue'.names = queue.names \cup {n} /\ queue'.empty = {n}
      /\ queue'.det = queue.det /\ queue'.red = queue.red /\ queue'.there /\ pc' = "saving"
  <2>1. queue' = [queue EXCEPT !.names = @ \cup {n}, !.empty = @ \cup {n}] /\ pc' = "saving"
    BY <1>1, <1>4 DEF Create
  <2> QED BY <1>2, <1>3, <2>1 DEF Directory
<1>6. NewEntry(s, FALSE) \in Entry
  BY <1>3 DEF NewEntry, Entry
<1>7. /\ mem' \in Seq(Entry) /\ Len(mem') = k /\ DOMAIN mem' = DOMAIN mem \cup {k}
      /\ \A i \in DOMAIN mem : mem'[i] = mem[i]
      /\ mem'[k].seed = s /\ ~mem'[k].passed_det /\ ~mem'[k].fs_redundant
  <2>1. mem \in Seq(Entry)
    BY <1>0 DEF TypeOK
  <2> DEFINE e == NewEntry(s, FALSE)
  <2> HIDE DEF e
  <2>2. mem' \in Seq(Entry) /\ Len(mem') = k /\ mem'[k] = e
        /\ \A i \in DOMAIN mem : mem'[i] = mem[i]
    <3>1. mem' = Append(mem, e) /\ e \in Entry
      BY <1>1, <1>6 DEF e
    <3> QED BY <1>3, <2>1, <3>1
  <2>3. DOMAIN mem' = DOMAIN mem \cup {k}
    BY <1>3, <2>2
  <2> QED BY <2>2, <2>3 DEF NewEntry, e
<1> HIDE DEF k, s
<1>8. TypeOK'
  <2>1. at' \in 0 .. Len(mem') /\ Len(mem') <= MaxSeeds /\ born' \in InitSeeds .. MaxSeeds
    BY <1>0, <1>1, <1>3, <1>7, SeedRange DEF TypeOK, k, s
  <2>2. saved' \subseteq 1 .. born'
    BY <1>0, <1>1, <1>3 DEF TypeOK, s
  <2> QED BY <1>0, <1>1, <1>5, <1>7, <2>1, <2>2 DEF TypeOK, Running
<1>9. /\ Files(DOMAIN mem)' = Files(DOMAIN mem) \cup {n} /\ Files({at})' = {n}
      /\ DetMarks(DOMAIN mem)' = DetMarks(DOMAIN mem)
      /\ RedMarks(DOMAIN mem)' = RedMarks(DOMAIN mem)
  <2>4. Files(DOMAIN mem)' = Files(DOMAIN mem) \cup {n} /\ Files({at})' = {n}
    BY <1>1, <1>7 DEF Files, Fname
  <2>5. {i \in DOMAIN mem' : mem'[i].passed_det} = {i \in DOMAIN mem : mem[i].passed_det}
    BY <1>7
  <2>6. {i \in DOMAIN mem' : mem'[i].fs_redundant} = {i \in DOMAIN mem : mem[i].fs_redundant}
    BY <1>7
  <2>7. DetMarks(DOMAIN mem)' = DetMarks(DOMAIN mem)
    BY <1>7, <2>5 DEF DetMarks, Files, Fname
  <2>8. RedMarks(DOMAIN mem)' = RedMarks(DOMAIN mem)
    BY <1>7, <2>6 DEF RedMarks, Files, Fname
  <2> QED BY <2>4, <2>7, <2>8
<1>10. Mirrors({}, {at})'
  <2>1. DOMAIN mem' \ {} = DOMAIN mem'
    OBVIOUS
  <2> QED BY <1>2, <1>5, <1>9, <2>1 DEF Mirrors
<1>11. ListInv'
  <2>1. \A i \in DOMAIN mem : /\ mem[i].seed \in Nat /\ mem[i].seed <= born
                             /\ born < s /\ mem[i].seed # s /\ mem[i].seed <= s
    BY <1>0, <1>3, ListFacts DEF s
  <2>2. \A i, j \in DOMAIN mem : mem[i].seed = mem[j].seed => i = j
    BY <1>0 DEF ListInv
  <2>3. \A i, j \in DOMAIN mem' : mem'[i].seed = mem'[j].seed => i = j
    BY <1>7, <2>1, <2>2
  <2>4. \A i \in DOMAIN mem' : mem'[i].seed <= born'
    <3>1. s <= born'
      BY <1>1, <1>3 DEF s
    <3> QED BY <1>1, <1>7, <2>1, <3>1 DEF s
  <2>5. \A m \in queue.names : m[1] <= Len(mem) /\ m[2] <= born /\ m \in Names
    BY <1>0, <1>2, <1>3, ListFacts DEF Files
  <2>6. Numbered(queue)
    BY <1>0 DEF ListInv
  <2>7. \A m, p \in queue'.names : m[1] = p[1] \/ m[2] = p[2] => m = p
    <3>1. \A m \in queue.names : m[1] # k /\ m[2] # s
      BY <1>3, <2>5, NameParts DEF k, s
    <3>2. n[1] = k /\ n[2] = s
      OBVIOUS
    <3>3. \A m, p \in queue.names : m[1] = p[1] \/ m[2] = p[2] => m = p
      BY <2>6 DEF Numbered
    <3> HIDE DEF n
    <3> QED BY <1>5, <3>1, <3>2, <3>3
  <2>8. \A m \in queue'.names : m[1] <= born' /\ m[2] <= born'
    <3>1. \A m \in queue.names : m[1] <= born /\ m[2] <= born /\ m[1] \in Nat /\ m[2] \in Nat
      BY <2>5, <2>6, NameParts DEF Numbered
    <3> QED BY <1>1, <1>3, <1>5, <3>1 DEF s
  <2>9. Numbered(resume)'
    BY <1>1, <1>2, EmptyDirs DEF Numbered
  <2>10. Len(mem') <= born'
    BY <1>1, <1>3, <1>7
  <2> QED BY <1>5, <2>3, <2>4, <2>7, <2>8, <2>9, <2>10 DEF ListInv, Numbered
<1>12. DiskInv'
  <2>1. at' = Len(mem') /\ at' \in DOMAIN mem' /\ ~mem'[at'].passed_det
    BY <1>1, <1>7
  <2> QED BY <1>1, <1>5, <1>10, <2>1 DEF DiskInv, Running
<1>13. ResumeInv'
  BY <1>1, <1>2, <1>5 DEF ResumeInv, Running
<1>14. DOMAIN mem' \ {at'} = DOMAIN mem
  BY <1>1, <1>3, <1>7
<1>15. SeedsIn(DOMAIN mem \ {at})' = SeedsIn(DOMAIN mem)
       /\ SeedsDet(DOMAIN mem \ {at})' = SeedsDet(DOMAIN mem)
  BY <1>7, <1>14 DEF SeedsIn, SeedsDet
<1>16. KeepInv'
  <2>1. KeptBy(DOMAIN mem \ {at})'
    BY <1>1, <1>2, <1>15 DEF KeptBy
  <2> QED BY <1>1, <1>5, <2>1 DEF KeepInv
<1>17. SavedInv'
  BY <1>1, <1>2, <1>5, <1>15 DEF SavedInv
<1> QED BY <1>8, <1>11, <1>12, <1>13, <1>16, <1>17 DEF DirInv

\* A step that leaves the entries at their places leaves the files numbered.
LEMMA StillNumbered ==
  ASSUME TypeOK, ListInv, born' = born, resume' = resume, queue'.there,
         Len(mem') = Len(mem), DOMAIN mem' = DOMAIN mem,
         \A j \in DOMAIN mem : mem'[j].seed = mem[j].seed,
         queue'.names \subseteq Files(DOMAIN mem)
  PROVE  ListInv'
<1>1. Numbered(queue)'
  BY FilesNumbered DEF Numbered
<1>2. Numbered(resume)'
  BY DEF ListInv, Numbered
<1> QED BY <1>1, <1>2 DEF ListInv

LEMMA SaveWriteStep == DirInv /\ SaveWrite => DirInv'
<1> SUFFICES ASSUME DirInv, SaveWrite PROVE DirInv'
  OBVIOUS
<1>0. TypeOK /\ ListInv /\ pc = "saving"
  BY DEF DirInv, SaveWrite
<1>1. /\ queue' = [queue EXCEPT !.empty = @ \ {Fname(at)}]
      /\ saved' = saved \cup {mem[at].seed} /\ pc' = "run" /\ at' = 0
      /\ UNCHANGED <<resume, mem, born, kills, detDone, atRisk, detAtRisk>>
  BY DEF SaveWrite
<1>2. /\ queue \in Directory /\ queue.there /\ resume = NoDir /\ at \in DOMAIN mem
      /\ Mirrors({}, {at})
  BY <1>0, RunFacts DEF Running
<1>3. /\ queue' \in Directory /\ queue'.names = queue.names /\ queue'.empty = {}
      /\ queue'.det = queue.det /\ queue'.red = queue.red /\ queue'.there
  <2>1. queue.empty = {Fname(at)}
    BY <1>2 DEF Mirrors, Files
  <2> QED BY <1>1, <1>2, <2>1 DEF Directory
<1>4. Mirrors({}, {})'
  <2>1. Files({})' = {}
    BY DEF Files
  <2> QED BY <1>1, <1>2, <1>3, <2>1, SameFiles DEF Mirrors
<1>5. TypeOK'
  <2>1. mem[at].seed \in 1 .. born
    BY <1>0, <1>2, ListFacts
  <2>2. at' \in 0 .. Len(mem')
    BY <1>0, <1>1, ListFacts
  <2> QED BY <1>0, <1>1, <1>3, <2>1, <2>2 DEF TypeOK, Running
<1>6. ListInv'
  <2>1. queue.names = Files(DOMAIN mem)
    <3>1. DOMAIN mem \ {} = DOMAIN mem
      OBVIOUS
    <3> QED BY <1>2, <3>1 DEF Mirrors
  <2> QED BY <1>0, <1>1, <1>3, <2>1, StillNumbered
<1>7. DiskInv'
  BY <1>1, <1>3, <1>4 DEF DiskInv, Running
<1>8. ResumeInv'
  BY <1>1, <1>2 DEF ResumeInv
<1>9. /\ SeedsIn(DOMAIN mem) = SeedsIn(DOMAIN mem \ {at}) \cup {mem[at].seed}
      /\ SeedsDet(DOMAIN mem \ {at}) \subseteq SeedsDet(DOMAIN mem)
  BY <1>2 DEF SeedsIn, SeedsDet
<1>10. KeptBy(DOMAIN mem \ {at}) /\ SeedsIn(DOMAIN mem \ {at}) \subseteq saved
  BY <1>0 DEF DirInv, KeepInv, SavedInv
<1>11. KeepInv'
  <2>1. /\ saved' \ atRisk \subseteq SeedsIn(DOMAIN mem)
        /\ detDone \ (atRisk \cup detAtRisk) \subseteq SeedsDet(DOMAIN mem)
    BY <1>1, <1>9, <1>10 DEF KeptBy
  <2>2. KeptBy(DOMAIN mem)'
    BY <1>1, <2>1, SameFiles DEF KeptBy
  <2> QED BY <1>1, <2>2 DEF KeepInv
<1>12. SavedInv'
  BY <1>1, <1>9, <1>10, SameFiles DEF SavedInv
<1> QED BY <1>5, <1>6, <1>7, <1>8, <1>11, <1>12 DEF DirInv

LEMMA TrimUnlinkStep ==
  ASSUME DirInv, NEW i \in DOMAIN mem, TrimUnlink(i)
  PROVE  DirInv'
<1>0. TypeOK /\ ListInv /\ pc = "run"
  BY DEF DirInv, TrimUnlink
<1>1. /\ queue' = [queue EXCEPT !.names = @ \ {Fname(i)}, !.empty = @ \ {Fname(i)}]
      /\ at' = i /\ pc' = "unlinked"
      /\ UNCHANGED <<resume, mem, born, kills, saved, detDone, atRisk, detAtRisk>>
  BY DEF TrimUnlink, history
<1>2. /\ queue \in Directory /\ queue.there /\ resume = NoDir /\ Mirrors({}, {})
      /\ KeptBy(DOMAIN mem) /\ SeedsIn(DOMAIN mem) \subseteq saved
  BY <1>0, RunFacts DEF Running
<1>3. queue.names = Files(DOMAIN mem) /\ queue.empty = {}
  <2>1. DOMAIN mem \ {} = DOMAIN mem /\ Files({}) = {}
    BY DEF Files
  <2> QED BY <1>2, <2>1 DEF Mirrors
<1>4. Files(DOMAIN mem) \ {Fname(i)} = Files(DOMAIN mem \ {i})
  <2>1. Fname(i) \notin Files(DOMAIN mem \ {i})
    BY <1>0, FilesNumbered
  <2> QED BY <2>1 DEF Files
<1>5. /\ queue' \in Directory /\ queue'.names = Files(DOMAIN mem \ {i}) /\ queue'.empty = {}
      /\ queue'.det = queue.det /\ queue'.red = queue.red /\ queue'.there
  BY <1>1, <1>2, <1>3, <1>4 DEF Directory
<1>6. Mirrors({at}, {})'
  <2>1. Files(DOMAIN mem \ {at})' = Files(DOMAIN mem \ {i}) /\ Files({})' = {}
    BY <1>1 DEF Files, Fname
  <2> QED BY <1>1, <1>2, <1>5, <2>1, SameFiles DEF Mirrors
<1>7. TypeOK'
  <2>1. at' \in 0 .. Len(mem')
    BY <1>0, <1>1, ListFacts
  <2> QED BY <1>0, <1>1, <1>5, <2>1 DEF TypeOK, Running
<1>8. ListInv'
  <2>1. queue'.names \subseteq Files(DOMAIN mem)
    BY <1>5 DEF Files
  <2> QED BY <1>0, <1>1, <1>5, <2>1, StillNumbered
<1>9. DiskInv'
  BY <1>1, <1>5, <1>6 DEF DiskInv, Running
<1>10. ResumeInv'
  BY <1>1, <1>2 DEF ResumeInv
<1>11. KeepInv'
  BY <1>1, <1>2, SameFiles DEF KeepInv, KeptBy
<1>12. SavedInv'
  BY <1>1, <1>2, SameFiles DEF SavedInv
<1> QED BY <1>7, <1>8, <1>9, <1>10, <1>11, <1>12 DEF DirInv

LEMMA TrimCreateStep == DirInv /\ TrimCreate => DirInv'
<1> SUFFICES ASSUME DirInv, TrimCreate PROVE DirInv'
  OBVIOUS
<1>0. TypeOK /\ ListInv /\ pc = "unlinked"
  BY DEF DirInv, TrimCreate
<1>1. /\ Create(Fname(at), "created")
      /\ UNCHANGED <<resume, mem, at, born, kills, saved, detDone, atRisk, detAtRisk>>
  BY DEF TrimCreate, history
<1>2. /\ queue \in Directory /\ queue.there /\ resume = NoDir /\ Mirrors({at}, {})
      /\ KeptBy(DOMAIN mem) /\ SeedsIn(DOMAIN mem) \subseteq saved /\ at \in DOMAIN mem
      /\ Fname(at) \in Names
  BY <1>0, RunFacts, ListFacts DEF Running
<1>3. queue.names = Files(DOMAIN mem \ {at}) /\ queue.empty = {}
  BY <1>2 DEF Mirrors, Files
<1>4. Fname(at) \notin queue.names
  BY <1>0, <1>2, <1>3, FilesNumbered
<1>5. /\ queue' \in Directory /\ queue'.names = Files(DOMAIN mem) /\ queue'.empty = Files({at})
      /\ queue'.det = queue.det /\ queue'.red = queue.red /\ queue'.there /\ pc' = "created"
  <2>1. /\ queue' = [queue EXCEPT !.names = @ \cup {Fname(at)}, !.empty = @ \cup {Fname(at)}]
        /\ pc' = "created"
    BY <1>1, <1>4 DEF Create
  <2>2. Files(DOMAIN mem \ {at}) \cup {Fname(at)} = Files(DOMAIN mem)
        /\ Files({at}) = {Fname(at)}
    BY <1>2 DEF Files
  <2> QED BY <1>2, <1>3, <2>1, <2>2 DEF Directory
<1>6. Mirrors({}, {at})'
  <2>1. DOMAIN mem \ {} = DOMAIN mem
    OBVIOUS
  <2>2. Files({at})' = Files({at})
    BY <1>1 DEF Files, Fname
  <2> QED BY <1>1, <1>2, <1>5, <2>1, <2>2, SameFiles DEF Mirrors
<1>7. TypeOK'
  BY <1>0, <1>1, <1>5 DEF TypeOK, Running
<1>8. ListInv'
  BY <1>0, <1>1, <1>5, StillNumbered
<1>9. DiskInv'
  BY <1>1, <1>2, <1>5, <1>6 DEF DiskInv, Running
<1>10. ResumeInv'
  BY <1>1, <1>2, <1>5 DEF ResumeInv
<1>11. KeepInv'
  BY <1>1, <1>2, <1>5, SameFiles DEF KeepInv, KeptBy
<1>12. SavedInv'
  BY <1>1, <1>2, <1>5, SameFiles DEF SavedInv
<1> QED BY <1>7, <1>8, <1>9, <1>10, <1>11, <1>12 DEF DirInv

LEMMA TrimWriteStep == DirInv /\ TrimWrite => DirInv'
<1> SUFFICES ASSUME DirInv, TrimWrite PROVE DirInv'
  OBVIOUS
<1>0. TypeOK /\ ListInv /\ pc = "created"
  BY DEF DirInv, TrimWrite
<1>1. /\ queue' = [queue EXCEPT !.empty = @ \ {Fname(at)}]
      /\ mem' = [mem EXCEPT ![at].trim_done = TRUE] /\ pc' = "run" /\ at' = 0
      /\ UNCHANGED <<resume, born, kills, saved, detDone, atRisk, detAtRisk>>
  BY DEF TrimWrite, history
<1>2. /\ queue \in Directory /\ queue.there /\ resume = NoDir /\ Mirrors({}, {at})
      /\ KeptBy(DOMAIN mem) /\ SeedsIn(DOMAIN mem) \subseteq saved /\ at \in DOMAIN mem
  BY <1>0, RunFacts DEF Running
<1>3. /\ mem' \in Seq(Entry) /\ Len(mem') = Len(mem) /\ DOMAIN mem' = DOMAIN mem
      /\ \A j \in DOMAIN mem : /\ mem'[j].seed = mem[j].seed
                               /\ mem'[j].passed_det = mem[j].passed_det
                               /\ mem'[j].fs_redundant = mem[j].fs_redundant
  <2>1. mem \in Seq(Entry) /\ mem[at] \in Entry
    BY <1>0, <1>2, ListFacts DEF TypeOK
  <2>2. [mem[at] EXCEPT !.trim_done = TRUE] \in Entry
    BY <2>1 DEF Entry
  <2>3. mem' = [mem EXCEPT ![at] = [mem[at] EXCEPT !.trim_done = TRUE]]
    BY <1>1
  <2>4. mem' \in Seq(Entry) /\ Len(mem') = Len(mem) /\ DOMAIN mem' = DOMAIN mem
    BY <1>2, <2>1, <2>2, <2>3
  <2>5. \A j \in DOMAIN mem : j # at => mem'[j] = mem[j]
    BY <2>1, <2>3
  <2>6. mem'[at] = [mem[at] EXCEPT !.trim_done = TRUE]
    BY <1>2, <2>1, <2>3
  <2>7. /\ mem'[at].seed = mem[at].seed /\ mem'[at].passed_det = mem[at].passed_det
        /\ mem'[at].fs_redundant = mem[at].fs_redundant
    BY <2>1, <2>6 DEF Entry
  <2> QED BY <2>4, <2>5, <2>7
<1>4. /\ queue' \in Directory /\ queue'.names = queue.names /\ queue'.empty = {}
      /\ queue'.det = queue.det /\ queue'.red = queue.red /\ queue'.there
      /\ queue.names = Files(DOMAIN mem)
  <2>1. queue.empty = {Fname(at)} /\ DOMAIN mem \ {} = DOMAIN mem
    BY <1>2 DEF Mirrors, Files
  <2> QED BY <1>1, <1>2, <2>1 DEF Directory, Mirrors
<1>5. /\ {j \in DOMAIN mem' : mem'[j].passed_det} = {j \in DOMAIN mem : mem[j].passed_det}
      /\ {j \in DOMAIN mem' : mem'[j].fs_redundant} = {j \in DOMAIN mem : mem[j].fs_redundant}
  BY <1>3
<1>6. /\ Files(DOMAIN mem)' = Files(DOMAIN mem)
      /\ DetMarks(DOMAIN mem)' = DetMarks(DOMAIN mem)
      /\ RedMarks(DOMAIN mem)' = RedMarks(DOMAIN mem)
      /\ SeedsIn(DOMAIN mem)' = SeedsIn(DOMAIN mem)
      /\ SeedsDet(DOMAIN mem)' = SeedsDet(DOMAIN mem)
  BY <1>3, <1>5 DEF Files, DetMarks, RedMarks, SeedsIn, SeedsDet, Fname
<1>7. Mirrors({}, {})'
  <2>1. DOMAIN mem' \ {} = DOMAIN mem' /\ DOMAIN mem \ {} = DOMAIN mem /\ Files({})' = {}
    BY DEF Files
  <2> QED BY <1>2, <1>4, <1>6, <2>1 DEF Mirrors
<1>8. TypeOK'
  <2>1. at' \in 0 .. Len(mem')
    BY <1>0, <1>1, <1>3, ListFacts
  <2> QED BY <1>0, <1>1, <1>3, <1>4, <2>1 DEF TypeOK, Running
<1>9. ListInv'
  BY <1>0, <1>1, <1>3, <1>4, StillNumbered
<1>10. DiskInv'
  BY <1>1, <1>4, <1>7 DEF DiskInv, Running
<1>11. ResumeInv'
  BY <1>1, <1>2 DEF ResumeInv
<1>12. KeepInv'
  BY <1>1, <1>2, <1>6 DEF KeepInv, KeptBy
<1>13. SavedInv'
  BY <1>1, <1>2, <1>6 DEF SavedInv
<1> QED BY <1>8, <1>9, <1>10, <1>11, <1>12, <1>13 DEF DirInv

LEMMA DetDoneStep ==
  ASSUME DirInv, NEW i \in DOMAIN mem, DetDone(i)
  PROVE  DirInv'
<1>0. TypeOK /\ ListInv /\ pc = "run"
  BY DEF DirInv, DetDone
<1>1. /\ queue \in Directory /\ queue.there /\ resume = NoDir /\ Mirrors({}, {})
      /\ KeptBy(DOMAIN mem) /\ SeedsIn(DOMAIN mem) \subseteq saved
      /\ Fname(i) \in Names /\ mem[i].seed \in SeedsIn(DOMAIN mem)
  BY <1>0, RunFacts, ListFacts DEF Running, SeedsIn
<1>2. ~mem[i].passed_det /\ Fname(i) \notin queue.det
  <2>1. ~mem[i].passed_det /\ i \notin {j \in DOMAIN mem : mem[j].passed_det}
    BY DEF DetDone
  <2>2. Fname(i) \notin Files({j \in DOMAIN mem : mem[j].passed_det})
    BY <1>0, <2>1, FilesNumbered
  <2> QED BY <1>1, <2>1, <2>2 DEF Mirrors, DetMarks
<1>3. /\ queue' = [queue EXCEPT !.det = @ \cup {Fname(i)}]
      /\ mem' = [mem EXCEPT ![i].passed_det = TRUE]
      /\ detDone' = detDone \cup {mem[i].seed} /\ pc' = "run"
      /\ UNCHANGED <<resume, at, born, kills, saved, atRisk, detAtRisk>>
  BY <1>0, <1>2 DEF DetDone
<1>4. /\ mem' \in Seq(Entry) /\ Len(mem') = Len(mem) /\ DOMAIN mem' = DOMAIN mem
      /\ mem'[i].passed_det
      /\ \A j \in DOMAIN mem : /\ mem'[j].seed = mem[j].seed
                               /\ j # i => mem'[j].passed_det = mem[j].passed_det
                               /\ mem'[j].fs_redundant = mem[j].fs_redundant
  <2>1. mem \in Seq(Entry) /\ mem[i] \in Entry
    BY <1>0, ListFacts DEF TypeOK
  <2>2. [mem[i] EXCEPT !.passed_det = TRUE] \in Entry
    BY <2>1 DEF Entry
  <2>3. mem' = [mem EXCEPT ![i] = [mem[i] EXCEPT !.passed_det = TRUE]]
    BY <1>3
  <2>4. mem' \in Seq(Entry) /\ Len(mem') = Len(mem) /\ DOMAIN mem' = DOMAIN mem
    BY <2>1, <2>2, <2>3
  <2>5. \A j \in DOMAIN mem : j # i => mem'[j] = mem[j]
    BY <2>1, <2>3
  <2>6. mem'[i] = [mem[i] EXCEPT !.passed_det = TRUE]
    BY <2>1, <2>3
  <2>7. /\ mem'[i].seed = mem[i].seed /\ mem'[i].passed_det
        /\ mem'[i].fs_redundant = mem[i].fs_redundant
    BY <2>1, <2>6 DEF Entry
  <2> QED BY <2>4, <2>5, <2>7
<1>5. /\ queue' \in Directory /\ queue'.names = queue.names /\ queue'.empty = {}
      /\ queue'.det = queue.det \cup {Fname(i)} /\ queue'.red = queue.red /\ queue'.there
      /\ queue.names = Files(DOMAIN mem)
  <2>1. queue.empty = {} /\ DOMAIN mem \ {} = DOMAIN mem
    BY <1>1 DEF Mirrors, Files
  <2> QED BY <1>1, <1>3, <2>1 DEF Directory, Mirrors
<1>6. /\ {j \in DOMAIN mem' : mem'[j].passed_det} = {j \in DOMAIN mem : mem[j].passed_det} \cup {i}
      /\ {j \in DOMAIN mem' : mem'[j].fs_redundant} = {j \in DOMAIN mem : mem[j].fs_redundant}
  BY <1>4
<1>7. /\ Files(DOMAIN mem)' = Files(DOMAIN mem)
      /\ DetMarks(DOMAIN mem)' = DetMarks(DOMAIN mem) \cup {Fname(i)}
      /\ RedMarks(DOMAIN mem)' = RedMarks(DOMAIN mem)
      /\ SeedsIn(DOMAIN mem)' = SeedsIn(DOMAIN mem)
      /\ SeedsDet(DOMAIN mem)' = SeedsDet(DOMAIN mem) \cup {mem[i].seed}
  BY <1>4, <1>6 DEF Files, DetMarks, RedMarks, SeedsIn, SeedsDet, Fname
<1>8. Mirrors({}, {})'
  <2>1. DOMAIN mem' \ {} = DOMAIN mem' /\ DOMAIN mem \ {} = DOMAIN mem /\ Files({})' = {}
    BY DEF Files
  <2> QED BY <1>1, <1>5, <1>7, <2>1 DEF Mirrors
<1>9. TypeOK'
  BY <1>0, <1>1, <1>3, <1>4, <1>5 DEF TypeOK
<1>10. ListInv'
  BY <1>0, <1>3, <1>4, <1>5, StillNumbered
<1>11. DiskInv'
  BY <1>3, <1>5, <1>8 DEF DiskInv, Running
<1>12. ResumeInv'
  BY <1>1, <1>3 DEF ResumeInv
<1>13. KeepInv'
  BY <1>1, <1>3, <1>7 DEF KeepInv, KeptBy
<1>14. SavedInv'
  BY <1>1, <1>3, <1>7 DEF SavedInv
<1> QED BY <1>9, <1>10, <1>11, <1>12, <1>13, <1>14 DEF DirInv

LEMMA MarkAsRedundantStep ==
  ASSUME DirInv, NEW i \in DOMAIN mem, NEW state \in BOOLEAN, MarkAsRedundant(i, state)
  PROVE  DirInv'
<1>0. TypeOK /\ ListInv /\ pc = "run"
  BY DEF DirInv, MarkAsRedundant
<1>1. /\ queue \in Directory /\ queue.there /\ resume = NoDir /\ Mirrors({}, {})
      /\ KeptBy(DOMAIN mem) /\ SeedsIn(DOMAIN mem) \subseteq saved
      /\ Fname(i) \in Names /\ mem[i].fs_redundant \in BOOLEAN
  BY <1>0, RunFacts, ListFacts DEF Running
<1>2. Fname(i) \in queue.red <=> mem[i].fs_redundant
  <2>1. i \in {j \in DOMAIN mem : mem[j].fs_redundant} <=> mem[i].fs_redundant
    OBVIOUS
  <2>2. Fname(i) \in Files({j \in DOMAIN mem : mem[j].fs_redundant})
          <=> i \in {j \in DOMAIN mem : mem[j].fs_redundant}
    BY <1>0, FilesNumbered
  <2> QED BY <1>1, <2>1, <2>2 DEF Mirrors, RedMarks
<1>3. /\ queue' = [queue EXCEPT !.red = IF state THEN @ \cup {Fname(i)} ELSE @ \ {Fname(i)}]
      /\ mem' = [mem EXCEPT ![i].fs_redundant = state] /\ pc' = "run"
      /\ UNCHANGED <<resume, at, born, kills, saved, detDone, atRisk, detAtRisk>>
  <2>1. state # mem[i].fs_redundant
    BY DEF MarkAsRedundant
  <2>2. ~(state = (Fname(i) \in queue.red))
    BY <1>1, <1>2, <2>1, Zenon
  <2> QED BY <1>0, <2>2 DEF MarkAsRedundant, history
<1>4. /\ mem' \in Seq(Entry) /\ Len(mem') = Len(mem) /\ DOMAIN mem' = DOMAIN mem
      /\ mem'[i].fs_redundant = state
      /\ \A j \in DOMAIN mem : /\ mem'[j].seed = mem[j].seed
                               /\ mem'[j].passed_det = mem[j].passed_det
                               /\ j # i => mem'[j].fs_redundant = mem[j].fs_redundant
  <2>1. mem \in Seq(Entry) /\ mem[i] \in Entry
    BY <1>0, ListFacts DEF TypeOK
  <2>2. [mem[i] EXCEPT !.fs_redundant = state] \in Entry
    BY <2>1 DEF Entry
  <2>3. mem' = [mem EXCEPT ![i] = [mem[i] EXCEPT !.fs_redundant = state]]
    BY <1>3
  <2>4. mem' \in Seq(Entry) /\ Len(mem') = Len(mem) /\ DOMAIN mem' = DOMAIN mem
    BY <2>1, <2>2, <2>3
  <2>5. \A j \in DOMAIN mem : j # i => mem'[j] = mem[j]
    BY <2>1, <2>3
  <2>6. mem'[i] = [mem[i] EXCEPT !.fs_redundant = state]
    BY <2>1, <2>3
  <2>7. /\ mem'[i].seed = mem[i].seed /\ mem'[i].passed_det = mem[i].passed_det
        /\ mem'[i].fs_redundant = state
    BY <2>1, <2>6 DEF Entry
  <2> QED BY <2>4, <2>5, <2>7
<1>5. /\ queue' \in Directory /\ queue'.names = queue.names /\ queue'.empty = {}
      /\ queue'.red = (IF state THEN queue.red \cup {Fname(i)} ELSE queue.red \ {Fname(i)})
      /\ queue'.det = queue.det /\ queue'.there
      /\ queue.names = Files(DOMAIN mem)
  <2>1. queue.empty = {} /\ DOMAIN mem \ {} = DOMAIN mem
    BY <1>1 DEF Mirrors, Files
  <2> QED BY <1>1, <1>3, <2>1 DEF Directory, Mirrors
<1>6. /\ {j \in DOMAIN mem' : mem'[j].passed_det} = {j \in DOMAIN mem : mem[j].passed_det}
      /\ {j \in DOMAIN mem' : mem'[j].fs_redundant} =
           IF state THEN {j \in DOMAIN mem : mem[j].fs_redundant} \cup {i}
           ELSE {j \in DOMAIN mem : mem[j].fs_redundant} \ {i}
  BY <1>4
<1>7. /\ Files(DOMAIN mem)' = Files(DOMAIN mem)
      /\ DetMarks(DOMAIN mem)' = DetMarks(DOMAIN mem)
      /\ SeedsIn(DOMAIN mem)' = SeedsIn(DOMAIN mem)
      /\ SeedsDet(DOMAIN mem)' = SeedsDet(DOMAIN mem)
  BY <1>4, <1>6 DEF Files, DetMarks, SeedsIn, SeedsDet, Fname
<1>8. RedMarks(DOMAIN mem)' = IF state THEN RedMarks(DOMAIN mem) \cup {Fname(i)}
                              ELSE RedMarks(DOMAIN mem) \ {Fname(i)}
  <2>1. RedMarks(DOMAIN mem)' = {Fname(j) : j \in {l \in DOMAIN mem' : mem'[l].fs_redundant}}
    BY <1>4 DEF RedMarks, Files, Fname
  <2>2. CASE state
    BY <1>6, <2>1, <2>2 DEF RedMarks, Files
  <2>3. CASE ~state
    <3>1. Fname(i) \notin Files({j \in DOMAIN mem : mem[j].fs_redundant} \ {i})
      BY <1>0, FilesNumbered
    <3> QED BY <1>6, <2>1, <2>3, <3>1 DEF RedMarks, Files
  <2> QED BY <2>2, <2>3
<1>9. Mirrors({}, {})'
  <2>1. DOMAIN mem' \ {} = DOMAIN mem' /\ DOMAIN mem \ {} = DOMAIN mem /\ Files({})' = {}
    BY DEF Files
  <2> QED BY <1>1, <1>5, <1>7, <1>8, <2>1 DEF Mirrors
<1>10. TypeOK'
  BY <1>0, <1>3, <1>4, <1>5 DEF TypeOK
<1>11. ListInv'
  BY <1>0, <1>3, <1>4, <1>5, StillNumbered
<1>12. DiskInv'
  BY <1>3, <1>5, <1>9 DEF DiskInv, Running
<1>13. ResumeInv'
  BY <1>1, <1>3 DEF ResumeInv
<1>14. KeepInv'
  BY <1>1, <1>3, <1>7 DEF KeepInv, KeptBy
<1>15. SavedInv'
  BY <1>1, <1>3, <1>7 DEF SavedInv
<1> QED BY <1>10, <1>11, <1>12, <1>13, <1>14, <1>15 DEF DirInv

-----------------------------------------------------------------------------
(* A kill, and what the next resume finds.                                 *)

\* The new queue/ keeps what its complete files and the markers of T keep.
LEMMA QueueKeeps ==
  ASSUME TypeOK, ListInv, UNCHANGED <<queue, saved, detDone>>,
         NEW T, T \subseteq DOMAIN mem, NEW S, S \subseteq T,
         Complete(queue) = Files(S), queue.det = DetMarks(T),
         saved \ atRisk' \subseteq SeedsIn(S),
         detDone \ (atRisk' \cup detAtRisk') \subseteq SeedsDet(S),
         \A i \in T \ S : mem[i].passed_det => mem[i].seed \in atRisk'
  PROVE  Keeps(queue)'
<1>1. SeedsOf(Complete(queue)) = SeedsIn(S)
  BY SeedsOfFiles
<1>2. SeedsDet(S) \subseteq SeedsOf(queue.det \cap queue.names)
  <2> SUFFICES ASSUME NEW i \in S, mem[i].passed_det
               PROVE  \E n \in queue.det \cap queue.names : mem[i].seed = n[2]
    BY DEF SeedsDet, SeedsIn, SeedsOf
  <2>1. Fname(i) \in queue.det /\ Fname(i) \in Complete(queue)
    BY DEF DetMarks, Files
  <2>2. Fname(i)[2] = mem[i].seed
    BY DEF Fname
  <2> QED BY <2>1, <2>2 DEF Complete
<1>3. \A n \in queue.det \ Complete(queue) : n[2] \in atRisk'
  <2> SUFFICES ASSUME NEW n \in queue.det \ Complete(queue) PROVE n[2] \in atRisk'
    OBVIOUS
  <2>1. PICK i \in T : mem[i].passed_det /\ n = Fname(i)
    BY DEF DetMarks, Files
  <2>2. i \notin S
    BY <2>1 DEF Files
  <2>3. n[2] = mem[i].seed
    BY <2>1 DEF Fname
  <2> QED BY <2>1, <2>2, <2>3
<1> QED BY <1>1, <1>2, <1>3 DEF Keeps, Stale, Complete

LEMMA KillStep == DirInv /\ Kill => DirInv'
<1> SUFFICES ASSUME DirInv, Kill PROVE DirInv'
  OBVIOUS
<1> DEFINE D == DOMAIN mem
<1>0. TypeOK /\ ListInv
  BY DEF DirInv
<1>1. /\ pc \in Running \cup {"clean", "pivot", "nuke"} /\ kills < MaxKills
      /\ kills' = kills + 1 /\ pc' = "down" /\ mem' = <<>> /\ at' = 0
      /\ UNCHANGED <<queue, resume, born, saved, detDone>>
  BY <1>0 DEF Kill, TypeOK
<1>2. /\ pc \notin {"unlinked", "created", "nuke"} => atRisk' = atRisk /\ detAtRisk' = detAtRisk
      /\ pc \in {"unlinked", "created"} =>
           atRisk' = atRisk \cup {mem[at].seed} /\ detAtRisk' = detAtRisk
      /\ pc = "nuke" /\ resume.names = {} => atRisk' = atRisk /\ detAtRisk' = detAtRisk
      /\ pc = "nuke" /\ resume.names # {} =>
           /\ atRisk' = atRisk \cup (SeedsOf(queue.names) \ SeedsOf(Complete(resume)))
           /\ detAtRisk' = detAtRisk \cup (SeedsOf(queue.det) \ SeedsOf(resume.det))
  BY DEF Kill, Complete
<1>3. /\ atRisk \subseteq Seeds /\ detAtRisk \subseteq Seeds
      /\ SeedsOf(queue.names) \subseteq Seeds /\ SeedsOf(queue.det) \subseteq Seeds
  BY <1>0, NameParts DEF TypeOK, SeedsOf, Directory
<1>4. pc \in {"unlinked", "created"} => mem[at].seed \in Seeds /\ at \in D
  BY <1>0, RunFacts, ListFacts DEF Running, Entry
<1>5. TypeOK'
  <2>1. atRisk' \subseteq Seeds /\ detAtRisk' \subseteq Seeds
    BY <1>1, <1>2, <1>3, <1>4
  <2>2. kills' \in 0 .. MaxKills
    BY <1>0, <1>1, KillsAssumption DEF TypeOK
  <2>3. mem' \in Seq(Entry) /\ Len(mem') <= MaxSeeds /\ at' \in 0 .. Len(mem')
    BY <1>1, SeedRange
  <2> QED BY <1>0, <1>1, <2>1, <2>2, <2>3 DEF TypeOK
<1>6. ListInv'
  <2>1. DOMAIN mem' = {} /\ Len(mem') = 0 /\ born \in Nat
    BY <1>0, <1>1, ListFacts
  <2>2. Numbered(queue)' /\ Numbered(resume)'
    BY <1>0, <1>1 DEF ListInv, Numbered
  <2> QED BY <1>1, <2>1, <2>2 DEF ListInv
<1>7. DiskInv' /\ SavedInv'
  BY <1>1 DEF DiskInv, SavedInv, Running
<1>8. ResumeInv'
  <2>1. kills' > 0
    BY <1>0, <1>1 DEF TypeOK
  <2> QED BY <1>1, <2>1 DEF ResumeInv, Running
<1>9. Source' = Source
  BY <1>1 DEF Source, Moves
<1>10. Keeps(Source)'
  <2>1. CASE pc = "clean"
    <3>1. Source = resume /\ Keeps(resume)
      BY <2>1 DEF DirInv, ResumeInv, KeepInv, Source
    <3> QED BY <1>1, <1>2, <1>9, <2>1, <3>1 DEF Keeps, Stale
  <2>2. CASE pc = "pivot" /\ kills > 0
    <3>1. Keeps(resume) /\ SeedsOf(Complete(resume)) = SeedsIn(D) /\ D # {}
      BY <2>2 DEF DirInv, ResumeInv, KeepInv
    <3>2. resume.names # {}
      BY <3>1 DEF SeedsIn, SeedsOf, Complete
    <3>3. Source = resume
      BY <3>2 DEF Source, Moves
    <3> QED BY <1>1, <1>2, <1>9, <2>2, <3>1, <3>3 DEF Keeps, Stale
  <2>3. CASE pc = "nuke" /\ resume.names # {}
    <3>1. /\ KeptBy(D) /\ Stale(resume) /\ queue.names = Files(D) /\ queue.det = DetMarks(D)
      <4>1. D \ {} = D
        OBVIOUS
      <4> QED BY <2>3, <4>1 DEF DirInv, DiskInv, KeepInv, Mirrors
    <3>2. Source = resume
      BY <2>3 DEF Source, Moves
    <3>3. SeedsOf(queue.names) = SeedsIn(D) /\ SeedsOf(queue.det) = SeedsDet(D)
      BY <1>0, <3>1, SeedsOfFiles DEF DetMarks, SeedsDet
    <3>4. saved \ atRisk' \subseteq SeedsOf(Complete(resume))
      BY <1>2, <2>3, <3>1, <3>3 DEF KeptBy
    <3>5. ASSUME NEW s \in detDone \ (atRisk' \cup detAtRisk')
          PROVE  s \in SeedsOf(resume.det \cap resume.names)
      <4>1. s \in SeedsOf(resume.det) /\ s \notin atRisk
        BY <1>2, <2>3, <3>1, <3>3 DEF KeptBy
      <4>2. PICK n \in resume.det : n[2] = s
        BY <4>1 DEF SeedsOf
      <4>3. n \in resume.names
        BY <3>1, <4>1, <4>2 DEF Stale, Complete
      <4> QED BY <4>2, <4>3 DEF SeedsOf
    <3>6. \A n \in resume.det \ Complete(resume) : n[2] \in atRisk'
      BY <1>2, <2>3, <3>1 DEF Stale
    <3> QED BY <1>1, <1>9, <3>2, <3>4, <3>5, <3>6 DEF Keeps, Stale, Complete
  <2>4. CASE pc = "nuke" /\ resume.names = {}
    <3>1. /\ KeptBy(D) /\ Mirrors({}, {}) /\ queue.there /\ ~resume.state
      BY <2>4 DEF DirInv, DiskInv, KeepInv, ResumeInv
    <3>2. Complete(queue) = Files(D) /\ queue.det = DetMarks(D)
      <4>1. D \ {} = D /\ Files({}) = {}
        BY DEF Files
      <4> QED BY <3>1, <4>1 DEF Mirrors, Complete
    <3>3. Keeps(queue)'
      BY <1>0, <1>1, <1>2, <2>4, <3>1, <3>2, QueueKeeps DEF KeptBy
    <3>4. Source = queue
      BY <2>4, <3>1 DEF Source, Moves
    <3> QED BY <1>1, <1>9, <3>3, <3>4 DEF Keeps, Stale
  <2>5. CASE pc = "pivot" /\ kills = 0
    <3>1. KeptBy(1 .. at) /\ resume = NoDir
      BY <2>5 DEF DirInv, KeepInv, ResumeInv
    <3>2. /\ Complete(queue) = Files(1 .. at) /\ queue.det = DetMarks(1 .. at)
          /\ 1 .. at \subseteq D /\ queue.there
      BY <2>5, PivotFacts DEF Complete
    <3>3. Keeps(queue)'
      BY <1>0, <1>1, <1>2, <2>5, <3>1, <3>2, QueueKeeps DEF KeptBy
    <3>4. Source = queue
      BY <3>1, <3>2, EmptyDirs DEF Source, Moves
    <3> QED BY <1>1, <1>9, <3>3, <3>4 DEF Keeps, Stale
  <2>6. CASE pc \in Running
    <3>1. resume = NoDir /\ queue.there
      BY <2>6, RunFacts
    <3>2. Source = queue
      BY <3>1, EmptyDirs DEF Source, Moves
    <3>3. CASE pc = "run"
      <4>1. D \ {} = D /\ Files({}) = {}
        BY DEF Files
      <4>2. Complete(queue) = Files(D) /\ queue.det = DetMarks(D) /\ KeptBy(D)
        BY <2>6, <3>3, <4>1, RunFacts DEF Mirrors, Complete
      <4>3. Keeps(queue)'
        BY <1>0, <1>1, <1>2, <3>3, <4>2, QueueKeeps DEF KeptBy
      <4> QED BY <1>1, <1>9, <3>2, <4>3 DEF Keeps, Stale
    <3>4. CASE pc \in {"saving", "unlinked", "created"}
      <4>1. /\ at \in D /\ queue.det = DetMarks(D)
            /\ Complete(queue) = Files(D \ {at})
        <5>1. at \in D /\ queue.det = DetMarks(D)
          BY <2>6, <3>4, RunFacts DEF Mirrors
        <5>2. Fname(at) \notin Files(D \ {at})
          BY <1>0, <5>1, FilesNumbered
        <5>3. Files(D) \ {Fname(at)} = Files(D \ {at}) /\ Files({at}) = {Fname(at)}
              /\ Files({}) = {} /\ D \ {} = D
          BY <5>2 DEF Files
        <5>4. \/ queue.names = Files(D \ {}) /\ queue.empty = Files({at})
              \/ queue.names = Files(D \ {at}) /\ queue.empty = Files({})
          BY <2>6, <3>4, RunFacts DEF Mirrors
        <5> QED BY <5>1, <5>3, <5>4 DEF Complete
      <4>2. /\ saved \ atRisk' \subseteq SeedsIn(D \ {at})
            /\ detDone \ (atRisk' \cup detAtRisk') \subseteq SeedsDet(D \ {at})
            /\ mem[at].passed_det => mem[at].seed \in atRisk'
        <5>1. CASE pc = "saving"
          <6>1. KeptBy(D \ {at}) /\ ~mem[at].passed_det
            BY <5>1 DEF DirInv, KeepInv, DiskInv
          <6> QED BY <1>2, <5>1, <6>1 DEF KeptBy
        <5>2. CASE pc \in {"unlinked", "created"}
          <6>1. KeptBy(D) /\ atRisk' = atRisk \cup {mem[at].seed} /\ detAtRisk' = detAtRisk
            BY <1>2, <2>6, <5>2, RunFacts
          <6>2. /\ SeedsIn(D) \ {mem[at].seed} \subseteq SeedsIn(D \ {at})
                /\ SeedsDet(D) \ {mem[at].seed} \subseteq SeedsDet(D \ {at})
            BY DEF SeedsIn, SeedsDet
          <6> QED BY <6>1, <6>2 DEF KeptBy
        <5> QED BY <3>4, <5>1, <5>2
      <4>3. Keeps(queue)'
        <5>1. D \ {at} \subseteq D /\ \A i \in D \ (D \ {at}) : i = at
          OBVIOUS
        <5> QED BY <1>0, <1>1, <4>1, <4>2, <5>1, QueueKeeps
      <4> QED BY <1>1, <1>9, <3>2, <4>3 DEF Keeps, Stale
    <3> QED BY <2>6, <3>3, <3>4 DEF Running
  <2> QED BY <1>0, <1>1, <2>1, <2>2, <2>3, <2>4, <2>5, <2>6 DEF TypeOK
<1>11. KeepInv'
  BY <1>1, <1>10 DEF KeepInv
<1> QED BY <1>5, <1>6, <1>7, <1>8, <1>11 DEF DirInv

-----------------------------------------------------------------------------

LEMMA DirStutter == DirInv /\ UNCHANGED vars => DirInv'
<1> SUFFICES ASSUME DirInv, UNCHANGED vars PROVE DirInv'
  OBVIOUS
<1>1. UNCHANGED <<queue, resume, pc, mem, at, born, kills, saved, detDone, atRisk, detAtRisk>>
  BY DEF vars, history
<1>2. TypeOK'
  BY <1>1 DEF DirInv, TypeOK
<1>3. ListInv'
  BY <1>1 DEF DirInv, ListInv, Numbered
<1>4. \A S, T : Mirrors(S, T)' <=> Mirrors(S, T)
  BY <1>1, SameFiles DEF Mirrors
<1>5. DiskInv'
  <2>1. Files(1 .. at)' = Files(1 .. at) /\ DetMarks(1 .. at)' = DetMarks(1 .. at)
    BY <1>1, SameFiles
  <2> QED BY <1>1, <1>4, <2>1 DEF DirInv, DiskInv
<1>6. ResumeInv'
  BY <1>1, SameFiles DEF DirInv, ResumeInv, Moves, Complete
<1>7. KeepInv'
  BY <1>1, SameFiles DEF DirInv, KeepInv, Keeps, Stale, KeptBy, Complete, Source, Moves
<1>8. SavedInv'
  BY <1>1, SameFiles DEF DirInv, SavedInv
<1> QED BY <1>2, <1>3, <1>5, <1>6, <1>7, <1>8 DEF DirInv

LEMMA DirStep == DirInv /\ [Next]_vars => DirInv'
<1> SUFFICES ASSUME DirInv, [Next]_vars PROVE DirInv'
  OBVIOUS
<1>1. CASE Startup
  BY <1>1, StartStep, CleanQueueStep, ReadStep, PivotStep, PivotDoneStep, NukeResumeStep
  DEF Startup
<1>2. CASE SaveCreate \/ SaveWrite \/ TrimCreate \/ TrimWrite
  BY <1>2, SaveCreateStep, SaveWriteStep, TrimCreateStep, TrimWriteStep
<1>3. ASSUME NEW i \in {j \in DOMAIN mem : mem[j].seed \in Touched}, TrimUnlink(i) \/ DetDone(i)
      PROVE  DirInv'
  BY <1>3, TrimUnlinkStep, DetDoneStep
<1>4. ASSUME NEW i \in {j \in DOMAIN mem : mem[j].seed \in Touched}, NEW state \in BOOLEAN,
             MarkAsRedundant(i, state)
      PROVE  DirInv'
  BY <1>4, MarkAsRedundantStep
<1>5. CASE Kill
  BY <1>5, KillStep
<1>6. CASE UNCHANGED vars
  BY <1>6, DirStutter
<1> QED BY <1>1, <1>2, <1>3, <1>4, <1>5, <1>6 DEF Next

LEMMA DirHolds == Spec => []DirInv
BY DirInit, DirStep, PTL DEF Spec

-----------------------------------------------------------------------------
(* The results.                                                            *)

\* Every step of start-up, fuzzing and kill leaves directories, list and history
\* well-typed.
THEOREM TypeCorrect == Spec => []TypeOK
<1>1. DirInv => TypeOK
  BY DEF DirInv
<1> QED BY <1>1, DirHolds, PTL

\* Whatever was saved is in the directory that the next in-place resume reads, for
\* any number of kills at any of the steps of the start-up and the fuzzing, but for
\* the two moments at which the code gives test cases up (trim_case, nuke_resume_dir).
THEOREM NothingIsLost == Spec => []NothingLost
<1>1. DirInv => NothingLost
  BY DEF DirInv, KeepInv, Keeps, NothingLost, Complete
<1> QED BY <1>1, DirHolds, PTL

\* So are the markers of mark_as_det_done.
THEOREM DetIsRemembered == Spec => []DetRemembered
<1>1. DirInv => DetRemembered
  BY DEF DirInv, KeepInv, Keeps, DetRemembered
<1> QED BY <1>1, DirHolds, PTL

\* No O_EXCL of pivot_inputs, save_if_interesting, trim_case, mark_as_det_done or
\* mark_as_redundant ever finds its file there: between the writes of the fuzzer the
\* files and markers are exactly those of the entries in memory.
THEOREM DiskMirrors == Spec => []DiskMirrorsMemory
<1>1. ASSUME DirInv PROVE DiskMirrorsMemory
  <2>1. pc # "fatal" /\ (pc = "run" => Mirrors({}, {}))
    BY <1>1 DEF DirInv, DiskInv
  <2>2. DOMAIN mem \ {} = DOMAIN mem
    OBVIOUS
  <2> QED BY <2>1, <2>2 DEF DiskMirrorsMemory, Mirrors, DetMarks, RedMarks, Files
<1> QED BY <1>1, DirHolds, PTL
=============================================================================
