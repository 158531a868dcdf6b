---------------------------- MODULE SyncFuzzers -----------------------------
(***************************************************************************)
(* A second fuzzer that imports the test cases of the one in OutDir:       *)
(* sync_fuzzers lists the peer's queue/, runs every case whose id is not   *)
(* below the number kept in .synced/<peer>, and writes that number back    *)
(* when the listing is through.  Nothing locks the peer's directory: it    *)
(* adds and rewrites files, and is killed and resumed, between any two     *)
(* steps of the listing, and so may the importing fuzzer be.               *)
(***************************************************************************)
EXTENDS OutDir

CONSTANT MaxSyncKills     \* bound: how often the importing fuzzer is killed

ASSUME SyncKillsAssumption == MaxSyncKills \in Nat

VARIABLES
  scan,        \* the listing that is under way
  synced,      \* the number in .synced/<peer>: the first id to look at next time
  sync_kills,
  \* history: seeds that were run and, if interesting, saved; ids that a listing
  \* passed over for one of the reasons below; the first seed to bear each id
  tried, passed, owner

syncHistory == <<tried, passed>>
syncVars == <<scan, synced, sync_kills, syncHistory, owner>>

Ids == Seeds

\* The names that readdir has yet to return and has returned, min_accept and
\* next_min_accept, and whether the directory opened is still the one at the path.
Scan == [on : BOOLEAN, attached : BOOLEAN, todo : SUBSET Names, shown : SUBSET Names,
         min_accept : Nat, next_min_accept : Nat]
NoScan == [on |-> FALSE, attached |-> FALSE, todo |-> {}, shown |-> {},
           min_accept |-> 0, next_min_accept |-> 0]

SyncTypeOK ==
  /\ TypeOK
  /\ scan \in Scan
  /\ synced \in 1 .. MaxSeeds + 1
  /\ sync_kills \in 0 .. MaxSyncKills
  /\ tried \subseteq 1 .. born /\ passed \subseteq Ids
  /\ owner \in [Ids -> Seeds \cup {0}]

SyncInit ==
  /\ Init
  /\ scan = NoScan
  /\ synced = 1
  /\ sync_kills = 0
  /\ tried = {} /\ passed = {}
  /\ owner = [i \in Ids |-> 0]

OpenScan ==
  /\ ~scan.on /\ queue.there
  /\ scan' = [on |-> TRUE, attached |-> TRUE, todo |-> queue.names, shown |-> {},
              min_accept |-> synced, next_min_accept |-> synced]
  /\ UNCHANGED <<vars, synced, sync_kills, syncHistory, owner>>

\* Mutant: the id is compared with the mark being raised; readdir does not sort.
Return_Sorted(n) ==
  /\ n \in scan.todo
  /\ LET new == n[1] >= scan.next_min_accept
         readable == n \in queue.names \ queue.empty IN
       /\ scan' = [scan EXCEPT
            !.todo = @ \ {n}, !.shown = @ \cup {n},
            !.next_min_accept = IF new /\ n[1] >= @ THEN n[1] + 1 ELSE @]
       /\ tried' = IF new /\ readable THEN tried \cup {n[2]} ELSE tried
       /\ passed' = IF new /\ ~readable THEN passed \cup {n[1]} ELSE passed
  /\ UNCHANGED <<vars, synced, sync_kills, owner>>

\* One round of the loop.  The mark is raised before the file is opened, which may
\* fail ("Allow this to fail in case the other fuzzer is resuming or so"), and
\* nothing is run if the file is still empty.
Return(n) ==
  /\ n \in scan.todo
  /\ LET new == n[1] >= scan.min_accept
         readable == n \in queue.names \ queue.empty IN
       /\ scan' = [scan EXCEPT
            !.todo = @ \ {n}, !.shown = @ \cup {n},
            !.next_min_accept = IF new /\ n[1] >= @ THEN n[1] + 1 ELSE @]
       /\ tried' = IF new /\ readable THEN tried \cup {n[2]} ELSE tried
       /\ passed' = IF new /\ ~readable THEN passed \cup {n[1]} ELSE passed
  /\ UNCHANGED <<vars, synced, sync_kills, owner>>

\* readdir may, but need not, return a file created since opendir.
ShowNew(n) ==
  /\ scan.on /\ scan.attached
  /\ n \in queue.names \ (scan.todo \cup scan.shown)
  /\ scan' = [scan EXCEPT !.todo = @ \cup {n}]
  /\ UNCHANGED <<vars, synced, sync_kills, syncHistory, owner>>

\* Mutant: the mark goes one further than the last case.
EndScan_OneMore ==
  /\ scan.on /\ scan.todo = {}
  /\ synced' = scan.next_min_accept + 1
  /\ scan' = NoScan
  /\ UNCHANGED <<vars, sync_kills, syncHistory, owner>>

\* The end of the listing.  Ids below the new mark that it never returned are
\* passed over for good.
EndScan ==
  /\ scan.on /\ scan.todo = {}
  /\ synced' = scan.next_min_accept
  /\ passed' = passed \cup
       {i \in scan.min_accept .. scan.next_min_accept - 1 : \A n \in scan.shown : n[1] # i}
  /\ scan' = NoScan
  /\ UNCHANGED <<vars, sync_kills, tried, owner>>

\* The importing fuzzer is killed, or returns early on stop_soon; .synced/ and its
\* own queue/ survive, also when it resumes in place.
SyncKill ==
  /\ scan.on /\ sync_kills < MaxSyncKills
  /\ sync_kills' = sync_kills + 1
  /\ scan' = NoScan
  /\ UNCHANGED <<vars, synced, syncHistory, owner>>

\* What a step of the peer does to the listing: a name that goes away may no longer
\* be returned (or is, from what readdir has buffered), and a directory that is
\* moved or removed is listed on under its handle, but shows nothing new.
Watched ==
  /\ LET gone == IF ~scan.attached THEN resume.names \ resume'.names
                 ELSE IF queue'.there THEN queue.names \ queue'.names
                 ELSE {}
     IN \E lost \in SUBSET (scan.todo \cap gone) :
          scan' = [scan EXCEPT !.todo = @ \ lost, !.attached = @ /\ queue'.there]
  /\ owner' = [i \in Ids |->
       IF owner[i] = 0 /\ \E s \in Seeds : <<i, s>> \in queue'.names
         THEN CHOOSE s \in Seeds : <<i, s>> \in queue'.names
         ELSE owner[i]]
  /\ UNCHANGED <<synced, sync_kills, syncHistory>>

Sync == OpenScan \/ (\E n \in Names : Return(n) \/ ShowNew(n)) \/ EndScan \/ SyncKill

SyncNext == (Next /\ Watched) \/ Sync

SyncSpec == SyncInit /\ [][SyncNext]_<<vars, syncVars>>

-----------------------------------------------------------------------------
(* Property.                                                               *)

\* Every complete test case in the peer's queue/ whose id is below the mark was run
\* by this fuzzer, whatever the order of the listing and whoever was killed and
\* resumed meanwhile.  The exceptions are in the code: ids that a listing passed
\* over (see Return and EndScan), and ids that the peer's resumes gave to another
\* case than the one that bore it first.
SyncedMeansTried ==
  \A n \in queue.names \ queue.empty :
    n[1] < synced /\ owner[n[1]] = n[2] /\ n[1] \notin passed => n[2] \in tried
=============================================================================
