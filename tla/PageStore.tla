------------------------------ MODULE PageStore ------------------------------
(***************************************************************************)
(* What a buffer pool owes its callers: one content for every page, which  *)
(* nothing changes but a write of a caller that holds the page, and a copy *)
(* of it on disk, to which every page goes as it is now and never as it    *)
(* once was.  A clean close leaves the two equal; a crash leaves the copy. *)
(***************************************************************************)
CONSTANTS PageIds, Contents, Zero

VARIABLES
  users,    \* the pages that callers hold
  store,    \* what a caller reads
  saved     \* what the file holds

svars == <<users, store, saved>>

SInit == /\ users = {}
         /\ store = [p \in PageIds |-> Zero]
         /\ saved = store

\* Room is made for the page by saving at most one other.
SGet(p) ==
  /\ users' = users \cup {p}
  /\ \/ UNCHANGED saved
     \/ \E q \in PageIds : saved' = [saved EXCEPT ![q] = store[q]]
  /\ UNCHANGED store

SWrite(p, v) == /\ p \in users
                /\ store' = [store EXCEPT ![p] = v]
                /\ UNCHANGED <<users, saved>>

SRelease(p) == users' = users \ {p} /\ UNCHANGED <<store, saved>>

SClose == users' = {} /\ saved' = store /\ UNCHANGED store

SCrash == users' = {} /\ store' = saved /\ UNCHANGED saved

SNext == \/ \E p \in PageIds : SGet(p) \/ SRelease(p)
         \/ \E p \in PageIds, v \in Contents : SWrite(p, v)
         \/ SClose \/ SCrash

SSpec == SInit /\ [][SNext]_svars
=============================================================================
