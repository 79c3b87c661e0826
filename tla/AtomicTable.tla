----------------------------- MODULE AtomicTable -----------------------------
(***************************************************************************)
(* What a session owes its user, whatever the statements do to pages and   *)
(* trees on the way: a transaction works on the table alone, a commit      *)
(* makes the state it reached the committed one, and a rollback, however   *)
(* many steps it takes, ends in the state that was committed before.       *)
(***************************************************************************)
CONSTANT InitialState

VARIABLES
  db,    \* the committed state of the table and its index
  work,  \* the state statements see
  mode   \* "none", "open" or "aborting"

avars == <<db, work, mode>>

AInit == db = InitialState /\ work = InitialState /\ mode = "none"

ABegin == /\ mode = "none" /\ mode' = "open"
          /\ UNCHANGED <<db, work>>

\* Any change of the working state; the committed state is out of reach.
AWork == /\ mode \in {"open", "aborting"}
         /\ UNCHANGED <<db, mode>>

ACommit == /\ mode = "open" /\ mode' = "none"
           /\ db' = work /\ work' = work

AAbort == /\ mode = "open" /\ mode' = "aborting"
          /\ UNCHANGED <<db, work>>

AAborted == /\ mode = "aborting" /\ mode' = "none"
            /\ work = db
            /\ UNCHANGED <<db, work>>

ANext == ABegin \/ AWork \/ ACommit \/ AAbort \/ AAborted

ASpec == AInit /\ [][ANext]_avars
=============================================================================
