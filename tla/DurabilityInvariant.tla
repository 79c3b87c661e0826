------------------------- MODULE DurabilityInvariant ------------------------
(***************************************************************************)
(* The inductive invariant behind the types and the log numbers of         *)
(* Durability.  SessionInvariant's does not hold here: a start undoes in   *)
(* the heap what the index still shows.                                    *)
(***************************************************************************)
EXTENDS Durability

\* A statement, a change list and a history are there only while a
\* transaction is open, and a transaction only in a running process.
TransactionShape ==
  /\ IF activeTxn = 0 THEN changes = << >> /\ hist = << >> /\ stmt.kind = "idle"
                      ELSE status = "open" /\ Len(hist) = Len(changes) + 1
  /\ status # "recovering" => undo = {} /\ uncommitted = << >>

\* Phase 1 of an UPDATE has refused a NULL, if there is a row to write.
NoNullAssigned ==
  stmt.kind = "update" /\ stmt.rids # {} =>
    stmt.set.col = "key" \/ stmt.set.to # Null

\* A change of an existing row has the row as it was.
HasImage(c) == c.type \in {"Update", "Delete"} => c.before # NoRow

\* What the change list, the log and a recovery would write back are rows, also
\* what a recovery takes from a record that is not whole.
ImagesKept ==
  /\ \A i \in 1..Len(changes) : HasImage(changes[i])
  /\ \A i \in 1..Len(log) :
       HasImage(log[i]) /\ (log[i].type \in ChangeTypes => log[i].rid # 0)
  /\ \A i \in DOMAIN uncommitted :
       /\ uncommitted[i].type \in ChangeTypes
       /\ uncommitted[i].rid # 0 => HasImage(uncommitted[i])

\* Cut records are behind what was forced when they were cut, and nothing else
\* is between the records of the file.  Before the first of them the numbers are
\* the places; without any, the next number follows them.
LogShape ==
  /\ flushed <= Len(log) /\ DOMAIN cuts \subseteq 1..flushed
  /\ DOMAIN cuts = {} /\ status # "closed" => nextLsn = Len(log) + 1
  /\ \A i \in 1..Len(log) : (\A c \in DOMAIN cuts : i < c) => log[i].lsn = i

\* A recovery undoes the records as they are in the log, those that are whole.
RecoveryShape ==
  /\ \A i \in DOMAIN uncommitted : Whole(i) => uncommitted[i] = log[i]
  /\ DOMAIN cuts = {} /\ status = "recovering" => DOMAIN uncommitted = ToUndo(log)

DInv ==
  /\ DTypeOK /\ TransactionShape /\ NoNullAssigned /\ ImagesKept
  /\ LogShape /\ RecoveryShape
=============================================================================
