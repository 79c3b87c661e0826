-------------------------- MODULE SessionInvariant --------------------------
(***************************************************************************)
(* The inductive invariant behind the safety properties of Session.  The   *)
(* index can only be restored by an undo if the change list, read          *)
(* backwards, leads from the table of now to the table of the begin, one   *)
(* row at a time; and an undo of a delete can only bring a row back if the *)
(* slot still holds the image that the change recorded.                    *)
(***************************************************************************)
EXTENDS Session

\* A statement or a change list is there only while a transaction is open,
\* and the history ends in the present.
HistoryShape ==
  IF activeTxn = 0
  THEN changes = << >> /\ hist = << >> /\ stmt.kind = "idle"
  ELSE /\ Len(hist) = Len(changes) + 1
       /\ hist[Len(hist)] = Snapshot(slots, index)

HistoryFits == \A i \in 1..Len(hist) : IndexFits(hist[i])

\* The change c leads from snapshot s to snapshot t.
Leads(c, s, t) ==
  /\ s.view[c.rid] = c.before
  /\ c.type = "Insert" <=> c.before = NoRow
  /\ c.type = "Delete" <=> t.view[c.rid] = NoRow
  /\ \A r \in Rids \ {c.rid} : t.view[r] = s.view[r]

Chain == \A i \in 1..Len(changes) : Leads(changes[i], hist[i], hist[i + 1])

\* The slot of every change is below SlotCount, and a slot the transaction
\* deleted is left alone until the rollback.
SlotsKept ==
  \A i \in 1..Len(changes) :
    LET c == changes[i] IN
    /\ slots[c.rid].used
    /\ c.type = "Delete" =>
         /\ slots[c.rid].dead /\ slots[c.rid].row = c.before
         /\ \A j \in (i + 1)..Len(changes) : changes[j].rid # c.rid

\* What the first phase of a statement found of the rows it has yet to write
\* still holds.
StatementValid ==
  /\ stmt.kind \in {"update", "delete"} =>
       \A r \in stmt.rids : Live(slots[r])
  /\ stmt.kind = "update" =>
       /\ UpdateAllowed(stmt.rids, stmt.set)
       /\ stmt.set.col = "key" => \A r, q \in stmt.rids : r = q

IInv ==
  /\ TypeOK /\ HistoryShape /\ IndexMatches /\ HistoryFits /\ Chain
  /\ SlotsKept /\ StatementValid
=============================================================================
