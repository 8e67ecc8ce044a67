----------------------------- MODULE MCOutbox -----------------------------
(***************************************************************************)
(* Instances of Outbox for TLC: the requests callers make in each run, the *)
(* server's first mailboxes, and the dispatcher's delays.                  *)
(***************************************************************************)
EXTENDS Outbox, TLC

\* Mailbox 1 is at the root, under the first name.
MCHome == [s \in 1..1 |-> [name |-> "Inbox", parent |-> None, by |-> 0]]
\* The server's sibling rule ignores case.
MCFold == [n \in Name |-> IF n = "a" THEN "A" ELSE n]

Create(name)      == [kind |-> "create", name |-> name, box |-> None, ref |-> FALSE,
                      msgs |-> {}, undoable |-> FALSE]
CreateUnder(name) == [Create(name) EXCEPT !.ref = TRUE]
MoveTo(box, msgs) == [kind |-> "move", name |-> "Inbox", box |-> box, ref |-> FALSE,
                      msgs |-> msgs, undoable |-> FALSE]
MoveInto(msgs)    == [MoveTo(None, msgs) EXCEPT !.ref = TRUE]
Undoable(req)     == [req EXCEPT !.undoable = TRUE]
Rename(box, name) == [Create(name) EXCEPT !.kind = "rename", !.box = box]
Delete(box)       == [Create("Inbox") EXCEPT !.kind = "delete", !.box = box]

\* A folder that is new, one whose name is taken, so that its create adopts the
\* mailbox, and a move of all messages, one a chunk, into one of them.
ReqFill == {Create("A"), Create("Inbox"), MoveInto(Msg)}
\* One request of each kind; the rename's name is free for it, and the folder
\* deleted is the one the create makes.
ReqLive == {Create("A"), Undoable(MoveInto({"m1"})), MoveTo(1, {"m1"}), Rename(1, "B"), Delete(2)}
\* A folder and a move into it.
ReqOutlives == {Create("A"), MoveInto({"m1"})}
\* A folder, and a folder in it.
ReqNested == {Create("A"), CreateUnder("a")}

\* backoff, in seconds: doubling from one, capped at thirty.
Backoff(attempt) == IF 2 ^ attempt > 30 THEN 30 ELSE 2 ^ attempt
\* The passes are DispatchInterval seconds apart; a delay lasts the intervals
\* it takes to cover it.
DispatchInterval == 5
DelaysReal == [n \in 1..6 |-> (Backoff(n - 1) + DispatchInterval - 1) \div DispatchInterval]
DelaysShort == <<1, 2>>
DelaysFlat  == <<1>>

\* Messages are interchangeable, and so are the callers of bulk moves.
Symmetry == Permutations(Msg) \cup Permutations(Caller)
=============================================================================
