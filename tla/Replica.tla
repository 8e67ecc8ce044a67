------------------------------ MODULE Replica ------------------------------
(***************************************************************************)
(* What the sync worker promises of the local copy, without pages, tokens  *)
(* or transactions.  At any moment each record is absent or held at a      *)
(* version it has had on the server.  It moves to later versions only; it  *)
(* is dropped only once the server has destroyed it, and once dropped it   *)
(* never comes back.                                                       *)
(***************************************************************************)
EXTENDS ChangeLog

CONSTANT Record

VARIABLES
  log,    \* the server's changes
  copy,   \* the version held of each record, 0 if none
  buried  \* records dropped from the copy

vars == <<log, copy, buried>>

Init == log \in Seq(Entry(Record)) /\ copy = [r \in Record |-> 0] /\ buried = {}

Change ==
  /\ \E r \in Record, op \in Ops :
       Legal(log, r, op) /\ log' = Append(log, [rec |-> r, op |-> op])
  /\ UNCHANGED <<copy, buried>>

Advance(r) == r \notin buried /\ copy'[r] > copy[r] /\ Held(log, r, copy'[r])
Drop(r)    == copy[r] # 0 /\ copy'[r] = 0 /\ Dead(log, r, Len(log))

Refresh ==
  /\ copy' \in [Record -> 0..Len(log)]
  /\ \A r \in Record : copy'[r] = copy[r] \/ Advance(r) \/ Drop(r)
  /\ buried' = buried \cup {r \in Record : copy[r] # 0 /\ copy'[r] = 0}
  /\ UNCHANGED log

Next == Change \/ Refresh
Spec == Init /\ [][Next]_vars
=============================================================================
