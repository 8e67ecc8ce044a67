---------------------------- MODULE MCStoreMail -----------------------------
(* Small instances of StoreMail. *)
EXTENDS StoreMail
CONSTANTS b1, b2, m1, m2
Shows(n, d) == [name |-> n, declared |-> d]
\* Names that claim a role, one declared over a plain name, and one declared
\* role that is none of the special ones over a name that would claim one.
MCLook == {Shows("Archive", ""), Shows("Archiv", ""), Shows("Work", "all"), Shows("Archive", "inbox")}
\* Roles and unread marks do not bear on listings, nor windows on intents: looks
\* vary and intents are queued with one message and no window, unread marks vary
\* with no window.
Plain == \A b \in DOMAIN boxes : boxes[b].look = Shows("Work", "all")
AllUnread == \A r \in DOMAIN msgs : msgs[r].flags = {}
Focus ==
  \/ walk = NoWalk /\ Cardinality(DOMAIN msgs) <= 1
  \/ walk = NoWalk /\ Plain /\ intents = {}
  \/ Plain /\ intents = {} /\ AllUnread
=============================================================================
