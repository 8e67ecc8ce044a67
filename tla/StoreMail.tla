----------------------------- MODULE StoreMail ------------------------------
(***************************************************************************)
(* The mail tables of the store: mailbox and message rows under the ids    *)
(* SQLite gives them, the membership rows between them with the date and   *)
(* unread mark they repeat, special-use roles, keyset-paged listing, and   *)
(* queued intents that name messages by row id.  Each write is one record  *)
(* of a transaction of the sync engine; reads see whole transactions.      *)
(*                                                                         *)
(* A definition X_Y is no part of the model: it is X with a plausible slip *)
(* in the code it stands for, kept beside X to show which property notices.*)
(***************************************************************************)
EXTENDS Integers, Sequences, FiniteSets, FiniteSetsExt, SequencesExt

CONSTANTS
  Mailbox, Message, \* server ids
  Look,             \* the (name, declared role) pairs the server may show
  Date,             \* values of receivedAt
  Page,             \* a listing's page size
  MaxRow, MaxWalk,  \* bounds on row ids and on the rows a window holds
  MaxIntents        \* bound on the intents queued

ASSUME MailInputs ==
  /\ Look \subseteq [name : STRING, declared : STRING]
  /\ Date \subseteq Nat /\ {Page, MaxRow, MaxWalk} \subseteq Nat \ {0} /\ MaxIntents \in Nat
  /\ Page <= MaxWalk

VARIABLES
  boxes,   \* mailbox rows by id: [sid, look, role]
  msgs,    \* message rows by id: [sid, at, flags, within], within being data's mailbox_ids
  members, \* message_mailbox: [msg, box, at, unread]
  walk,    \* a reader's window over one mailbox and what stayed put below it
  intents  \* queued intents: the row each names and the message meant by it

vars == <<boxes, msgs, members, walk, intents>>

\* INTEGER PRIMARY KEY: one more than the largest id in the table.
NextId(table) == IF DOMAIN table = {} THEN 1 ELSE Max(DOMAIN table) + 1
IdOf(table, sid) == {r \in DOMAIN table : table[r].sid = sid}
With(table, r, row) == [x \in DOMAIN table \cup {r} |-> IF x = r THEN row ELSE table[x]]
Without(table, rs) == [x \in DOMAIN table \ rs |-> table[x]]
-----------------------------------------------------------------------------
(* Roles. *)

\* foldDiacritics after lowering and trimming, of the spellings in use.
Fold(name) ==
  CASE name \in {"Archive", " ARCHIVE"} -> "archive"
    [] name \in {"Archiv"} -> "archiv"
    [] name \in {"Entwurfe", "Entw\"urfe"} -> "entwurfe"
    [] OTHER -> "other"

roleByName == [archive |-> "archive", archiv |-> "archive", entwurfe |-> "drafts", other |-> ""]

\* A declared role outside the six special uses is a role, but not one of those.
serverRoleToMailboxRole(declared) ==
  CASE declared = "all" -> "archive"
    [] declared \in {"archive", "drafts", "sent", "junk", "trash", "scheduled"} -> declared
    [] OTHER -> ""

\* The server's own word is never second-guessed by the name.
classifyMailboxRole(look) ==
  IF look.declared # "" THEN serverRoleToMailboxRole(look.declared) ELSE roleByName[Fold(look.name)]

\* The mailbox that keeps a role several claim: declared before guessed, then
\* the one created first.
Before(table, a, b) ==
  LET declares(r) == table[r].look.declared # "" IN
  IF declares(a) # declares(b) THEN declares(a) ELSE a < b

resolveMailboxRoles(table) ==
  [r \in DOMAIN table |->
    LET role == classifyMailboxRole(table[r].look) IN
    IF \E q \in DOMAIN table \ {r} : classifyMailboxRole(table[q].look) = role /\ Before(table, q, r)
    THEN "" ELSE role]

Classified(table) == [r \in DOMAIN table |-> [table[r] EXCEPT !.role = resolveMailboxRoles(table)[r]]]

\* resolveAccountMailboxRoles, after the row r was written.
Resolved_Alone(table, r) == [table EXCEPT ![r].role = classifyMailboxRole(table[r].look)]
Resolved(table, r) == Classified(table)
-----------------------------------------------------------------------------
(* Writes. *)

Unread(flags) == "seen" \notin flags

\* SyncMessageMailboxes: the membership rows message r should have; a mailbox
\* with no row yet is passed over.
Membership(r, m, table) ==
  {[msg |-> r, box |-> b, at |-> m.at, unread |-> Unread(m.flags)] :
     b \in {x \in DOMAIN table : table[x].sid \in m.within}}

\* SyncMessageMailboxes: what it drops, refreshes and adds.
Synced(r, m) == {k \in members : k.msg # r} \cup Membership(r, m, boxes)

\* RepairMailboxAssociations, for the mailbox row b just inserted.
Repaired_Not(b, table) == members
Repaired(b, table) ==
  LET orphans == {r \in DOMAIN msgs : table[b].sid \in msgs[r].within
                                       /\ ~\E k \in members : k.msg = r /\ k.box = b}
  IN {k \in members : k.msg \notin orphans} \cup UNION {Membership(r, msgs[r], table) : r \in orphans}

InsertMailbox(s, look) ==
  /\ IdOf(boxes, s) = {} /\ NextId(boxes) <= MaxRow
  /\ LET b == NextId(boxes)
         table == With(boxes, b, [sid |-> s, look |-> look, role |-> ""])
     IN boxes' = Resolved(table, b) /\ members' = Repaired(b, table)

\* A write that changes neither name nor declared role leaves roles alone.
UpdateMailbox(s, look) ==
  /\ \E b \in IdOf(boxes, s) :
       LET table == [boxes EXCEPT ![b].look = look] IN
       boxes' = IF look = boxes[b].look THEN boxes ELSE Resolved(table, b)
  /\ UNCHANGED members

DeleteMailbox_Uncascaded(s) ==
  IdOf(boxes, s) # {} /\ boxes' = Without(boxes, IdOf(boxes, s)) /\ UNCHANGED members

\* Membership rows go with either end (ON DELETE CASCADE); roles stay.
DeleteMailbox(s) ==
  /\ IdOf(boxes, s) # {}
  /\ boxes' = Without(boxes, IdOf(boxes, s))
  /\ members' = {k \in members : k.box \notin IdOf(boxes, s)}

UpsertMailbox == \E s \in Mailbox, look \in Look :
  (InsertMailbox(s, look) \/ UpdateMailbox(s, look)) /\ UNCHANGED <<msgs, walk, intents>>

\* What a window can no longer answer for: rows that went or moved.
Moved(rs) == walk' = [walk EXCEPT !.still = @ \ rs]

DropMailbox == \E s \in Mailbox :
  /\ DeleteMailbox(s) /\ UNCHANGED <<msgs, intents>>
  /\ IF walk.sid = s THEN Moved(walk.still) ELSE UNCHANGED walk

UpsertMessage == \E s \in Message, at \in Date, flags \in SUBSET {"seen"}, within \in SUBSET Mailbox :
  LET known == IdOf(msgs, s)
      r == IF known = {} THEN NextId(msgs) ELSE Max(known)
      m == [sid |-> s, at |-> at, flags |-> flags, within |-> within]
  IN /\ r <= MaxRow /\ within # {}
     /\ msgs' = With(msgs, r, m)
     /\ members' = Synced(r, m)
     /\ IF r \in DOMAIN msgs /\ msgs[r].at = at /\ msgs[r].within = within THEN UNCHANGED walk ELSE Moved({r})
     /\ UNCHANGED <<boxes, intents>>

\* DeleteMessage, and DeleteMessageByID in a resync.
DeleteMessage == \E r \in DOMAIN msgs :
  /\ msgs' = Without(msgs, {r}) /\ members' = {k \in members : k.msg # r}
  /\ Moved({r}) /\ UNCHANGED <<boxes, intents>>
-----------------------------------------------------------------------------
(* Listing. *)

\* Display order: the newest first, then the lower id.
Above(k, l) == k.at > l.at \/ (k.at = l.at /\ k.msg < l.msg)
Ordered(set) == CHOOSE s \in [1..Cardinality(set) -> set] : IsSorted(s, Above)
In(b) == {[msg |-> k.msg, at |-> k.at] : k \in {x \in members : x.box = b}}

Older_Strict(b, cursor) == {k \in In(b) : k.at < cursor.at}
\* queryMailboxListForward and queryMailboxListBackward: past the cursor.
Older(b, cursor) == {k \in In(b) : k.at <= cursor.at /\ (k.at < cursor.at \/ k.msg > cursor.msg)}
Newer(b, cursor) == {k \in In(b) : k.at >= cursor.at /\ (k.at > cursor.at \/ k.msg < cursor.msg)}

FirstPage(rows) == SubSeq(rows, 1, IF Len(rows) < Page THEN Len(rows) ELSE Page)
LastPage(rows) == Reverse(FirstPage(Reverse(rows)))

\* The zero cursor: before the newest.
OpenWalk == \E b \in DOMAIN boxes :
  LET page == FirstPage(Ordered(In(b))) IN
  /\ page # <<>>
  /\ walk' = [sid |-> boxes[b].sid, box |-> b, rows |-> page, still |-> {k.msg : k \in In(b)}]
  /\ UNCHANGED <<boxes, msgs, members, intents>>

Scroll(rows, grow) ==
  /\ walk.rows # <<>> /\ rows # <<>> /\ Len(walk.rows) + Len(rows) <= MaxWalk
  /\ walk' = [walk EXCEPT !.rows = grow]
  /\ UNCHANGED <<boxes, msgs, members, intents>>

ListMailboxForward ==
  LET page == FirstPage(Ordered(Older(walk.box, Last(walk.rows))))
  IN walk.rows # <<>> /\ Scroll(page, walk.rows \o page)

\* The rows come nearest first and are reversed into display order.
ListMailboxBackward ==
  LET page == LastPage(Ordered(Newer(walk.box, walk.rows[1])))
  IN walk.rows # <<>> /\ Scroll(page, page \o walk.rows)

Enqueue == \E r \in DOMAIN msgs :
  /\ Cardinality(intents) < MaxIntents
  /\ intents' = intents \cup {[row |-> r, meant |-> msgs[r].sid]}
  /\ UNCHANGED <<boxes, msgs, members, walk>>

Dispatch == \E i \in intents :
  intents' = intents \ {i} /\ UNCHANGED <<boxes, msgs, members, walk>>
-----------------------------------------------------------------------------
NoWalk == [sid |-> "none", box |-> 0, rows |-> <<>>, still |-> {}]
Init == boxes = <<>> /\ msgs = <<>> /\ members = {} /\ walk = NoWalk /\ intents = {}

Next ==
  \/ UpsertMailbox \/ DropMailbox \/ UpsertMessage \/ DeleteMessage
  \/ OpenWalk \/ ListMailboxForward \/ ListMailboxBackward \/ Enqueue \/ Dispatch

Spec == Init /\ [][Next]_vars
-----------------------------------------------------------------------------
SidsDiffer(table) == \A q, r \in DOMAIN table : table[q].sid = table[r].sid => q = r

TypeOK ==
  /\ \A b \in DOMAIN boxes : boxes[b].sid \in Mailbox /\ boxes[b].look \in Look
  /\ \A r \in DOMAIN msgs : msgs[r].sid \in Message /\ msgs[r].within \subseteq Mailbox
  /\ DOMAIN boxes \cup DOMAIN msgs \subseteq 1..MaxRow
  /\ \A k \in members : k.msg \in DOMAIN msgs /\ k.box \in DOMAIN boxes
  /\ SidsDiffer(boxes) /\ SidsDiffer(msgs)
  /\ Len(walk.rows) <= MaxWalk /\ walk.still \subseteq 1..MaxRow

(***************************************************************************)
(* A message is listed in exactly the mailboxes the server put it in that  *)
(* have a row, once in each, under its current date and unread mark,       *)
(* whichever of the two arrived first and however often either was         *)
(* updated, deleted and delivered again.                                   *)
(***************************************************************************)
MembershipTrue ==
  members = UNION {Membership(r, msgs[r], boxes) : r \in DOMAIN msgs}

(***************************************************************************)
(* However the server renames, redeclares and contests roles, at most one  *)
(* mailbox holds a role, and none holds one its own name and declaration   *)
(* do not claim.                                                           *)
(***************************************************************************)
RoleHeldOnce ==
  \A b \in DOMAIN boxes : boxes[b].role # "" =>
    /\ boxes[b].role = classifyMailboxRole(boxes[b].look)
    /\ \A c \in DOMAIN boxes \ {b} : boxes[c].role # boxes[b].role

(***************************************************************************)
(* Roles follow from the account's names and declared roles alone: each    *)
(* role some mailbox claims is held, by the claimant that comes first.     *)
(***************************************************************************)
RolesFollowNames == \A b \in DOMAIN boxes : boxes[b].role = resolveMailboxRoles(boxes)[b]

(***************************************************************************)
(* A window paged in both directions while mail arrives, goes and moves    *)
(* shows every message that stayed where it was exactly once if it lies    *)
(* between the window's edges, in display order.                           *)
(***************************************************************************)
WindowWhole ==
  walk.rows # <<>> =>
    LET stays == {i \in DOMAIN walk.rows : walk.rows[i].msg \in walk.still}
        between(r) == LET k == [msg |-> r, at |-> msgs[r].at] IN
          /\ k = walk.rows[1] \/ Above(walk.rows[1], k)
          /\ k = Last(walk.rows) \/ Above(k, Last(walk.rows))
    IN /\ \A i, j \in stays : i < j => Above(walk.rows[i], walk.rows[j])
       /\ \A r \in walk.still : between(r) => \E i \in stays : walk.rows[i].msg = r

(***************************************************************************)
(* An intent acts on the message it was queued for or on none: once that   *)
(* message has left the store its row id names no other.                   *)
(***************************************************************************)
ReferentsKeep ==
  \A i \in intents : i.row \in DOMAIN msgs => msgs[i.row].sid = i.meant
=============================================================================
