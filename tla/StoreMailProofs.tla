-------------------------- MODULE StoreMailProofs ---------------------------
(***************************************************************************)
(* Theorems about StoreMail, for any server ids, looks, dates, page size   *)
(* and bounds: its variables are well typed, the membership rows say what  *)
(* the server said, and a role has at most one holder.                     *)
(***************************************************************************)
EXTENDS StoreMail, FiniteSetTheorems, WellFoundedInduction, TLAPS

-----------------------------------------------------------------------------
(* Row ids. *)

\* A bounded non-empty set of naturals has a greatest, and Max is it.
LEMMA GreatestId ==
  ASSUME NEW T \in SUBSET Nat, T # {}, NEW b \in Nat, \A x \in T : x <= b
  PROVE  Max(T) \in T /\ \A y \in T : y <= Max(T)
<1> DEFINE D == {b - x : x \in T}
           R == OpToRel(<, Nat)
<1>1. D \subseteq Nat /\ D # {}
  <2> SUFFICES ASSUME NEW x \in T PROVE b - x \in Nat
    OBVIOUS
  <2> x \in Nat /\ x <= b
    OBVIOUS
  <2> QED OBVIOUS
<1>2. IsWellFoundedOn(R, Nat)
  BY NatLessThanWellFounded
<1>3. PICK d \in D : \A e \in D : ~(<<e, d>> \in R)
  <2> HIDE DEF R, D
  <2> QED BY <1>1, <1>2, WFMin
<1>4. PICK x \in T : d = b - x
  OBVIOUS
<1>5. ASSUME NEW y \in T PROVE y <= x
  <2>1. b - y \in D /\ b - y \in Nat /\ d \in Nat
    <3>1. b - y \in D
      OBVIOUS
    <3> QED BY <3>1, <1>1
  <2>2. ~(b - y < d)
    BY <1>3, <2>1 DEF OpToRel
  <2>3. x \in Nat /\ y \in Nat
    OBVIOUS
  <2> QED BY <1>4, <2>1, <2>2, <2>3
<1> QED BY <1>5 DEF Max

-----------------------------------------------------------------------------
(* Rows. *)

Roles == {"", "archive", "drafts", "sent", "junk", "trash", "scheduled"}
BoxRow == [sid : Mailbox, look : Look, role : Roles]
MsgRow == [sid : Message, at : Date, flags : SUBSET {"seen"}, within : SUBSET Mailbox]

\* A table: rows of one kind under ids in range, no two for one object.
Table(t, Row) ==
  t \in [DOMAIN t -> Row] /\ DOMAIN t \subseteq 1..MaxRow /\ SidsDiffer(t)

Tables == Table(boxes, BoxRow) /\ Table(msgs, MsgRow)

LEMMA NewId ==
  ASSUME NEW t, NEW Row, Table(t, Row)
  PROVE  NextId(t) \in Nat \ {0} /\ NextId(t) \notin DOMAIN t
<1>1. CASE DOMAIN t = {}
  BY <1>1 DEF NextId
<1>2. CASE DOMAIN t # {}
  <2>1. Max(DOMAIN t) \in DOMAIN t /\ \A y \in DOMAIN t : y <= Max(DOMAIN t)
    <3>1. DOMAIN t \in SUBSET Nat /\ MaxRow \in Nat /\ \A x \in DOMAIN t : x <= MaxRow
      BY MailInputs DEF Table
    <3> QED BY <1>2, <3>1, GreatestId
  <2>2. Max(DOMAIN t) \in 1..MaxRow
    BY <2>1 DEF Table
  <2>3. NextId(t) = Max(DOMAIN t) + 1
    BY <1>2 DEF NextId
  <2>4. NextId(t) \in Nat \ {0} /\ ~(NextId(t) <= Max(DOMAIN t))
    BY <2>2, <2>3
  <2> QED BY <2>1, <2>4
<1> QED BY <1>1, <1>2

LEMMA WithoutRows ==
  ASSUME NEW t, NEW rs
  PROVE  /\ DOMAIN Without(t, rs) = DOMAIN t \ rs
         /\ \A x \in DOMAIN t \ rs : Without(t, rs)[x] = t[x]
  BY DEF Without

\* A row may be written where its object's row is, or is to be.
LEMMA WithTable ==
  ASSUME NEW t, NEW Row, Table(t, Row), NEW r \in 1..MaxRow, NEW row \in Row,
         \A x \in DOMAIN t \ {r} : t[x].sid # row.sid
  PROVE  Table(With(t, r, row), Row)
<1> DEFINE u == With(t, r, row)
<1>1. u \in [DOMAIN u -> Row] /\ DOMAIN u \subseteq 1..MaxRow
  BY DEF Table, With
<1>2. SidsDiffer(u)
  <2> SUFFICES ASSUME NEW q \in DOMAIN u, NEW x \in DOMAIN u, u[q].sid = u[x].sid PROVE q = x
    BY DEF SidsDiffer
  <2> QED BY DEF With, Table, SidsDiffer
<1> QED BY <1>1, <1>2 DEF Table

LEMMA WithoutTable ==
  ASSUME NEW t, NEW Row, Table(t, Row), NEW rs
  PROVE  Table(Without(t, rs), Row)
<1> DEFINE u == Without(t, rs)
<1>1. u \in [DOMAIN u -> Row] /\ DOMAIN u \subseteq 1..MaxRow
  BY DEF Table, Without
<1>2. SidsDiffer(u)
  BY DEF Without, Table, SidsDiffer
<1> QED BY <1>1, <1>2 DEF Table

-----------------------------------------------------------------------------
(* Roles. *)

LEMMA RoleClassified ==
  ASSUME NEW look \in Look
  PROVE  classifyMailboxRole(look) \in Roles
<1>1. look \in [name : STRING, declared : STRING]
  BY MailInputs
<1>2. serverRoleToMailboxRole(look.declared) \in Roles
  BY DEF serverRoleToMailboxRole, Roles
<1>3. roleByName[Fold(look.name)] \in Roles
  BY DEF roleByName, Fold, Roles
<1> QED BY <1>2, <1>3 DEF classifyMailboxRole

LEMMA RolesResolved ==
  ASSUME NEW t, \A b \in DOMAIN t : t[b].look \in Look
  PROVE  /\ DOMAIN resolveMailboxRoles(t) = DOMAIN t
         /\ \A b \in DOMAIN t : resolveMailboxRoles(t)[b] \in Roles
<1> SUFFICES ASSUME NEW b \in DOMAIN t PROVE resolveMailboxRoles(t)[b] \in Roles
  BY DEF resolveMailboxRoles
<1>1. classifyMailboxRole(t[b].look) \in Roles /\ "" \in Roles
  BY RoleClassified DEF Roles
<1> QED BY <1>1 DEF resolveMailboxRoles

\* Resolving writes roles and nothing else.
LEMMA Reclassified ==
  ASSUME NEW t, t \in [DOMAIN t -> BoxRow]
  PROVE  /\ DOMAIN Classified(t) = DOMAIN t
         /\ \A b \in DOMAIN t :
              /\ Classified(t)[b] \in BoxRow
              /\ Classified(t)[b].sid = t[b].sid /\ Classified(t)[b].look = t[b].look
              /\ Classified(t)[b].role = resolveMailboxRoles(t)[b]
<1> SUFFICES ASSUME NEW b \in DOMAIN t
             PROVE  /\ Classified(t)[b] \in BoxRow
                    /\ Classified(t)[b].sid = t[b].sid /\ Classified(t)[b].look = t[b].look
                    /\ Classified(t)[b].role = resolveMailboxRoles(t)[b]
  BY DEF Classified
<1> DEFINE role == resolveMailboxRoles(t)[b]
           row == [t[b] EXCEPT !.role = role]
<1>1. t[b] \in BoxRow
  OBVIOUS
<1>2. role \in Roles
  <2>1. \A x \in DOMAIN t : t[x].look \in Look
    BY DEF BoxRow
  <2> QED BY <2>1, RolesResolved
<1> HIDE DEF role
<1>3. row \in BoxRow
  BY <1>1, <1>2, Zenon DEF BoxRow
<1>4. row.sid = t[b].sid /\ row.look = t[b].look /\ row.role = role
  BY <1>1, SMT DEF BoxRow
<1>5. Classified(t)[b] = row
  BY DEF Classified, role
<1> QED BY <1>3, <1>4, <1>5 DEF role

LEMMA ReclassifiedTable ==
  ASSUME NEW t, Table(t, BoxRow)
  PROVE  Table(Classified(t), BoxRow)
<1>1. t \in [DOMAIN t -> BoxRow]
  BY DEF Table
<1>2. Classified(t) \in [DOMAIN t -> BoxRow]
  <2>1. Classified(t) = [b \in DOMAIN t |-> Classified(t)[b]]
    BY DEF Classified
  <2>2. \A b \in DOMAIN t : Classified(t)[b] \in BoxRow
    BY <1>1, Reclassified
  <2> QED BY <2>1, <2>2
<1> QED BY <1>1, <1>2, Reclassified DEF Table, SidsDiffer

LEMMA BeforeTotal ==
  ASSUME NEW t, NEW a \in DOMAIN t, NEW b \in DOMAIN t, a # b, DOMAIN t \subseteq Nat
  PROVE  Before(t, a, b) \/ Before(t, b, a)
<1>1. a < b \/ b < a
  <2> a \in Nat /\ b \in Nat
    OBVIOUS
  <2> QED OBVIOUS
<1> QED BY <1>1, Zenon DEF Before

\* RoleHeldOnce of any table.
HeldOnce(t) ==
  \A b \in DOMAIN t : t[b].role # "" =>
    /\ t[b].role = classifyMailboxRole(t[b].look)
    /\ \A c \in DOMAIN t \ {b} : t[c].role # t[b].role

LEMMA ResolvedHeldOnce ==
  ASSUME NEW t, Table(t, BoxRow)
  PROVE  HeldOnce(Classified(t))
<1> DEFINE u == Classified(t)
<1>1. t \in [DOMAIN t -> BoxRow] /\ DOMAIN t \subseteq Nat
  BY MailInputs DEF Table
<1>2. /\ DOMAIN u = DOMAIN t
      /\ \A b \in DOMAIN t : u[b].look = t[b].look /\ u[b].role = resolveMailboxRoles(t)[b]
  BY <1>1, Reclassified
<1> HIDE DEF u
<1> SUFFICES ASSUME NEW b \in DOMAIN t, u[b].role # ""
             PROVE  /\ u[b].role = classifyMailboxRole(u[b].look)
                    /\ \A c \in DOMAIN t \ {b} : u[c].role # u[b].role
  BY <1>2 DEF HeldOnce, u
<1>3. u[b].role = classifyMailboxRole(t[b].look)
  BY <1>2 DEF resolveMailboxRoles
<1>4. ASSUME NEW c \in DOMAIN t \ {b}, u[c].role = u[b].role
      PROVE  FALSE
  <2>1. u[c].role = classifyMailboxRole(t[c].look)
    BY <1>2, <1>4 DEF resolveMailboxRoles
  <2>2. ~Before(t, c, b)
    BY <1>2, <1>3, <1>4, <2>1 DEF resolveMailboxRoles
  <2>3. ~Before(t, b, c)
    BY <1>2, <1>3, <1>4, <2>1 DEF resolveMailboxRoles
  <2> QED BY <1>1, <2>2, <2>3, BeforeTotal
<1> QED BY <1>2, <1>3, <1>4

-----------------------------------------------------------------------------
(* Membership rows. *)

\* The rows there should be, for any two tables.
Members(ms, bs) == UNION {Membership(r, ms[r], bs) : r \in DOMAIN ms}

LEMMA MembersAre ==
  ASSUME NEW ms, NEW bs, NEW k
  PROVE  k \in Members(ms, bs) <=>
           \E r \in DOMAIN ms, b \in DOMAIN bs :
             /\ bs[b].sid \in ms[r].within
             /\ k = [msg |-> r, box |-> b, at |-> ms[r].at, unread |-> Unread(ms[r].flags)]
  BY DEF Members, Membership

\* They depend on mailbox rows by their server ids only.
LEMMA MembersBySid ==
  ASSUME NEW ms, NEW bs, NEW cs, DOMAIN bs = DOMAIN cs, \A b \in DOMAIN bs : bs[b].sid = cs[b].sid
  PROVE  Members(ms, bs) = Members(ms, cs)
  BY DEF Members, Membership

\* A message's own row, written anew.
LEMMA MembersUpserted ==
  ASSUME NEW r, NEW m, members = Members(msgs, boxes)
  PROVE  Synced(r, m) = Members(With(msgs, r, m), boxes)
<1> DEFINE ms == With(msgs, r, m)
<1>1. DOMAIN ms = DOMAIN msgs \cup {r} /\ ms[r] = m /\ \A x \in DOMAIN msgs \ {r} : ms[x] = msgs[x]
  BY DEF With
<1> HIDE DEF ms
<1>2. ASSUME NEW k \in Synced(r, m) PROVE k \in Members(ms, boxes)
  <2>1. CASE k \in Membership(r, m, boxes)
    BY <1>1, <2>1 DEF Members
  <2>2. CASE k \in members /\ k.msg # r
    <3>1. PICK x \in DOMAIN msgs : k \in Membership(x, msgs[x], boxes)
      BY <2>2 DEF Members
    <3>2. k.msg = x
      BY <3>1 DEF Membership
    <3> QED BY <1>1, <2>2, <3>1, <3>2 DEF Members
  <2> QED BY <1>2, <2>1, <2>2 DEF Synced
<1>3. ASSUME NEW k \in Members(ms, boxes) PROVE k \in Synced(r, m)
  <2>1. PICK x \in DOMAIN ms : k \in Membership(x, ms[x], boxes)
    BY <1>3 DEF Members
  <2>2. k.msg = x
    BY <2>1 DEF Membership
  <2>3. CASE x = r
    BY <1>1, <2>1, <2>3 DEF Synced
  <2>4. CASE x # r
    BY <1>1, <2>1, <2>2, <2>4 DEF Synced, Members
  <2> QED BY <2>3, <2>4
<1> QED BY <1>2, <1>3 DEF ms

LEMMA MembersWithoutMessage ==
  ASSUME NEW r, members = Members(msgs, boxes)
  PROVE  {k \in members : k.msg # r} = Members(Without(msgs, {r}), boxes)
<1> DEFINE ms == Without(msgs, {r})
<1>1. DOMAIN ms = DOMAIN msgs \ {r} /\ \A x \in DOMAIN msgs \ {r} : ms[x] = msgs[x]
  BY WithoutRows
<1> HIDE DEF ms
<1>2. ASSUME NEW x \in DOMAIN msgs, NEW k \in Membership(x, msgs[x], boxes) PROVE k.msg = x
  BY DEF Membership
<1>3. ASSUME NEW k \in members, k.msg # r PROVE k \in Members(ms, boxes)
  BY <1>1, <1>2, <1>3 DEF Members
<1>4. ASSUME NEW k \in Members(ms, boxes) PROVE k \in members /\ k.msg # r
  BY <1>1, <1>2, <1>4 DEF Members
<1> QED BY <1>3, <1>4 DEF ms

LEMMA MembersWithoutMailbox ==
  ASSUME NEW bs, members = Members(msgs, boxes)
  PROVE  {k \in members : k.box \notin bs} = Members(msgs, Without(boxes, bs))
<1> DEFINE cs == Without(boxes, bs)
<1>1. DOMAIN cs = DOMAIN boxes \ bs /\ \A x \in DOMAIN boxes \ bs : cs[x] = boxes[x]
  BY WithoutRows
<1> HIDE DEF cs
<1>2. ASSUME NEW k \in members, k.box \notin bs PROVE k \in Members(msgs, cs)
  <2>1. PICK r \in DOMAIN msgs, b \in DOMAIN boxes :
          /\ boxes[b].sid \in msgs[r].within
          /\ k = [msg |-> r, box |-> b, at |-> msgs[r].at, unread |-> Unread(msgs[r].flags)]
    BY <1>2, MembersAre
  <2>2. b \in DOMAIN cs /\ cs[b].sid \in msgs[r].within
    BY <1>1, <1>2, <2>1
  <2> QED BY <2>1, <2>2, MembersAre
<1>3. ASSUME NEW k \in Members(msgs, cs) PROVE k \in members /\ k.box \notin bs
  <2>1. PICK r \in DOMAIN msgs, b \in DOMAIN cs :
          /\ cs[b].sid \in msgs[r].within
          /\ k = [msg |-> r, box |-> b, at |-> msgs[r].at, unread |-> Unread(msgs[r].flags)]
    BY <1>3, MembersAre
  <2> QED BY <1>1, <2>1, MembersAre
<1> QED BY <1>2, <1>3 DEF cs

\* A mailbox inserted under a new id: what the repair adds is what was missing.
LEMMA MembersRepaired ==
  ASSUME NEW b, b \notin DOMAIN boxes, NEW row, members = Members(msgs, boxes),
         NEW t, t = With(boxes, b, row)
  PROVE  Repaired(b, t) = Members(msgs, t)
<1> DEFINE orphans == {r \in DOMAIN msgs : t[b].sid \in msgs[r].within
                                         /\ ~\E k \in members : k.msg = r /\ k.box = b}
<1>1. DOMAIN t = DOMAIN boxes \cup {b} /\ t[b] = row /\ \A x \in DOMAIN boxes : t[x] = boxes[x]
  BY DEF With
<1>2. ASSUME NEW k \in members PROVE k.box # b
  BY <1>2, MembersAre
<1>3. orphans = {r \in DOMAIN msgs : row.sid \in msgs[r].within}
  BY <1>1, <1>2
<1> HIDE DEF orphans
<1>4. ASSUME NEW r \in DOMAIN msgs \ orphans
      PROVE  Membership(r, msgs[r], t) = Membership(r, msgs[r], boxes)
  BY <1>1, <1>3 DEF Membership
<1>5. ASSUME NEW x \in DOMAIN msgs, NEW u, NEW k \in Membership(x, msgs[x], u) PROVE k.msg = x
  BY DEF Membership
<1>6. Repaired(b, t) = {k \in members : k.msg \notin orphans} \cup UNION {Membership(r, msgs[r], t) : r \in orphans}
  BY DEF Repaired, orphans
<1>7. orphans \subseteq DOMAIN msgs
  BY DEF orphans
<1>8. ASSUME NEW k \in Repaired(b, t) PROVE k \in Members(msgs, t)
  <2>1. CASE \E r \in orphans : k \in Membership(r, msgs[r], t)
    BY <1>7, <2>1 DEF Members
  <2>2. CASE k \in members /\ k.msg \notin orphans
    BY <1>4, <1>5, <2>2 DEF Members
  <2> QED BY <1>6, <1>8, <2>1, <2>2
<1>9. ASSUME NEW k \in Members(msgs, t) PROVE k \in Repaired(b, t)
  <2>1. PICK r \in DOMAIN msgs : k \in Membership(r, msgs[r], t)
    BY <1>9 DEF Members
  <2>2. CASE r \in orphans
    BY <1>6, <2>1, <2>2
  <2>3. CASE r \notin orphans
    BY <1>4, <1>5, <1>6, <2>1, <2>3 DEF Members
  <2> QED BY <2>2, <2>3
<1> QED BY <1>8, <1>9
-----------------------------------------------------------------------------
(* What the tables hold, after each write. *)

Data == Tables /\ members = Members(msgs, boxes) /\ HeldOnce(boxes)

LEMMA DataInserted ==
  ASSUME Data, NEW s \in Mailbox, NEW look \in Look, InsertMailbox(s, look), UNCHANGED msgs
  PROVE  Data'
<1> DEFINE b == NextId(boxes)
           row == [sid |-> s, look |-> look, role |-> ""]
           t == With(boxes, b, row)
<1>1. boxes' = Classified(t) /\ members' = Repaired(b, t) /\ IdOf(boxes, s) = {} /\ b <= MaxRow
  BY DEF InsertMailbox, Resolved
<1>2. b \in 1..MaxRow /\ b \notin DOMAIN boxes
  <2>1. b \in Nat \ {0} /\ b \notin DOMAIN boxes
    BY NewId DEF Data, Tables
  <2>2. b <= MaxRow /\ MaxRow \in Nat
    BY <1>1, MailInputs
  <2> HIDE DEF b, row, t
  <2> QED BY <2>1, <2>2
<1>3. row \in BoxRow
  BY DEF BoxRow, Roles
<1>4. \A x \in DOMAIN boxes \ {b} : boxes[x].sid # row.sid
  BY <1>1 DEF IdOf
<1> HIDE DEF b, row
<1>5. Table(t, BoxRow)
  BY <1>2, <1>3, <1>4, WithTable DEF Data, Tables
<1>6. members' = Members(msgs, t)
  BY <1>1, <1>2, MembersRepaired DEF Data
<1> HIDE DEF t
<1>7. t \in [DOMAIN t -> BoxRow]
  BY <1>5 DEF Table
<1>8. DOMAIN t = DOMAIN Classified(t) /\ \A x \in DOMAIN t : t[x].sid = Classified(t)[x].sid
  BY <1>7, Reclassified
<1>9. Members(msgs, t) = Members(msgs, Classified(t))
  BY <1>8, MembersBySid
<1>10. Table(Classified(t), BoxRow) /\ HeldOnce(Classified(t))
  BY <1>5, ReclassifiedTable, ResolvedHeldOnce
<1> QED BY <1>1, <1>6, <1>9, <1>10 DEF Data, Tables

LEMMA DataUpdated ==
  ASSUME Data, NEW s \in Mailbox, NEW look \in Look, UpdateMailbox(s, look), UNCHANGED msgs
  PROVE  /\ Data' /\ DOMAIN boxes' = DOMAIN boxes
         /\ \A x \in DOMAIN boxes : boxes'[x].sid = boxes[x].sid
<1>1. PICK b \in IdOf(boxes, s) :
        boxes' = IF look = boxes[b].look THEN boxes
                 ELSE Resolved([boxes EXCEPT ![b].look = look], b)
  BY DEF UpdateMailbox
<1>2. members' = members
  BY DEF UpdateMailbox
<1>3. CASE look = boxes[b].look
  <2>1. UNCHANGED <<boxes, msgs, members>>
    BY <1>1, <1>2, <1>3
  <2> QED BY <2>1 DEF Data, Tables
<1>4. CASE look # boxes[b].look
  <2> DEFINE row == [boxes[b] EXCEPT !.look = look]
             t == [boxes EXCEPT ![b].look = look]
  <2>1. b \in DOMAIN boxes /\ boxes \in [DOMAIN boxes -> BoxRow]
    BY DEF IdOf, Data, Tables, Table
  <2>2. boxes[b] \in BoxRow
    BY <2>1
  <2>3. row \in BoxRow
    BY <2>2, Zenon DEF BoxRow
  <2>4. row.sid = boxes[b].sid
    BY <2>2, SMT DEF BoxRow
  <2>5. DOMAIN t = DOMAIN boxes /\ t[b] = row /\ \A x \in DOMAIN boxes \ {b} : t[x] = boxes[x]
    BY <2>1
  <2>6. t = [x \in DOMAIN t |-> t[x]]
    BY <2>1
  <2>7. boxes' = Classified(t)
    BY <1>1, <1>4 DEF Resolved
  <2> HIDE DEF row, t
  <2>8. \A x \in DOMAIN t : t[x] \in BoxRow /\ t[x].sid = boxes[x].sid
    BY <2>1, <2>3, <2>4, <2>5
  <2>9. t \in [DOMAIN t -> BoxRow]
    BY <2>6, <2>8
  <2>10. Table(t, BoxRow)
    BY <2>5, <2>8, <2>9 DEF Table, Data, Tables, SidsDiffer
  <2>11. /\ DOMAIN Classified(t) = DOMAIN boxes
         /\ \A x \in DOMAIN boxes : Classified(t)[x].sid = boxes[x].sid
    BY <2>5, <2>8, <2>9, Reclassified
  <2>12. Members(msgs, boxes) = Members(msgs, Classified(t))
    BY <2>11, MembersBySid
  <2>13. Table(Classified(t), BoxRow) /\ HeldOnce(Classified(t))
    BY <2>10, ReclassifiedTable, ResolvedHeldOnce
  <2> QED BY <1>2, <2>7, <2>11, <2>12, <2>13 DEF Data, Tables
<1> QED BY <1>3, <1>4 DEF Data

LEMMA HeldOnceWithout ==
  ASSUME NEW t, NEW rs, HeldOnce(t)
  PROVE  HeldOnce(Without(t, rs))
<1>1. DOMAIN Without(t, rs) = DOMAIN t \ rs /\ \A x \in DOMAIN t \ rs : Without(t, rs)[x] = t[x]
  BY DEF Without
<1> QED BY <1>1 DEF HeldOnce

LEMMA DataDropped ==
  ASSUME Data, NEW s, DeleteMailbox(s), UNCHANGED msgs
  PROVE  Data'
<1>1. Table(boxes', BoxRow) /\ HeldOnce(boxes')
  BY WithoutTable, HeldOnceWithout DEF DeleteMailbox, Data, Tables
<1>2. members' = Members(msgs, boxes')
  BY MembersWithoutMailbox DEF DeleteMailbox, Data
<1> QED BY <1>1, <1>2 DEF Data, Tables

LEMMA DataUpserted ==
  ASSUME Data, UpsertMessage
  PROVE  Data'
<1>1. PICK s \in Message, at \in Date, flags \in SUBSET {"seen"}, within \in SUBSET Mailbox :
        LET known == IdOf(msgs, s)
            r == IF known = {} THEN NextId(msgs) ELSE Max(known)
            m == [sid |-> s, at |-> at, flags |-> flags, within |-> within]
        IN r <= MaxRow /\ msgs' = With(msgs, r, m) /\ members' = Synced(r, m) /\ UNCHANGED boxes
  BY DEF UpsertMessage
<1> DEFINE known == IdOf(msgs, s)
           r == IF known = {} THEN NextId(msgs) ELSE Max(known)
           m == [sid |-> s, at |-> at, flags |-> flags, within |-> within]
<1>2. m \in MsgRow /\ m.sid = s
  BY DEF MsgRow
<1>3. Table(msgs, MsgRow)
  BY DEF Data, Tables
<1>4. r \in 1..MaxRow /\ \A x \in DOMAIN msgs \ {r} : msgs[x].sid # s
  <2>1. CASE known = {}
    <3>1. NextId(msgs) \in Nat \ {0} /\ NextId(msgs) <= MaxRow
      BY <1>1, <1>3, <2>1, NewId
    <3>2. \A x \in DOMAIN msgs : msgs[x].sid # s
      BY <2>1 DEF IdOf
    <3> QED BY <2>1, <3>1, <3>2, MailInputs
  <2>2. CASE known # {}
    <3>1. known \subseteq DOMAIN msgs /\ DOMAIN msgs \subseteq 1..MaxRow
      BY <1>3 DEF IdOf, Table
    <3>2. known \in SUBSET Nat /\ MaxRow \in Nat /\ \A x \in known : x <= MaxRow
      BY <3>1, MailInputs
    <3> HIDE DEF known
    <3>3. Max(known) \in known
      BY <2>2, <3>2, GreatestId
    <3>4. msgs[Max(known)].sid = s
      BY <3>3 DEF IdOf, known
    <3>5. \A x \in DOMAIN msgs : msgs[x].sid = s => x = Max(known)
      BY <1>3, <3>1, <3>3, <3>4 DEF Table, SidsDiffer
    <3> QED BY <2>2, <3>1, <3>3, <3>5
  <2> QED BY <2>1, <2>2
<1>5. msgs' = With(msgs, r, m) /\ members' = Synced(r, m) /\ UNCHANGED boxes
  BY <1>1
<1> HIDE DEF r, m
<1>6. Table(msgs', MsgRow)
  BY <1>2, <1>3, <1>4, <1>5, WithTable
<1>7. members' = Members(msgs', boxes)
  BY <1>5, MembersUpserted DEF Data
<1> QED BY <1>5, <1>6, <1>7 DEF Data, Tables

LEMMA DataDeleted ==
  ASSUME Data, DeleteMessage
  PROVE  Data'
<1>1. PICK r \in DOMAIN msgs :
        msgs' = Without(msgs, {r}) /\ members' = {k \in members : k.msg # r} /\ UNCHANGED boxes
  BY DEF DeleteMessage
<1>2. Table(msgs', MsgRow)
  BY <1>1, WithoutTable DEF Data, Tables
<1>3. members' = Members(msgs', boxes)
  BY <1>1, MembersWithoutMessage DEF Data
<1> QED BY <1>1, <1>2, <1>3 DEF Data, Tables

LEMMA DataInit == Init => Data
<1> SUFFICES ASSUME Init PROVE Data
  OBVIOUS
<1>1. DOMAIN boxes = {} /\ DOMAIN msgs = {} /\ members = {}
  BY DEF Init
<1>2. boxes \in [DOMAIN boxes -> BoxRow] /\ msgs \in [DOMAIN msgs -> MsgRow]
  BY <1>1 DEF Init
<1> QED BY <1>1, <1>2 DEF Data, Tables, Table, SidsDiffer, Members, HeldOnce

\* A step of a reader or of the outbox writes no table.
Reading == OpenWalk \/ ListMailboxForward \/ ListMailboxBackward \/ Enqueue \/ Dispatch

LEMMA ReadingReads ==
  ASSUME Reading
  PROVE  UNCHANGED <<boxes, msgs, members>>
  BY DEF Reading, OpenWalk, ListMailboxForward, ListMailboxBackward, Scroll, Enqueue, Dispatch

LEMMA DataStep == Data /\ [Next]_vars => Data'
<1> SUFFICES ASSUME Data, [Next]_vars PROVE Data'
  OBVIOUS
<1>1. CASE UpsertMailbox
  BY <1>1, DataInserted, DataUpdated DEF UpsertMailbox
<1>2. CASE DropMailbox
  BY <1>2, DataDropped DEF DropMailbox
<1>3. CASE UpsertMessage
  BY <1>3, DataUpserted
<1>4. CASE DeleteMessage
  BY <1>4, DataDeleted
<1>5. CASE Reading \/ UNCHANGED vars
  <2>1. UNCHANGED <<boxes, msgs, members>>
    BY <1>5, ReadingReads DEF vars
  <2> QED BY <2>1 DEF Data, Tables
<1> QED BY <1>1, <1>2, <1>3, <1>4, <1>5 DEF Next, Reading

\* However mail and mailboxes arrive, are updated and go, the membership rows
\* are those the stored server state calls for.
THEOREM MembershipsAreTrue == Spec => []MembershipTrue
<1>1. Data => MembershipTrue
  BY DEF Data, Members, MembershipTrue
<1> QED BY <1>1, DataInit, DataStep, PTL DEF Spec

\* However names and declared roles change, a role has one holder, which claims it.
THEOREM OneHolderPerRole == Spec => []RoleHeldOnce
<1>1. Data => RoleHeldOnce
  BY DEF Data, HeldOnce, RoleHeldOnce
<1> QED BY <1>1, DataInit, DataStep, PTL DEF Spec
-----------------------------------------------------------------------------
(* Display order. *)

Key == [msg : Nat, at : Nat]

LEMMA OrderStrict ==
  ASSUME NEW k \in Key, NEW l \in Key
  PROVE  /\ ~Above(k, k)
         /\ ~(Above(k, l) /\ Above(l, k))
         /\ Above(k, l) \/ Above(l, k) \/ k = l
<1> k.msg \in Nat /\ k.at \in Nat /\ l.msg \in Nat /\ l.at \in Nat
  BY DEF Key
<1>1. k.msg = l.msg /\ k.at = l.at => k = l
  BY DEF Key
<1> QED BY <1>1 DEF Above

LEMMA OrderTransitive ==
  ASSUME NEW k \in Key, NEW l \in Key, NEW m \in Key, Above(k, l), Above(l, m)
  PROVE  Above(k, m)
<1> k.msg \in Nat /\ k.at \in Nat /\ l.msg \in Nat /\ l.at \in Nat /\ m.msg \in Nat /\ m.at \in Nat
  BY DEF Key
<1> QED BY DEF Above

\* A finite set of keys can be put in order: a key's place follows from how
\* many stand above it.
LEMMA OrderExists ==
  ASSUME NEW S \in SUBSET Key, IsFiniteSet(S)
  PROVE  \E s \in [1..Cardinality(S) -> S] : \A i, j \in 1..Cardinality(S) : i < j => Above(s[i], s[j])
<1> DEFINE n == Cardinality(S)
           up(k) == {l \in S : Above(l, k)}
           rank == [k \in S |-> Cardinality(up(k)) + 1]
<1>1. n \in Nat
  BY FS_CardinalityType
<1>2. ASSUME NEW k \in S
      PROVE  /\ up(k) \in SUBSET S /\ IsFiniteSet(up(k)) /\ Cardinality(up(k)) \in Nat
             /\ rank[k] \in 1..n
  <2>1. k \in Key /\ ~Above(k, k)
    BY OrderStrict
  <2>2. up(k) \in SUBSET S /\ up(k) # S
    BY <2>1
  <2> HIDE DEF up
  <2>3. IsFiniteSet(up(k)) /\ Cardinality(up(k)) <= n /\ Cardinality(up(k)) # n
    BY <2>2, FS_Subset
  <2>4. Cardinality(up(k)) \in Nat
    BY <2>3, FS_CardinalityType
  <2> QED BY <1>1, <2>2, <2>3, <2>4
<1>3. ASSUME NEW k \in S, NEW l \in S, Above(k, l)
      PROVE  rank[k] < rank[l]
  <2>1. k \in Key /\ l \in Key /\ ~Above(k, k)
    BY OrderStrict
  <2>2. \A x \in S : Above(x, k) => Above(x, l)
    BY <1>3, <2>1, OrderTransitive
  <2>3. up(k) \in SUBSET up(l) /\ k \in up(l) /\ k \notin up(k)
    BY <1>3, <2>1, <2>2
  <2>4. IsFiniteSet(up(l)) /\ Cardinality(up(k)) \in Nat /\ Cardinality(up(l)) \in Nat
    BY <1>2
  <2> HIDE DEF up
  <2>5. Cardinality(up(k)) <= Cardinality(up(l)) /\ Cardinality(up(k)) # Cardinality(up(l))
    BY <2>3, <2>4, FS_Subset
  <2> QED BY <2>4, <2>5
<1> HIDE DEF rank
<1>4. rank \in [S -> 1..n]
  BY <1>2 DEF rank
<1>5. \A k, l \in S : rank[k] = rank[l] => k = l
  <2> SUFFICES ASSUME NEW k \in S, NEW l \in S, rank[k] = rank[l] PROVE k = l
    OBVIOUS
  <2>1. Above(k, l) \/ Above(l, k) \/ k = l
    BY OrderStrict
  <2>2. ~(rank[k] < rank[l]) /\ ~(rank[l] < rank[k])
    <3>1. rank[k] \in 1..n
      BY <1>2
    <3> HIDE DEF n
    <3>2. rank[k] \in Int
      BY <3>1
    <3> QED BY <3>2
  <2> QED BY <1>3, <2>1, <2>2
<1>6. rank \in Surjection(S, 1..n)
  <2>1. rank \in Injection(S, 1..n)
    BY <1>4, <1>5 DEF Injection, IsInjective
  <2>2. IsFiniteSet(1..n) /\ Cardinality(1..n) = n
    BY <1>1, FS_Interval
  <2> HIDE DEF n
  <2>3. Cardinality(S) = Cardinality(1..n)
    BY <2>2 DEF n
  <2> QED BY <2>1, <2>2, <2>3, FS_Injection
<1>7. \A i \in 1..n : \E k \in S : rank[k] = i
  BY <1>6 DEF Surjection
<1> DEFINE s == [i \in 1..n |-> CHOOSE k \in S : rank[k] = i]
<1>8. \A i \in 1..n : s[i] \in S /\ rank[s[i]] = i
  BY <1>7
<1>9. s \in [1..n -> S]
  BY <1>8
<1> HIDE DEF s
<1>10. ASSUME NEW i \in 1..n, NEW j \in 1..n, i < j PROVE Above(s[i], s[j])
  <2>1. s[i] \in S /\ s[j] \in S /\ rank[s[i]] = i /\ rank[s[j]] = j
    BY <1>8
  <2>2. s[i] # s[j] /\ ~(rank[s[j]] < rank[s[i]])
    BY <1>10, <2>1
  <2>3. Above(s[i], s[j]) \/ Above(s[j], s[i]) \/ s[i] = s[j]
    BY <2>1, OrderStrict
  <2> QED BY <1>3, <2>1, <2>2, <2>3
<1> QED BY <1>9, <1>10

\* A sequence in display order.
InOrder(s) == \A i, j \in 1..Len(s) : i < j => Above(s[i], s[j])

\* What Ordered promises: the keys of the set, each once, in display order.
LEMMA OrderedIs ==
  ASSUME NEW S \in SUBSET Key, IsFiniteSet(S)
  PROVE  /\ Ordered(S) \in Seq(S) /\ Len(Ordered(S)) = Cardinality(S) /\ InOrder(Ordered(S))
         /\ \A k \in S : \E i \in 1..Len(Ordered(S)) : Ordered(S)[i] = k
<1> DEFINE n == Cardinality(S)
           s == Ordered(S)
           good(f) == \A i, j \in 1..n : i < j => Above(f[i], f[j])
<1>1. n \in Nat
  BY FS_CardinalityType
<1>2. PICK f \in [1..n -> S] : good(f)
  BY OrderExists
<1>3. \A g \in [1..n -> S] : Len(g) = n
  BY <1>1
<1>4. \A g \in [1..n -> S] : IsSorted(g, Above) <=> good(g)
  BY <1>3 DEF IsSorted
<1>5. s \in [1..n -> S] /\ good(s)
  <2> HIDE DEF n, good
  <2>1. \E g \in [1..n -> S] : IsSorted(g, Above)
    BY <1>2, <1>4
  <2>2. s \in [1..n -> S] /\ IsSorted(s, Above)
    BY <2>1 DEF Ordered, n
  <2> QED BY <1>4, <2>2
<1>6. s \in Seq(S) /\ Len(s) = n
  BY <1>1, <1>3, <1>5
<1> HIDE DEF s
<1>7. \A k \in S : \E i \in 1..n : s[i] = k
  <2>1. \A i, j \in 1..n : s[i] = s[j] => i = j
    <3> SUFFICES ASSUME NEW i \in 1..n, NEW j \in 1..n, s[i] = s[j] PROVE i = j
      OBVIOUS
    <3>1. s[i] \in Key /\ ~Above(s[i], s[i])
      BY <1>5, OrderStrict
    <3>2. ~(i < j) /\ ~(j < i)
      BY <1>5, <3>1
    <3> QED BY <3>2, <1>1
  <2>2. s \in Injection(1..n, S)
    BY <1>5, <2>1 DEF Injection, IsInjective
  <2>3. IsFiniteSet(1..n) /\ Cardinality(1..n) = Cardinality(S)
    BY <1>1, FS_Interval
  <2>4. s \in Surjection(1..n, S)
    <3> HIDE DEF n
    <3> QED BY <2>2, <2>3, FS_Injection
  <2> QED BY <2>4 DEF Surjection
<1> QED BY <1>5, <1>6, <1>7 DEF InOrder, s
-----------------------------------------------------------------------------
(* Pages. *)

\* k stands at or above, or at or below, a key.
AtOrAbove(k, l) == k = l \/ Above(k, l)

\* The first page of the keys of a set: every key down to its last is on it.
LEMMA FirstPageIs ==
  ASSUME NEW S \in SUBSET Key, IsFiniteSet(S), NEW p, p = FirstPage(Ordered(S))
  PROVE  /\ p \in Seq(S) /\ Len(p) <= Page /\ InOrder(p)
         /\ p # <<>> => /\ Len(p) \in Nat \ {0}
                        /\ \A k \in S : AtOrAbove(k, Last(p)) => \E i \in 1..Len(p) : p[i] = k
         /\ S # {} => p # <<>>
<1> DEFINE s == Ordered(S)
           m == IF Len(s) < Page THEN Len(s) ELSE Page
<1>1. s \in Seq(S) /\ InOrder(s) /\ \A k \in S : \E i \in 1..Len(s) : s[i] = k
  BY OrderedIs
<1>2. Len(s) \in Nat /\ Page \in Nat \ {0} /\ m \in 0..Len(s) /\ m <= Page
  BY <1>1, MailInputs
<1>3. p = SubSeq(s, 1, m)
  BY DEF FirstPage
<1> HIDE DEF s
<1> HIDE DEF m
<1>4. p \in Seq(S) /\ Len(p) = m /\ \A i \in 1..m : p[i] = s[i]
  BY <1>1, <1>2, <1>3
<1>5. InOrder(p)
  <2> SUFFICES ASSUME NEW i \in 1..m, NEW j \in 1..m, i < j PROVE Above(p[i], p[j])
    BY <1>4 DEF InOrder
  <2>1. i \in 1..Len(s) /\ j \in 1..Len(s)
    BY <1>2
  <2>2. Above(s[i], s[j])
    BY <1>1, <2>1 DEF InOrder
  <2> QED BY <1>4, <2>2
<1>6. ASSUME p # <<>>, NEW k \in S, AtOrAbove(k, Last(p))
      PROVE  \E i \in 1..m : p[i] = k
  <2>1. m # 0
    BY <1>4, <1>6
  <2>2. Last(p) = s[m] /\ m \in 1..Len(s)
    BY <1>2, <1>4, <2>1 DEF Last
  <2>3. PICK i \in 1..Len(s) : s[i] = k
    BY <1>1
  <2>4. ~(m < i)
    <3>1. s[m] \in Key /\ k \in Key
      BY <1>1, <2>2
    <3>2. ~Above(s[m], k)
      BY <1>6, <2>2, <3>1, OrderStrict DEF AtOrAbove
    <3> QED BY <1>1, <2>2, <2>3, <3>2 DEF InOrder
  <2>5. i \in 1..m
    BY <1>2, <2>3, <2>4
  <2> QED BY <1>4, <2>3, <2>5
<1>7. p # <<>> => m \in Nat \ {0}
  BY <1>2, <1>4
<1>8. S # {} => p # <<>>
  <2> SUFFICES ASSUME S # {} PROVE p # <<>>
    OBVIOUS
  <2>1. Len(s) # 0
    BY <1>1, <1>2
  <2>2. m # 0
    BY <1>2, <2>1 DEF m
  <2> QED BY <1>4, <2>2
<1> QED BY <1>2, <1>4, <1>5, <1>6, <1>7, <1>8

\* The last page: every key up from its first is on it.
LEMMA LastPageIs ==
  ASSUME NEW S \in SUBSET Key, IsFiniteSet(S), NEW p, p = LastPage(Ordered(S))
  PROVE  /\ p \in Seq(S) /\ Len(p) <= Page /\ InOrder(p)
         /\ p # <<>> => /\ Len(p) \in Nat \ {0}
                        /\ \A k \in S : AtOrAbove(p[1], k) => \E i \in 1..Len(p) : p[i] = k
<1> DEFINE s == Ordered(S)
           n == Len(s)
           r == Reverse(s)
           m == IF n < Page THEN n ELSE Page
           q == SubSeq(r, 1, m)
<1>1. s \in Seq(S) /\ InOrder(s) /\ \A k \in S : \E i \in 1..n : s[i] = k
  BY OrderedIs
<1>2. n \in Nat /\ Page \in Nat \ {0} /\ m \in 0..n /\ m <= Page
  BY <1>1, MailInputs
<1>3. r \in Seq(S) /\ Len(r) = n /\ \A i \in 1..n : r[i] = s[(n - i) + 1]
  <2>1. r = [i \in 1..n |-> s[(n - i) + 1]]
    BY DEF Reverse
  <2>2. \A i \in 1..n : s[(n - i) + 1] \in S
    BY <1>1, <1>2
  <2> HIDE DEF s, n, r
  <2>3. r \in [1..n -> S]
    BY <2>1, <2>2
  <2> QED BY <1>2, <2>1, <2>3
<1>4. p = Reverse(q)
  BY <1>3 DEF LastPage, FirstPage
<1> HIDE DEF s, n, r, m
<1>5. q \in Seq(S) /\ Len(q) = m /\ \A i \in 1..m : q[i] = r[i]
  BY <1>2, <1>3
<1> HIDE DEF q
<1>6. p \in Seq(S) /\ Len(p) = m /\ \A i \in 1..m : p[i] = q[(m - i) + 1]
  <2>1. p = [i \in 1..m |-> q[(m - i) + 1]]
    BY <1>4, <1>5 DEF Reverse
  <2>2. \A i \in 1..m : q[(m - i) + 1] \in S
    BY <1>2, <1>5
  <2>3. p \in [1..m -> S]
    BY <2>1, <2>2
  <2> QED BY <1>2, <2>1, <2>3
<1>7. \A i \in 1..m : p[i] = s[(n - m) + i] /\ (n - m) + i \in 1..n
  <2> SUFFICES ASSUME NEW i \in 1..m PROVE p[i] = s[(n - m) + i] /\ (n - m) + i \in 1..n
    OBVIOUS
  <2>1. (m - i) + 1 \in 1..m /\ (m - i) + 1 \in 1..n
    BY <1>2
  <2>2. p[i] = s[(n - ((m - i) + 1)) + 1]
    BY <1>3, <1>5, <1>6, <2>1
  <2>3. (n - ((m - i) + 1)) + 1 = (n - m) + i
    BY <1>2
  <2> QED BY <1>2, <2>2, <2>3
<1>8. InOrder(p)
  <2> SUFFICES ASSUME NEW i \in 1..m, NEW j \in 1..m, i < j PROVE Above(p[i], p[j])
    BY <1>6 DEF InOrder
  <2>1. (n - m) + i < (n - m) + j
    BY <1>2
  <2> QED BY <1>1, <1>7, <2>1 DEF InOrder, n
<1>9. ASSUME p # <<>>, NEW k \in S, AtOrAbove(p[1], k)
      PROVE  \E i \in 1..m : p[i] = k
  <2>1. m # 0
    BY <1>6, <1>9
  <2>2. 1 \in 1..m /\ p[1] = s[(n - m) + 1] /\ (n - m) + 1 \in 1..n
    BY <1>2, <1>7, <2>1
  <2>3. PICK i \in 1..n : s[i] = k
    BY <1>1
  <2>4. ~(i < (n - m) + 1)
    <3>1. p[1] \in Key /\ k \in Key
      BY <1>6, <2>2
    <3>2. ~Above(k, p[1])
      BY <1>9, <3>1, OrderStrict DEF AtOrAbove
    <3> QED BY <1>1, <2>2, <2>3, <3>2 DEF InOrder, n
  <2>5. i - (n - m) \in 1..m /\ (n - m) + (i - (n - m)) = i
    BY <1>2, <2>3, <2>4
  <2> QED BY <1>7, <2>3, <2>5
<1>10. p # <<>> => m \in Nat \ {0}
  BY <1>2, <1>6
<1> QED BY <1>2, <1>6, <1>8, <1>9, <1>10
-----------------------------------------------------------------------------
(* The window. *)

Window == [sid : Mailbox \cup {"none"}, box : Nat, rows : Seq(Key), still : SUBSET (1..MaxRow)]
KeyOf(ms, r) == [msg |-> r, at |-> ms[r].at]

\* The window is in order; what it still answers for is in its mailbox, shown
\* under its present date, and on it if between its edges.
WindowOK(w, ms, bs) ==
  /\ w \in Window /\ Len(w.rows) <= MaxWalk /\ InOrder(w.rows)
  /\ \A r \in w.still :
       /\ r \in DOMAIN ms /\ w.box \in DOMAIN bs
       /\ bs[w.box].sid = w.sid /\ w.sid \in ms[r].within
  /\ \A i \in 1..Len(w.rows) : w.rows[i].msg \in w.still => w.rows[i] = KeyOf(ms, w.rows[i].msg)
  /\ w.rows # <<>> =>
       \A r \in w.still :
         AtOrAbove(w.rows[1], KeyOf(ms, r)) /\ AtOrAbove(KeyOf(ms, r), Last(w.rows))
           => \E i \in 1..Len(w.rows) : w.rows[i].msg = r

Windowed == WindowOK(walk, msgs, boxes)

\* The keys of a mailbox.
LEMMA KeysIn ==
  ASSUME Data, NEW b
  PROVE  /\ In(b) \in SUBSET Key /\ IsFiniteSet(In(b))
         /\ \A k \in In(b) : /\ k.msg \in DOMAIN msgs /\ k = KeyOf(msgs, k.msg)
                             /\ b \in DOMAIN boxes /\ boxes[b].sid \in msgs[k.msg].within
         /\ \A r \in DOMAIN msgs : b \in DOMAIN boxes /\ boxes[b].sid \in msgs[r].within => KeyOf(msgs, r) \in In(b)
<1>1. msgs \in [DOMAIN msgs -> MsgRow] /\ DOMAIN msgs \subseteq 1..MaxRow
  BY DEF Data, Tables, Table
<1>2. ASSUME NEW r \in DOMAIN msgs PROVE KeyOf(msgs, r) \in Key
  <2>1. msgs[r].at \in Date
    BY <1>1 DEF MsgRow
  <2>2. msgs[r].at \in Nat /\ r \in Nat
    BY <1>1, <2>1, MailInputs
  <2> QED BY <2>2 DEF KeyOf, Key
<1>3. ASSUME NEW k \in In(b)
      PROVE  /\ k.msg \in DOMAIN msgs /\ k = KeyOf(msgs, k.msg)
             /\ b \in DOMAIN boxes /\ boxes[b].sid \in msgs[k.msg].within
  <2>1. PICK x \in members : x.box = b /\ k = [msg |-> x.msg, at |-> x.at]
    BY DEF In
  <2>2. PICK r \in DOMAIN msgs, c \in DOMAIN boxes :
          /\ boxes[c].sid \in msgs[r].within
          /\ x = [msg |-> r, box |-> c, at |-> msgs[r].at, unread |-> Unread(msgs[r].flags)]
    BY MembersAre DEF Data
  <2> QED BY <2>1, <2>2 DEF KeyOf
<1>4. ASSUME NEW r \in DOMAIN msgs, b \in DOMAIN boxes, boxes[b].sid \in msgs[r].within
      PROVE  KeyOf(msgs, r) \in In(b)
  <2> DEFINE x == [msg |-> r, box |-> b, at |-> msgs[r].at, unread |-> Unread(msgs[r].flags)]
  <2>1. x \in members
    BY <1>4, MembersAre DEF Data
  <2>2. x.box = b /\ KeyOf(msgs, r) = [msg |-> x.msg, at |-> x.at]
    BY DEF KeyOf
  <2> QED BY <2>1, <2>2 DEF In
<1>5. IsFiniteSet(In(b))
  <2>1. IsFiniteSet(1..MaxRow)
    BY FS_Interval, MailInputs
  <2>2. IsFiniteSet(DOMAIN msgs)
    BY <1>1, <2>1, FS_Subset
  <2>3. IsFiniteSet({KeyOf(msgs, r) : r \in DOMAIN msgs})
    <3> DEFINE T == {KeyOf(msgs, r) : r \in DOMAIN msgs}
               f == [r \in DOMAIN msgs |-> KeyOf(msgs, r)]
    <3>1. f \in Surjection(DOMAIN msgs, T)
      BY DEF Surjection
    <3> HIDE DEF T, f
    <3>2. IsFiniteSet(T)
      BY <2>2, <3>1, FS_Surjection
    <3> QED BY <3>2 DEF T
  <2>4. In(b) \in SUBSET {KeyOf(msgs, r) : r \in DOMAIN msgs}
    BY <1>3
  <2> QED BY <2>3, <2>4, FS_Subset
<1> QED BY <1>2, <1>3, <1>4, <1>5

\* Where the window is shown, the invariant says what the property asks.
LEMMA WindowedWhole == Windowed => WindowWhole
<1> SUFFICES ASSUME Windowed, walk.rows # <<>>
             PROVE  LET stays == {i \in DOMAIN walk.rows : walk.rows[i].msg \in walk.still}
                        between(r) == LET k == [msg |-> r, at |-> msgs[r].at] IN
                          /\ k = walk.rows[1] \/ Above(walk.rows[1], k)
                          /\ k = Last(walk.rows) \/ Above(k, Last(walk.rows))
                    IN /\ \A i, j \in stays : i < j => Above(walk.rows[i], walk.rows[j])
                       /\ \A r \in walk.still : between(r) => \E i \in stays : walk.rows[i].msg = r
  BY DEF WindowWhole
<1>1. walk.rows \in Seq(Key) /\ DOMAIN walk.rows = 1..Len(walk.rows)
  BY DEF Windowed, WindowOK, Window
<1> QED BY <1>1 DEF Windowed, WindowOK, InOrder, KeyOf, AtOrAbove

\* A write after which every message the window answers for is where it was.
Unmoved(w, v, ms, ns, bs, cs) ==
  /\ v \in Window /\ v.rows = w.rows /\ v.box = w.box /\ v.sid = w.sid /\ v.still \subseteq w.still
  /\ \A r \in v.still : r \in DOMAIN ns /\ ns[r].at = ms[r].at /\ ns[r].within = ms[r].within
  /\ v.still # {} => w.box \in DOMAIN cs /\ cs[w.box].sid = bs[w.box].sid

LEMMA WindowUnmoved ==
  ASSUME NEW w, NEW v, NEW ms, NEW ns, NEW bs, NEW cs,
         WindowOK(w, ms, bs), Unmoved(w, v, ms, ns, bs, cs)
  PROVE  WindowOK(v, ns, cs)
<1>1. \A r \in v.still : KeyOf(ns, r) = KeyOf(ms, r) /\ r \in w.still
  BY DEF Unmoved, KeyOf
<1>2. v \in Window /\ Len(v.rows) <= MaxWalk /\ InOrder(v.rows)
  BY DEF Unmoved, WindowOK
<1>3. \A r \in v.still :
       /\ r \in DOMAIN ns /\ v.box \in DOMAIN cs
       /\ cs[v.box].sid = v.sid /\ v.sid \in ns[r].within
  BY <1>1 DEF Unmoved, WindowOK
<1>4. \A i \in 1..Len(v.rows) : v.rows[i].msg \in v.still => v.rows[i] = KeyOf(ns, v.rows[i].msg)
  BY <1>1 DEF Unmoved, WindowOK
<1>5. v.rows # <<>> =>
       \A r \in v.still :
         AtOrAbove(v.rows[1], KeyOf(ns, r)) /\ AtOrAbove(KeyOf(ns, r), Last(v.rows))
           => \E i \in 1..Len(v.rows) : v.rows[i].msg = r
  BY <1>1 DEF Unmoved, WindowOK
<1> QED BY <1>2, <1>3, <1>4, <1>5 DEF WindowOK

LEMMA WindowMoved ==
  ASSUME walk \in Window, NEW rs, Moved(rs)
  PROVE  /\ walk' \in Window /\ walk'.rows = walk.rows /\ walk'.box = walk.box /\ walk'.sid = walk.sid
         /\ walk'.still = walk.still \ rs
<1>1. walk' = [walk EXCEPT !.still = walk.still \ rs]
  BY DEF Moved, Window
<1>2. walk.still \ rs \in SUBSET (1..MaxRow)
  BY DEF Window
<1>3. walk' \in Window
  BY <1>1, <1>2, Zenon DEF Window
<1>4. /\ walk'.rows = walk.rows /\ walk'.box = walk.box /\ walk'.sid = walk.sid
      /\ walk'.still = walk.still \ rs
  BY <1>1, SMT DEF Window
<1> QED BY <1>3, <1>4

LEMMA InsertedKeeps ==
  ASSUME Data, NEW s \in Mailbox, NEW look \in Look, InsertMailbox(s, look)
  PROVE  \A x \in DOMAIN boxes : x \in DOMAIN boxes' /\ boxes'[x].sid = boxes[x].sid
<1> DEFINE b == NextId(boxes)
           row == [sid |-> s, look |-> look, role |-> ""]
           t == With(boxes, b, row)
<1>1. boxes' = Classified(t) /\ b \notin DOMAIN boxes
  BY NewId DEF InsertMailbox, Resolved, Data, Tables
<1>2. row \in BoxRow
  BY DEF BoxRow, Roles
<1> HIDE DEF b, row
<1>3. /\ DOMAIN t = DOMAIN boxes \cup {b} /\ t \in [DOMAIN t -> BoxRow]
      /\ \A x \in DOMAIN boxes : t[x] = boxes[x]
  <2>1. boxes \in [DOMAIN boxes -> BoxRow]
    BY DEF Data, Tables, Table
  <2> QED BY <1>1, <1>2, <2>1 DEF With
<1> HIDE DEF t
<1> QED BY <1>1, <1>3, Reclassified

LEMMA WindowedUpsertMailbox ==
  ASSUME Data, Windowed, UpsertMailbox
  PROVE  Windowed'
<1>1. UNCHANGED <<msgs, walk>>
  BY DEF UpsertMailbox
<1>2. \A x \in DOMAIN boxes : x \in DOMAIN boxes' /\ boxes'[x].sid = boxes[x].sid
  BY DataUpdated, InsertedKeeps DEF UpsertMailbox
<1>3. \A r \in walk.still : r \in DOMAIN msgs /\ walk.box \in DOMAIN boxes
  BY DEF Windowed, WindowOK
<1>4. Unmoved(walk, walk', msgs, msgs', boxes, boxes')
  BY <1>1, <1>2, <1>3 DEF Unmoved, Windowed, WindowOK
<1> QED BY <1>4, WindowUnmoved DEF Windowed

LEMMA WindowedDropMailbox ==
  ASSUME Data, Windowed, DropMailbox
  PROVE  Windowed'
<1>1. PICK s \in Mailbox :
        /\ DeleteMailbox(s) /\ UNCHANGED msgs
        /\ IF walk.sid = s THEN Moved(walk.still) ELSE UNCHANGED walk
  BY DEF DropMailbox
<1>2. walk \in Window
  BY DEF Windowed, WindowOK
<1>3. /\ DOMAIN boxes' = DOMAIN boxes \ IdOf(boxes, s)
      /\ \A x \in DOMAIN boxes' : boxes'[x] = boxes[x]
  BY <1>1 DEF DeleteMailbox, Without
<1>4. CASE walk.sid = s
  <2>1. walk'.still = {} /\ walk' \in Window /\ walk'.rows = walk.rows /\ walk'.box = walk.box /\ walk'.sid = walk.sid
    <3>1. Moved(walk.still)
      BY <1>1, <1>4
    <3> QED BY <1>2, <3>1, WindowMoved
  <2>2. Unmoved(walk, walk', msgs, msgs', boxes, boxes')
    BY <2>1 DEF Unmoved
  <2> QED BY <2>2, WindowUnmoved DEF Windowed
<1>5. CASE walk.sid # s
  <2>1. \A r \in walk.still : r \in DOMAIN msgs /\ walk.box \in DOMAIN boxes /\ boxes[walk.box].sid = walk.sid
    BY DEF Windowed, WindowOK
  <2>2. \A r \in walk.still : walk.box \notin IdOf(boxes, s)
    BY <1>5, <2>1 DEF IdOf
  <2>3. Unmoved(walk, walk', msgs, msgs', boxes, boxes')
    BY <1>1, <1>2, <1>3, <1>5, <2>1, <2>2 DEF Unmoved
  <2> QED BY <2>3, WindowUnmoved DEF Windowed
<1> QED BY <1>4, <1>5

LEMMA WindowedUpsertMessage ==
  ASSUME Data, Windowed, UpsertMessage
  PROVE  Windowed'
<1>1. PICK s \in Message, at \in Date, flags \in SUBSET {"seen"}, within \in SUBSET Mailbox :
        LET known == IdOf(msgs, s)
            r == IF known = {} THEN NextId(msgs) ELSE Max(known)
            m == [sid |-> s, at |-> at, flags |-> flags, within |-> within]
        IN /\ msgs' = With(msgs, r, m) /\ UNCHANGED boxes
           /\ IF r \in DOMAIN msgs /\ msgs[r].at = at /\ msgs[r].within = within THEN UNCHANGED walk ELSE Moved({r})
  BY DEF UpsertMessage
<1> DEFINE known == IdOf(msgs, s)
           r == IF known = {} THEN NextId(msgs) ELSE Max(known)
           m == [sid |-> s, at |-> at, flags |-> flags, within |-> within]
<1>2. m.at = at /\ m.within = within
  OBVIOUS
<1>3. msgs' = With(msgs, r, m) /\ UNCHANGED boxes
  BY <1>1
<1>4. IF r \in DOMAIN msgs /\ msgs[r].at = at /\ msgs[r].within = within THEN UNCHANGED walk ELSE Moved({r})
  BY <1>1
<1> HIDE DEF r, m
<1>5. \A x \in walk.still :
        x \in DOMAIN msgs /\ walk.box \in DOMAIN boxes
  BY DEF Windowed, WindowOK
<1>6. DOMAIN msgs' = DOMAIN msgs \cup {r} /\ msgs'[r] = m /\ \A x \in DOMAIN msgs \ {r} : msgs'[x] = msgs[x]
  BY <1>3 DEF With
<1>7. walk \in Window
  BY DEF Windowed, WindowOK
<1>8. CASE r \in DOMAIN msgs /\ msgs[r].at = at /\ msgs[r].within = within
  <2>1. UNCHANGED walk
    BY <1>4, <1>8
  <2>2. \A x \in walk.still : msgs'[x].at = msgs[x].at /\ msgs'[x].within = msgs[x].within
    BY <1>2, <1>5, <1>6, <1>8
  <2>3. Unmoved(walk, walk', msgs, msgs', boxes, boxes')
    BY <1>3, <1>5, <1>6, <1>7, <2>1, <2>2 DEF Unmoved
  <2> QED BY <2>3, WindowUnmoved DEF Windowed
<1>9. CASE ~(r \in DOMAIN msgs /\ msgs[r].at = at /\ msgs[r].within = within)
  <2>1. Moved({r})
    BY <1>4, <1>9
  <2>2. /\ walk' \in Window /\ walk'.rows = walk.rows /\ walk'.box = walk.box /\ walk'.sid = walk.sid
        /\ walk'.still = walk.still \ {r}
    BY <1>7, <2>1, WindowMoved
  <2>3. Unmoved(walk, walk', msgs, msgs', boxes, boxes')
    BY <1>3, <1>5, <1>6, <2>2 DEF Unmoved
  <2> QED BY <2>3, WindowUnmoved DEF Windowed
<1> QED BY <1>8, <1>9

LEMMA WindowedDeleteMessage ==
  ASSUME Data, Windowed, DeleteMessage
  PROVE  Windowed'
<1>1. PICK r \in DOMAIN msgs : msgs' = Without(msgs, {r}) /\ Moved({r}) /\ UNCHANGED boxes
  BY DEF DeleteMessage
<1>2. walk \in Window
  BY DEF Windowed, WindowOK
<1>3. /\ walk' \in Window /\ walk'.rows = walk.rows /\ walk'.box = walk.box /\ walk'.sid = walk.sid
      /\ walk'.still = walk.still \ {r}
  BY <1>1, <1>2, WindowMoved
<1>4. DOMAIN msgs' = DOMAIN msgs \ {r} /\ \A x \in DOMAIN msgs \ {r} : msgs'[x] = msgs[x]
  BY <1>1 DEF Without
<1>5. \A x \in walk.still : x \in DOMAIN msgs /\ walk.box \in DOMAIN boxes
  BY DEF Windowed, WindowOK
<1>6. Unmoved(walk, walk', msgs, msgs', boxes, boxes')
  BY <1>1, <1>3, <1>4, <1>5 DEF Unmoved
<1> QED BY <1>6, WindowUnmoved DEF Windowed
LEMMA WindowedOpenWalk ==
  ASSUME Data, Windowed, OpenWalk
  PROVE  Windowed'
<1>1. PICK b \in DOMAIN boxes :
        LET page == FirstPage(Ordered(In(b))) IN
        /\ page # <<>>
        /\ walk' = [sid |-> boxes[b].sid, box |-> b, rows |-> page, still |-> {k.msg : k \in In(b)}]
        /\ UNCHANGED <<boxes, msgs, members>>
  BY DEF OpenWalk
<1> DEFINE page == FirstPage(Ordered(In(b)))
           still == {k.msg : k \in In(b)}
<1>2. /\ In(b) \in SUBSET Key /\ IsFiniteSet(In(b))
      /\ \A k \in In(b) : /\ k.msg \in DOMAIN msgs /\ k = KeyOf(msgs, k.msg)
                          /\ boxes[b].sid \in msgs[k.msg].within
  BY KeysIn
<1>3. /\ page \in Seq(In(b)) /\ Len(page) <= Page /\ InOrder(page) /\ page # <<>> /\ Len(page) \in Nat
      /\ \A k \in In(b) : AtOrAbove(k, Last(page)) => \E i \in 1..Len(page) : page[i] = k
  BY <1>1, <1>2, FirstPageIs
<1>4. walk' = [sid |-> boxes[b].sid, box |-> b, rows |-> page, still |-> still]
  BY <1>1
<1> HIDE DEF page
<1>5. \A i \in 1..Len(page) : page[i] \in In(b)
  BY <1>3
<1>6. \A r \in still : KeyOf(msgs, r) \in In(b) /\ r \in DOMAIN msgs /\ boxes[b].sid \in msgs[r].within
  BY <1>2
<1>7. walk' \in Window
  <2>1. boxes[b].sid \in Mailbox /\ b \in Nat /\ DOMAIN msgs \subseteq 1..MaxRow
    BY MailInputs DEF Data, Tables, Table, BoxRow
  <2>2. page \in Seq(Key)
    BY <1>2, <1>3
  <2> HIDE DEF still
  <2>3. still \in SUBSET (1..MaxRow)
    BY <1>6, <2>1
  <2> QED BY <1>4, <2>1, <2>2, <2>3 DEF Window
<1>8. Len(page) <= MaxWalk
  BY <1>3, MailInputs
<1>9. \A i \in 1..Len(page) : page[i] = KeyOf(msgs, page[i].msg)
  BY <1>2, <1>5
<1>10. \A r \in still : AtOrAbove(KeyOf(msgs, r), Last(page)) => \E i \in 1..Len(page) : page[i].msg = r
  BY <1>3, <1>6 DEF KeyOf
<1> HIDE DEF still
<1>11. WindowOK(walk', msgs, boxes)
  BY <1>3, <1>4, <1>6, <1>7, <1>8, <1>9, <1>10 DEF WindowOK
<1> QED BY <1>1, <1>11 DEF Windowed

LEMMA CursorsSplit ==
  ASSUME Data, NEW b, NEW c \in Key
  PROVE  /\ Older(b, c) = {k \in In(b) : Above(c, k)}
         /\ Newer(b, c) = {k \in In(b) : Above(k, c)}
<1>1. ASSUME NEW k \in In(b)
      PROVE  /\ (k.at <= c.at /\ (k.at < c.at \/ k.msg > c.msg)) <=> Above(c, k)
             /\ (k.at >= c.at /\ (k.at > c.at \/ k.msg < c.msg)) <=> Above(k, c)
  <2>1. k \in Key
    BY KeysIn
  <2>2. k.at \in Nat /\ k.msg \in Nat /\ c.at \in Nat /\ c.msg \in Nat
    BY <2>1 DEF Key
  <2> QED BY <2>2 DEF Above
<1> QED BY <1>1 DEF Older, Newer

\* What a page adds to the window, and the window it makes.
LEMMA WindowScrolled ==
  ASSUME walk \in Window, NEW rows, NEW grow \in Seq(Key), Scroll(rows, grow)
  PROVE  /\ walk' = [sid |-> walk.sid, box |-> walk.box, rows |-> grow, still |-> walk.still]
         /\ walk' \in Window /\ UNCHANGED <<boxes, msgs, members>>
         /\ walk.rows # <<>> /\ rows # <<>> /\ Len(walk.rows) + Len(rows) <= MaxWalk
<1>1. walk' = [walk EXCEPT !.rows = grow]
  BY DEF Scroll
<1>2. walk' = [sid |-> walk.sid, box |-> walk.box, rows |-> grow, still |-> walk.still]
  BY <1>1 DEF Window
<1> QED BY <1>2 DEF Window, Scroll

LEMMA WindowedForward ==
  ASSUME Data, Windowed, ListMailboxForward
  PROVE  Windowed'
<1> DEFINE rows == walk.rows
           n == Len(rows)
           S == Older(walk.box, Last(rows))
           page == FirstPage(Ordered(S))
           m == Len(page)
           grow == rows \o page
<1>1. rows # <<>> /\ Scroll(page, grow)
  BY DEF ListMailboxForward
<1>2. walk \in Window /\ rows \in Seq(Key) /\ InOrder(rows)
  BY DEF Windowed, WindowOK, Window
<1>3. n \in Nat \ {0} /\ Last(rows) = rows[n] /\ rows[n] \in Key /\ rows[1] \in Key
  BY <1>1, <1>2 DEF Last
<1>4. /\ In(walk.box) \in SUBSET Key /\ IsFiniteSet(In(walk.box))
      /\ \A k \in In(walk.box) : k.msg \in DOMAIN msgs /\ k = KeyOf(msgs, k.msg)
  BY KeysIn
<1>5. S = {k \in In(walk.box) : Above(rows[n], k)}
  BY <1>3, CursorsSplit
<1>6. S \in SUBSET Key /\ IsFiniteSet(S)
  <2>1. S \in SUBSET In(walk.box)
    BY <1>5
  <2> HIDE DEF S
  <2> QED BY <1>4, <2>1, FS_Subset
<1> HIDE DEF S
<1>7. /\ page \in Seq(S) /\ InOrder(page)
      /\ page # <<>> => /\ m \in Nat \ {0}
                        /\ \A k \in S : AtOrAbove(k, Last(page)) => \E i \in 1..m : page[i] = k
  BY <1>6, FirstPageIs
<1> HIDE DEF page
<1>8. grow \in Seq(Key)
  <2>1. page \in Seq(Key)
    BY <1>6, <1>7
  <2> QED BY <1>2, <2>1
<1>9. /\ walk' = [sid |-> walk.sid, box |-> walk.box, rows |-> grow, still |-> walk.still]
      /\ walk' \in Window /\ UNCHANGED <<boxes, msgs, members>>
      /\ page # <<>> /\ n + m <= MaxWalk
  BY <1>1, <1>2, <1>8, WindowScrolled
<1>10. m \in Nat \ {0} /\ \A i \in 1..m : page[i] \in S
  BY <1>7, <1>9
<1>11. /\ Len(grow) = n + m
       /\ \A i \in 1..n : grow[i] = rows[i]
       /\ \A i \in 1..m : grow[n + i] = page[i]
  BY <1>2, <1>6, <1>7
<1>12. \A i \in 1..(n + m) : i \in 1..n \/ (i - n \in 1..m /\ grow[i] = page[i - n])
  <2> SUFFICES ASSUME NEW i \in 1..(n + m), i \notin 1..n PROVE i - n \in 1..m /\ grow[i] = page[i - n]
    OBVIOUS
  <2>1. i - n \in 1..m /\ n + (i - n) = i
    BY <1>3, <1>10
  <2> QED BY <1>11, <2>1
<1> HIDE DEF grow
<1>13. \A i \in 1..n, k \in S : Above(rows[i], k)
  <2> SUFFICES ASSUME NEW i \in 1..n, NEW k \in S PROVE Above(rows[i], k)
    OBVIOUS
  <2>1. rows[i] \in Key /\ k \in Key /\ Above(rows[n], k)
    BY <1>2, <1>5, <1>6
  <2>2. i = n \/ Above(rows[i], rows[n])
    BY <1>2, <1>3 DEF InOrder
  <2> QED BY <1>3, <2>1, <2>2, OrderTransitive
<1>14. InOrder(grow)
  <2> SUFFICES ASSUME NEW i \in 1..(n + m), NEW j \in 1..(n + m), i < j PROVE Above(grow[i], grow[j])
    BY <1>11 DEF InOrder
  <2>1. CASE j \in 1..n
    <3>1. i \in 1..n
      BY <2>1
    <3> QED BY <1>2, <1>11, <2>1, <3>1 DEF InOrder
  <2>2. CASE j \notin 1..n /\ i \in 1..n
    BY <1>10, <1>11, <1>12, <1>13, <2>2
  <2>3. CASE j \notin 1..n /\ i \notin 1..n
    <3>1. /\ i - n \in 1..m /\ grow[i] = page[i - n] /\ j - n \in 1..m /\ grow[j] = page[j - n]
          /\ i - n < j - n
      BY <1>3, <1>12, <2>3
    <3> QED BY <1>7, <3>1 DEF InOrder
  <2> QED BY <2>1, <2>2, <2>3
<1>15. \A i \in 1..(n + m) : grow[i].msg \in walk.still => grow[i] = KeyOf(msgs, grow[i].msg)
  <2> SUFFICES ASSUME NEW i \in 1..(n + m), grow[i].msg \in walk.still
               PROVE  grow[i] = KeyOf(msgs, grow[i].msg)
    OBVIOUS
  <2>1. CASE i \in 1..n
    BY <1>11, <2>1 DEF Windowed, WindowOK
  <2>2. CASE i \notin 1..n
    <3>1. grow[i] \in In(walk.box)
      BY <1>5, <1>10, <1>12, <2>2
    <3> QED BY <1>4, <3>1
  <2> QED BY <2>1, <2>2
<1>16. ASSUME NEW r \in walk.still, AtOrAbove(grow[1], KeyOf(msgs, r)), AtOrAbove(KeyOf(msgs, r), Last(grow))
       PROVE  \E i \in 1..(n + m) : grow[i].msg = r
  <2> DEFINE k == KeyOf(msgs, r)
  <2>1. k \in In(walk.box) /\ k \in Key /\ k.msg = r
    <3>1. r \in DOMAIN msgs /\ walk.box \in DOMAIN boxes /\ boxes[walk.box].sid \in msgs[r].within
      BY DEF Windowed, WindowOK
    <3>2. k \in In(walk.box)
      BY <3>1, KeysIn
    <3> QED BY <1>4, <3>2 DEF KeyOf
  <2>2. grow[1] = rows[1] /\ Last(grow) = page[m] /\ Last(page) = page[m]
    BY <1>3, <1>10, <1>11 DEF Last
  <2> HIDE DEF k
  <2>3. CASE AtOrAbove(k, rows[n])
    <3>1. \E i \in 1..n : rows[i].msg = r
      BY <1>1, <1>3, <1>16, <2>2, <2>3 DEF Windowed, WindowOK, k
    <3> QED BY <1>3, <1>10, <1>11, <3>1
  <2>4. CASE ~AtOrAbove(k, rows[n])
    <3>1. Above(rows[n], k)
      BY <1>3, <2>1, <2>4, OrderStrict DEF AtOrAbove
    <3>2. k \in S
      BY <1>5, <2>1, <3>1
    <3>3. PICK i \in 1..m : page[i] = k
      BY <1>7, <1>9, <1>16, <2>2, <3>2 DEF k
    <3>4. n + i \in 1..(n + m)
      BY <1>3, <1>10
    <3> QED BY <1>11, <2>1, <3>3, <3>4
  <2> QED BY <2>3, <2>4
<1> DEFINE w == walk'
<1>17. w.rows = grow /\ w.still = walk.still /\ w.box = walk.box /\ w.sid = walk.sid
  BY <1>9
<1>18. w \in Window /\ UNCHANGED <<boxes, msgs>>
  BY <1>9
<1> HIDE DEF w, n, m
<1>19. WindowOK(w, msgs, boxes)
  BY <1>9, <1>11, <1>14, <1>15, <1>16, <1>17, <1>18 DEF WindowOK, Windowed
<1> QED BY <1>18, <1>19 DEF Windowed, w
LEMMA WindowedBackward ==
  ASSUME Data, Windowed, ListMailboxBackward
  PROVE  Windowed'
<1> DEFINE rows == walk.rows
           n == Len(rows)
           S == Newer(walk.box, rows[1])
           page == LastPage(Ordered(S))
           m == Len(page)
           grow == page \o rows
<1>1. rows # <<>> /\ Scroll(page, grow)
  BY DEF ListMailboxBackward
<1>2. walk \in Window /\ rows \in Seq(Key) /\ InOrder(rows)
  BY DEF Windowed, WindowOK, Window
<1>3. n \in Nat \ {0} /\ Last(rows) = rows[n] /\ rows[n] \in Key /\ rows[1] \in Key
  BY <1>1, <1>2 DEF Last
<1>4. /\ In(walk.box) \in SUBSET Key /\ IsFiniteSet(In(walk.box))
      /\ \A k \in In(walk.box) : k.msg \in DOMAIN msgs /\ k = KeyOf(msgs, k.msg)
  BY KeysIn
<1>5. S = {k \in In(walk.box) : Above(k, rows[1])}
  BY <1>3, CursorsSplit
<1>6. S \in SUBSET Key /\ IsFiniteSet(S)
  <2>1. S \in SUBSET In(walk.box)
    BY <1>5
  <2> HIDE DEF S
  <2> QED BY <1>4, <2>1, FS_Subset
<1> HIDE DEF S
<1>7. /\ page \in Seq(S) /\ InOrder(page)
      /\ page # <<>> => /\ m \in Nat \ {0}
                        /\ \A k \in S : AtOrAbove(page[1], k) => \E i \in 1..m : page[i] = k
  BY <1>6, LastPageIs
<1> HIDE DEF page
<1>8. grow \in Seq(Key)
  <2>1. page \in Seq(Key)
    BY <1>6, <1>7
  <2> QED BY <1>2, <2>1
<1>9. /\ walk' = [sid |-> walk.sid, box |-> walk.box, rows |-> grow, still |-> walk.still]
      /\ walk' \in Window /\ UNCHANGED <<boxes, msgs, members>>
      /\ page # <<>> /\ n + m <= MaxWalk
  BY <1>1, <1>2, <1>8, WindowScrolled
<1>10. m \in Nat \ {0} /\ \A i \in 1..m : page[i] \in S
  BY <1>7, <1>9
<1>11. /\ Len(grow) = m + n
       /\ \A i \in 1..m : grow[i] = page[i]
       /\ \A i \in 1..n : grow[m + i] = rows[i]
  BY <1>2, <1>6, <1>7
<1>12. \A i \in 1..(m + n) : i \in 1..m \/ (i - m \in 1..n /\ grow[i] = rows[i - m])
  <2> SUFFICES ASSUME NEW i \in 1..(m + n), i \notin 1..m PROVE i - m \in 1..n /\ grow[i] = rows[i - m]
    OBVIOUS
  <2>1. i - m \in 1..n /\ m + (i - m) = i
    BY <1>3, <1>10
  <2> QED BY <1>11, <2>1
<1> HIDE DEF grow
<1>13. \A i \in 1..n, k \in S : Above(k, rows[i])
  <2> SUFFICES ASSUME NEW i \in 1..n, NEW k \in S PROVE Above(k, rows[i])
    OBVIOUS
  <2>1. rows[i] \in Key /\ k \in Key /\ Above(k, rows[1])
    BY <1>2, <1>5, <1>6
  <2>2. i = 1 \/ Above(rows[1], rows[i])
    BY <1>2, <1>3 DEF InOrder
  <2> QED BY <1>3, <2>1, <2>2, OrderTransitive
<1>14. InOrder(grow)
  <2> SUFFICES ASSUME NEW i \in 1..(m + n), NEW j \in 1..(m + n), i < j PROVE Above(grow[i], grow[j])
    BY <1>11 DEF InOrder
  <2>1. CASE j \in 1..m
    <3>1. i \in 1..m
      BY <2>1
    <3> QED BY <1>7, <1>11, <2>1, <3>1 DEF InOrder
  <2>2. CASE j \notin 1..m /\ i \in 1..m
    BY <1>10, <1>11, <1>12, <1>13, <2>2
  <2>3. CASE j \notin 1..m /\ i \notin 1..m
    <3>1. /\ i - m \in 1..n /\ grow[i] = rows[i - m] /\ j - m \in 1..n /\ grow[j] = rows[j - m]
          /\ i - m < j - m
      BY <1>10, <1>12, <2>3
    <3> QED BY <1>2, <3>1 DEF InOrder
  <2> QED BY <2>1, <2>2, <2>3
<1>15. \A i \in 1..(m + n) : grow[i].msg \in walk.still => grow[i] = KeyOf(msgs, grow[i].msg)
  <2> SUFFICES ASSUME NEW i \in 1..(m + n), grow[i].msg \in walk.still
               PROVE  grow[i] = KeyOf(msgs, grow[i].msg)
    OBVIOUS
  <2>1. CASE i \in 1..m
    <3>1. grow[i] \in In(walk.box)
      BY <1>5, <1>10, <1>11, <2>1
    <3> QED BY <1>4, <3>1
  <2>2. CASE i \notin 1..m
    BY <1>12, <2>2 DEF Windowed, WindowOK
  <2> QED BY <2>1, <2>2
<1>16. ASSUME NEW r \in walk.still, AtOrAbove(grow[1], KeyOf(msgs, r)), AtOrAbove(KeyOf(msgs, r), Last(grow))
       PROVE  \E i \in 1..(m + n) : grow[i].msg = r
  <2> DEFINE k == KeyOf(msgs, r)
  <2>1. k \in In(walk.box) /\ k \in Key /\ k.msg = r
    <3>1. r \in DOMAIN msgs /\ walk.box \in DOMAIN boxes /\ boxes[walk.box].sid \in msgs[r].within
      BY DEF Windowed, WindowOK
    <3>2. k \in In(walk.box)
      BY <3>1, KeysIn
    <3> QED BY <1>4, <3>2 DEF KeyOf
  <2>2. grow[1] = page[1] /\ Last(grow) = rows[n]
    <3>1. n \in 1..n /\ 1 \in 1..m
      BY <1>3, <1>10
    <3>2. Last(grow) = grow[m + n]
      BY <1>11 DEF Last
    <3> QED BY <1>11, <3>1, <3>2
  <2> HIDE DEF k
  <2>3. CASE AtOrAbove(rows[1], k)
    <3>1. PICK i \in 1..n : rows[i].msg = r
      BY <1>1, <1>3, <1>16, <2>2, <2>3 DEF Windowed, WindowOK, k
    <3>2. m + i \in 1..(m + n)
      BY <1>3, <1>10
    <3> QED BY <1>11, <3>1, <3>2
  <2>4. CASE ~AtOrAbove(rows[1], k)
    <3>1. Above(k, rows[1])
      BY <1>3, <2>1, <2>4, OrderStrict DEF AtOrAbove
    <3>2. k \in S
      BY <1>5, <2>1, <3>1
    <3>3. PICK i \in 1..m : page[i] = k
      BY <1>7, <1>9, <1>16, <2>2, <3>2 DEF k
    <3>4. i \in 1..(m + n)
      BY <1>3, <1>10
    <3> QED BY <1>11, <2>1, <3>3, <3>4
  <2> QED BY <2>3, <2>4
<1> DEFINE w == walk'
<1>17. w.rows = grow /\ w.still = walk.still /\ w.box = walk.box /\ w.sid = walk.sid
  BY <1>9
<1>18. w \in Window /\ UNCHANGED <<boxes, msgs>>
  BY <1>9
<1>19. m + n <= MaxWalk
  BY <1>3, <1>9, <1>10
<1> HIDE DEF w, n, m
<1>20. WindowOK(w, msgs, boxes)
  BY <1>11, <1>14, <1>15, <1>16, <1>17, <1>18, <1>19 DEF WindowOK, Windowed
<1> QED BY <1>18, <1>20 DEF Windowed, w

LEMMA WindowedInit == Init => Windowed
<1> SUFFICES ASSUME Init PROVE Windowed
  OBVIOUS
<1>1. walk \in Window /\ walk.rows = <<>> /\ walk.still = {} /\ Len(walk.rows) = 0
  BY DEF Init, NoWalk, Window
<1> QED BY <1>1, MailInputs DEF Windowed, WindowOK, InOrder

LEMMA WindowedStep == Data /\ Windowed /\ [Next]_vars => Windowed'
<1> SUFFICES ASSUME Data, Windowed, [Next]_vars PROVE Windowed'
  OBVIOUS
<1>1. CASE UpsertMailbox
  BY <1>1, WindowedUpsertMailbox
<1>2. CASE DropMailbox
  BY <1>2, WindowedDropMailbox
<1>3. CASE UpsertMessage
  BY <1>3, WindowedUpsertMessage
<1>4. CASE DeleteMessage
  BY <1>4, WindowedDeleteMessage
<1>5. CASE OpenWalk
  BY <1>5, WindowedOpenWalk
<1>6. CASE ListMailboxForward
  BY <1>6, WindowedForward
<1>7. CASE ListMailboxBackward
  BY <1>7, WindowedBackward
<1>8. CASE Enqueue \/ Dispatch \/ UNCHANGED vars
  <2>1. UNCHANGED <<walk, msgs, boxes>>
    BY <1>8 DEF Enqueue, Dispatch, vars
  <2> QED BY <2>1 DEF Windowed, WindowOK
<1> QED BY <1>1, <1>2, <1>3, <1>4, <1>5, <1>6, <1>7, <1>8 DEF Next

LEMMA MailInductive == Spec => [](Data /\ Windowed)
<1>1. Init => Data /\ Windowed
  BY DataInit, WindowedInit
<1>2. Data /\ Windowed /\ [Next]_vars => (Data /\ Windowed)'
  BY DataStep, WindowedStep
<1> QED BY <1>1, <1>2, PTL DEF Spec

\* Rows stay typed, one for each object, memberships between rows that are there.
THEOREM TypeCorrect == Spec => []TypeOK
<1>1. Data /\ Windowed => TypeOK
  <2> SUFFICES ASSUME Data, Windowed PROVE TypeOK
    OBVIOUS
  <2>1. \A b \in DOMAIN boxes : boxes[b].sid \in Mailbox /\ boxes[b].look \in Look
    BY DEF Data, Tables, Table, BoxRow
  <2>2. \A r \in DOMAIN msgs : msgs[r].sid \in Message /\ msgs[r].within \subseteq Mailbox
    BY DEF Data, Tables, Table, MsgRow
  <2>3. \A k \in members : k.msg \in DOMAIN msgs /\ k.box \in DOMAIN boxes
    BY MembersAre DEF Data
  <2>4. Len(walk.rows) <= MaxWalk /\ walk.still \subseteq 1..MaxRow
    BY DEF Windowed, WindowOK, Window
  <2> QED BY <2>1, <2>2, <2>3, <2>4 DEF TypeOK, Data, Tables, Table
<1> QED BY <1>1, MailInductive, PTL

\* Paged both ways while mail changes, a window shows what stayed put, once and in order.
THEOREM WindowsAreWhole == Spec => []WindowWhole
<1>1. Data /\ Windowed => WindowWhole
  BY WindowedWhole
<1> QED BY <1>1, MailInductive, PTL
=============================================================================
