------------------------------- MODULE Outbox -------------------------------
(***************************************************************************)
(* The durable intent queue of internal/outbox and the dispatcher that     *)
(* drains it against a mail server.                                        *)
(*                                                                         *)
(* Three parties act on the table of intent rows, each through short       *)
(* transactions of the store's single writer: callers (Enqueue*, Undo),    *)
(* the dispatcher (DispatchOnce, one pass at a time), and the startup      *)
(* sweep (ReclaimOrphaned).  A pass is split at every point where another  *)
(* party, a crash or a failure can come between two of its effects: each   *)
(* transaction and each request to the server is an action of its own.     *)
(* Two more parties are external: the server with its other clients, and   *)
(* the sync worker that refreshes the local copy of the mailboxes.         *)
(*                                                                         *)
(* Every adverse event (a failed or lost request, a refused mutation, a    *)
(* failed transaction, a crash, another client) spends one of MaxFaults,   *)
(* so the system meets each combination of at most that many.              *)
(*                                                                         *)
(* A definition X_Y is no part of the model: it is X with a plausible      *)
(* slip in the code it stands for, kept beside X to show which property    *)
(* notices.                                                                *)
(***************************************************************************)
EXTENDS Integers, FiniteSets, Sequences, Functions, FiniteSetsExt

CONSTANTS
  Msg,           \* messages a move can name
  Name,          \* mailbox names
  Fold,          \* Fold[n]: what the server compares of n when it refuses a sibling
  Home,          \* the server's mailboxes at the start, by id: a sequence
  Requests,      \* what callers may ask for: a set of request records
  Caller,        \* goroutines that may be in EnqueueMoveMessagesBulk at once
  Delays,        \* backoff by attempt, in dispatch intervals; the last repeats
  Hold,          \* UndoWindow, in dispatch intervals
  ChunkSize,     \* moveChunkSize: most messages of one bulk-move chunk
  WireBatch,     \* wireBatchLimit: most objects of one request
  ClaimRows,     \* claimRowBudget
  ClaimMessages, \* claimMessageBudget
  RefPage,       \* dependentRefPage
  Refusals,      \* failure classes a request may answer with
  FaultKinds,    \* which adverse events a run explores
  MaxFaults,     \* how many of them at most
  MaxIntents     \* intents ever enqueued

None == 0        \* no mailbox id, no row id, no server id: "" or 0 in the code

Kinds == {"create", "rename", "delete", "move"}
Classes == {"auth", "connection", "not_found", "throttled", "server", "store_local"}
Faults == {"call", "lost", "reject", "tx", "crash", "other"}
Fates == {"live", "delivered", "failed", "undone", "stray"}

ASSUME SizesAssumption ==
  /\ ChunkSize \in Nat \ {0} /\ WireBatch \in Nat \ {0}
  /\ ClaimRows \in Nat \ {0} /\ ClaimMessages \in Nat \ {0}
  /\ RefPage \in Nat \ {0} /\ MaxFaults \in Nat /\ MaxIntents \in Nat
ASSUME DelaysAssumption == Delays \in Seq(Nat) /\ Len(Delays) > 0 /\ Hold \in Nat
ASSUME FaultsAssumption == FaultKinds \subseteq Faults /\ Refusals \subseteq Classes
ASSUME ServerAssumption ==
  /\ Fold \in [Name -> Name]
  /\ Home \in Seq([name : Name, parent : Nat, by : Nat])
\* A request: the mailbox it names (None for the root, or when `ref` asks for
\* a mailbox another intent creates), its messages, and whether it is undoable.
\* A rename or a delete names a mailbox of the store.
ASSUME RequestsAssumption ==
  /\ Requests # {}
  /\ Requests \subseteq [kind : Kinds, name : Name, box : Nat, ref : BOOLEAN,
                         msgs : SUBSET Msg, undoable : BOOLEAN]
  /\ \A req \in Requests : req.ref => req.kind \in {"create", "move"}

VARIABLES
  rows,      \* the outbox table: row id -> row
  log,       \* history: every intent ever enqueued, in order, and its fate
  handle,    \* intents whose row ids the running process has returned to a caller
  bulk,      \* the EnqueueMoveMessagesBulk call each caller is making, if any
  up,        \* a poplar process holds the instance lock and runs
  polled,    \* the dispatch loop has made this interval's DispatchOnce call
  phase,     \* where in DispatchOnce the dispatcher is
  claim,     \* claimedRows: row id -> what the claim read of it
  decided,   \* actions: row id -> the finalize action it is owed
  resolved,  \* resolvedCreates: row id of a create -> its server id
  stopped,   \* a connection failure has ended this pass's attempts
  newSid,    \* the server id the create under way has been given
  out,       \* decisions of the moves that rode in the batch under way
  after,     \* resolveDependentRefs' page cursor
  stranded,  \* history: rows a failed recovery left behind in this run
  boxes,     \* the server's mailboxes
  nextSid,   \* the id the server gives next
  at,        \* the server's messages: message -> mailbox, None once destroyed
  mover,     \* history: the intent that last moved the message
  applied,   \* history: intents whose whole effect the server has made
  known,     \* mailboxes with a row in the local store
  knownMsgs, \* messages with a row in the local store
  faults     \* adverse events so far

table    == <<rows, log>>
caller   == <<handle, bulk>>
pass     == <<phase, claim, decided, resolved, stopped, newSid, out, after>>
loop     == <<up, polled, stranded>>
server   == <<boxes, nextSid, at, mover, applied>>
localcopy == <<known, knownMsgs>>
vars == <<table, caller, pass, loop, server, localcopy, faults>>

-----------------------------------------------------------------------------
(* Records. *)

Payload == [kind : Kinds, name : Name, msgs : SUBSET Msg,
            box : Nat, ref : Nat, refSid : Nat, resolvedSid : Nat]

Row == [uid : Nat \ {0}, pay : Payload, state : {"queued", "dispatching"},
        wait : Nat, attempt : 1..Len(Delays), class : Classes \cup {"none"}]

Claimed == [uid : Nat \ {0}, pay : Payload, attempt : 1..Len(Delays),
            target : Nat, preFailed : BOOLEAN]

Decision == [verb : {"delete", "requeue", "revert"},
             why : {"delivered", "failed", "stopped"},
             class : Classes \cup {"none"}]

Entry == [id : Nat, group : Nat, pay : Payload, refUid : Nat, late : BOOLEAN,
          fate : Fates]

Empty == [i \in {} |-> None]
Put(f, x, v) == [i \in DOMAIN f \cup {x} |-> IF i = x THEN v ELSE f[i]]
Over(f, g) == [i \in DOMAIN f \cup DOMAIN g |-> IF i \in DOMAIN g THEN g[i] ELSE f[i]]
Least(S) == {i \in S : \A j \in S : i <= j}

Delivered == [verb |-> "delete", why |-> "delivered", class |-> "none"]
Reverted  == [verb |-> "revert", why |-> "stopped", class |-> "none"]
Failed(class) ==
  [verb |-> IF class = "not_found" THEN "delete" ELSE "requeue",
   why |-> "failed", class |-> class]
Refused(class) == [verb |-> "delete", why |-> "failed", class |-> class]

\* One adverse event of kind k.
Fault(k) == k \in FaultKinds /\ faults < MaxFaults /\ faults' = faults + 1

IsQueued(i) == i \in DOMAIN rows /\ rows[i].state = "queued"
Dispatching == {i \in DOMAIN rows : rows[i].state = "dispatching"}

-----------------------------------------------------------------------------
(* Callers: enqueue and undo. *)

\* SQLite gives an INTEGER PRIMARY KEY one more than the greatest id in the
\* table: the id of a deleted last row is given again.
NextId_ByCount == 1 + Cardinality(DOMAIN rows)
NextId == IF rows = Empty THEN 1 ELSE 1 + Max(DOMAIN rows)

PayloadOf(req, msgs, id) ==
  [kind |-> req.kind, name |-> req.name, msgs |-> msgs, box |-> req.box,
   ref |-> id, refSid |-> None, resolvedSid |-> None]

\* Append one row, and its entry in the history, `group` being the undo group
\* it belongs to (its own for a single intent).
Insert(req, msgs, refUid, group, wait) ==
  LET uid == Len(log) + 1
      id  == NextId
      refId == IF refUid = 0 THEN None ELSE log[refUid].id
      pay == PayloadOf(req, msgs, refId)
  IN /\ Len(log) < MaxIntents
     /\ rows' = Put(rows, id, [uid |-> uid, pay |-> pay, state |-> "queued",
                               wait |-> wait, attempt |-> 1, class |-> "none"])
     /\ log' = Append(log,
          [id |-> id, group |-> IF group = 0 THEN uid ELSE group, pay |-> pay,
           refUid |-> refUid, fate |-> "live",
           late |-> refUid # 0 /\ ~(IsQueued(refId) /\ rows[refId].uid = refUid)])

\* The mailbox a request may name: one the local store holds, or, by the id
\* its enqueue returned, one a create still queued will make.
Nameable(req, refUid) ==
  \/ ~req.ref /\ refUid = 0 /\ req.box \in known \cup {None}
  \/ /\ req.ref /\ refUid \in handle
     /\ log[refUid].pay.kind = "create"
     /\ IsQueued(log[refUid].id) /\ rows[log[refUid].id].uid = refUid

EnqueueSingle(req) ==
  /\ up /\ req.kind # "move"
  /\ \E refUid \in 0..Len(log) :
       /\ Nameable(req, refUid)
       /\ Insert(req, {}, refUid, 0, 0)
  /\ handle' = handle \cup {Len(log) + 1}
  /\ UNCHANGED <<bulk, pass, loop, server, localcopy, faults>>

NoBulk == [req |-> CHOOSE req \in Requests : TRUE, left |-> {}, refUid |-> 0, got |-> {}]

\* EnqueueMoveMessagesBulk: exactly one of destMailboxID and destRef is set.
\* A goroutine makes one call at a time; nothing keeps two from overlapping,
\* nor single enqueues and Undos from coming between two chunks of a call.
BulkStart(p, req) ==
  /\ up /\ bulk[p].left = {} /\ bulk[p].got = {}
  /\ req.kind = "move" /\ req.msgs # {} /\ req.msgs \subseteq knownMsgs
  /\ req.ref # (req.box # None)
  /\ \E refUid \in 0..Len(log) :
       /\ Nameable(req, refUid)
       /\ bulk' = [bulk EXCEPT ![p] =
                     [req |-> req, left |-> req.msgs, refUid |-> refUid, got |-> {}]]
  /\ UNCHANGED <<handle, table, pass, loop, server, localcopy, faults>>

\* One chunk, in a transaction of its own.
BulkChunk(p) ==
  LET call == bulk[p]
  IN /\ up /\ call.left # {}
     /\ \E chunk \in SUBSET call.left :
          /\ Cardinality(chunk) = IF Cardinality(call.left) < ChunkSize
                                  THEN Cardinality(call.left) ELSE ChunkSize
          /\ Insert(call.req, chunk, call.refUid,
                    IF call.got = {} THEN 0 ELSE Min(call.got),
                    IF call.req.undoable THEN Hold ELSE 0)
          /\ LET got  == call.got \cup {Len(log) + 1}
                 rest == call.left \ chunk
             IN IF rest = {}
                THEN bulk' = [bulk EXCEPT ![p] = NoBulk] /\ handle' = handle \cup got
                ELSE /\ bulk' = [bulk EXCEPT ![p] = [call EXCEPT !.left = rest, !.got = got]]
                     /\ UNCHANGED handle
     /\ UNCHANGED <<pass, loop, server, localcopy, faults>>

Caught_Unguarded(ids) == ids \cap DOMAIN rows
\* The rows an annihilating transaction over `ids` catches: those still queued.
Caught(ids) == {i \in ids : IsQueued(i)}
\* Delete them; an intent the caller did not mean (uid outside `meant`) goes
\* the same way, and the history tells the two apart.
Annihilate(ids, meant) ==
  LET gone == {rows[i].uid : i \in Caught(ids)}
  IN /\ rows' = Restrict(rows, DOMAIN rows \ Caught(ids))
     /\ log' = [u \in DOMAIN log |->
                  IF u \notin gone THEN log[u]
                  ELSE [log[u] EXCEPT !.fate = IF u \in meant THEN "undone" ELSE "stray"]]

\* A chunk's transaction fails: the call ends, with nothing to compensate or
\* with the earlier chunks still to be undone.
BulkFails(p) ==
  /\ up /\ bulk[p].left # {} /\ Fault("tx")
  /\ bulk' = [bulk EXCEPT ![p] =
                IF bulk[p].got = {} THEN NoBulk ELSE [bulk[p] EXCEPT !.left = {}]]
  /\ UNCHANGED <<handle, table, pass, loop, server, localcopy>>

\* escapedIDs: the chunks an Undo of all of them would not catch.
Escaped_None(chunks) == {}
Escaped(chunks) == {u \in chunks : ~IsQueued(log[u].id)}

\* compensateFailedChunk: undo the committed chunks, and return whatever a
\* pass had already claimed.
Compensate(p) ==
  LET got == bulk[p].got
  IN /\ up /\ bulk[p].left = {} /\ got # {}
     /\ \/ /\ Annihilate({log[u].id : u \in got}, got)
           /\ handle' = handle \cup Escaped(got)
           /\ UNCHANGED faults
        \/ /\ Fault("tx") /\ handle' = handle \cup got /\ UNCHANGED table
     /\ bulk' = [bulk EXCEPT ![p] = NoBulk]
     /\ UNCHANGED <<pass, loop, server, localcopy>>

\* Undo, given the row ids its undo group was enqueued under.  The caller
\* keeps the ids it got no annihilation for.
Undo(group) ==
  LET meant == {u \in handle : log[u].group = group}
      ids   == {log[u].id : u \in meant}
  IN /\ up /\ Caught(ids) # {}
     /\ Annihilate(ids, meant)
     /\ handle' = {u \in handle : u \notin meant \/ log[u].id \notin Caught(ids)}
     /\ UNCHANGED <<bulk, pass, loop, server, localcopy, faults>>

-----------------------------------------------------------------------------
(* The dispatcher: probe and claim. *)

Eligible == {i \in DOMAIN rows : rows[i].state = "queued" /\ rows[i].wait = 0}

\* HasEligibleIntents, on a read connection and outside any transaction.  The
\* loop makes one call per interval.
Probe ==
  /\ up /\ phase = "idle" /\ ~polled
  /\ polled' = TRUE
  /\ phase' = IF Eligible = {} THEN "idle" ELSE "claim"
  /\ UNCHANGED <<claim, decided, resolved, stopped, newSid, out, after,
                 up, stranded, table, caller, server, localcopy, faults>>

ClaimCost(r) == IF r.pay.kind = "move" THEN Cardinality(r.pay.msgs) ELSE 1

\* In id order, until the row budget or the message budget is spent; the first
\* eligible row whatever it costs.
Claimable ==
  LET page == {i \in Eligible : Cardinality({j \in Eligible : j <= i}) <= ClaimRows}
  IN {i \in page :
        \/ i \in Least(page)
        \/ MapThenSumSet(LAMBDA j : ClaimCost(rows[j]), {j \in page : j <= i})
             <= ClaimMessages}

\* resolveClaim: the server id of the mailbox the intent names, None when it
\* is a reference still to be resolved or the root; pre-failed when a mailbox
\* or message it names has no row in the store.
ResolveClaim(r) ==
  [uid |-> r.uid, pay |-> r.pay, attempt |-> r.attempt,
   target |-> IF r.pay.refSid # None THEN r.pay.refSid ELSE r.pay.box,
   preFailed |-> \/ ~(r.pay.msgs \subseteq knownMsgs)
                 \/ r.pay.refSid = None /\ r.pay.box \notin known \cup {None}]

Claim ==
  /\ up /\ phase = "claim"
  /\ claim' = [i \in Claimable |-> ResolveClaim(rows[i])]
  /\ rows' = [i \in DOMAIN rows |->
                IF i \in Claimable THEN [rows[i] EXCEPT !.state = "dispatching"]
                                   ELSE rows[i]]
  /\ phase' = IF Claimable = {} THEN "idle" ELSE "dispatch"
  /\ decided' = Empty /\ resolved' = Empty /\ stopped' = FALSE
  /\ UNCHANGED <<newSid, out, after, log, caller, loop, server, localcopy, faults>>

ClaimFails ==
  /\ up /\ phase = "claim" /\ Fault("tx")
  /\ phase' = "idle"
  /\ UNCHANGED <<claim, decided, resolved, stopped, newSid, out, after,
                 table, caller, loop, server, localcopy>>

-----------------------------------------------------------------------------
(* The dispatcher: one intent, or one create with the moves into it. *)

Undecided == DOMAIN claim \ DOMAIN decided
IsCreate(c) == claim[c].pay.kind = "create"

\* planBatches: the claimed moves into the mailbox create c makes, taken in id
\* order while they fit beside the create in one request.  `room` is the
\* budget left before each; a move too large for it is passed over.
Group(c) ==
  LET moves == {i \in DOMAIN claim : /\ claim[i].pay.kind = "move"
                                     /\ ~claim[i].preFailed
                                     /\ claim[i].pay.ref = c}
      size(i) == Cardinality(claim[i].pay.msgs)
      room[i \in moves] ==
        LET below == {j \in moves : j < i}
        IN IF below = {} THEN WireBatch - 1
           ELSE LET b == Max(below)
                IN room[b] - (IF size(b) <= room[b] THEN size(b) ELSE 0)
  IN IF IsCreate(c) /\ ~claim[c].preFailed /\ claim[c].pay.resolvedSid = None
     THEN {i \in moves : size(i) <= room[i]}
     ELSE {}

Members(c) == {c} \cup Group(c)

\* The mailbox an intent goes into or under: the one its claim resolved, else
\* the one its reference got in this pass, else none.
Target(c) ==
  LET ref == claim[c].pay.ref
  IN IF claim[c].target = None /\ ref # None /\ ref \in DOMAIN resolved
     THEN resolved[ref] ELSE claim[c].target

\* Record the decisions d; the first connection failure stops the pass.
Decide(d) ==
  /\ decided' = Over(decided, d)
  /\ stopped' = (stopped \/ \E i \in DOMAIN d : d[i].class = "connection")
  /\ phase' = "dispatch"
DecideAll(S, decision) == Decide([i \in S |-> decision])

\* Turn of intent c: the lowest claimed id no decision covers yet.
Turn(c, at_phase) ==
  /\ up /\ phase = at_phase /\ ~stopped /\ c \in Least(Undecided)
Calling(c) ==
  /\ Turn(c, "dispatch") /\ ~claim[c].preFailed
  /\ ~(IsCreate(c) /\ claim[c].pay.resolvedSid # None)
  /\ ~(claim[c].pay.kind = "move" /\ Target(c) = None)

\* The pass has stopped: everything it never attempted goes back untouched.
Abandon ==
  /\ up /\ phase = "dispatch" /\ stopped /\ Undecided # {}
  /\ DecideAll(Undecided, Reverted)
  /\ UNCHANGED <<claim, resolved, newSid, out, after,
                 table, caller, loop, server, localcopy, faults>>

\* Refused before any request: a referent missing from the store, or a move
\* whose destination reference this pass has not resolved.
FailUnsent ==
  /\ \E c \in Undecided :
       /\ Turn(c, "dispatch")
       /\ \/ claim[c].preFailed
          \/ claim[c].pay.kind = "move" /\ Target(c) = None
       /\ DecideAll({c}, Failed("not_found"))
  /\ UNCHANGED <<claim, resolved, newSid, out, after,
                 table, caller, loop, server, localcopy, faults>>

\* A request fails as a whole, before the server did anything.
CallFails ==
  /\ \E c \in Undecided, class \in Refusals :
       /\ \/ Calling(c)
          \/ Turn(c, "adopt")
          \/ Turn(c, "refile")
       /\ DecideAll(Members(c), Failed(class))
  /\ Fault("call")
  /\ UNCHANGED <<claim, resolved, newSid, out, after,
                 table, caller, loop, server, localcopy>>

\* What a request that files the moves S into mailbox `sid` does: each message
\* goes, except a destroyed one, one of `refused`, and any when `mailboxes`
\* (the server's after the request's create) no longer hold `sid`.
Movable(i, sid, refused, mailboxes) ==
  {m \in claim[i].pay.msgs \ refused : at[m] # None /\ sid \in DOMAIN mailboxes}

File(S, sid, refused, mailboxes) ==
  LET movers(m) == {claim[i].uid : i \in {j \in S : m \in Movable(j, sid, refused, mailboxes)}}
  IN /\ at' = [m \in Msg |-> IF movers(m) # {} THEN sid ELSE at[m]]
     /\ mover' = [m \in Msg |-> IF movers(m) # {} THEN Max(movers(m)) ELSE mover[m]]

\* moveOutcome: delivered, or failed with the class of one message's refusal.
Classify(m, refused) ==
  IF at[m] = None THEN "not_found" ELSE IF m \in refused THEN "throttled" ELSE "server"
Outcomes_Ignored(i, sid, refused, mailboxes) == {Delivered}
Outcomes(i, sid, refused, mailboxes) ==
  LET missed == claim[i].pay.msgs \ Movable(i, sid, refused, mailboxes)
  IN IF missed = {} THEN {Delivered} ELSE {Failed(Classify(m, refused)) : m \in missed}
Results(S, sid, refused, mailboxes) ==
  {f \in [S -> UNION {Outcomes(i, sid, refused, mailboxes) : i \in S}] :
     \A i \in S : f[i] \in Outcomes(i, sid, refused, mailboxes)}
\* The moves of S whose every message goes.
Filed(S, sid, refused, mailboxes) ==
  {claim[i].uid : i \in {j \in S :
     claim[j].pay.msgs = Movable(j, sid, refused, mailboxes)}}

\* The server throttles at most one message of the moves S.
Refusing(S, refused) ==
  \/ refused = {} /\ UNCHANGED faults
  \/ /\ Fault("reject")
     /\ \E i \in S : \E m \in claim[i].pay.msgs : refused = {m}

\* dispatchMoveMessages.
MoveCall ==
  /\ \E c \in Undecided :
       /\ Calling(c) /\ claim[c].pay.kind = "move"
       /\ \/ \E refused \in SUBSET claim[c].pay.msgs :
               /\ Refusing({c}, refused)
               /\ File({c}, Target(c), refused, boxes)
               /\ \E d \in Results({c}, Target(c), refused, boxes) : Decide(d)
               /\ applied' = applied \cup Filed({c}, Target(c), refused, boxes)
          \/ /\ Fault("lost")
             /\ File({c}, Target(c), {}, boxes)
             /\ applied' = applied \cup Filed({c}, Target(c), {}, boxes)
             /\ DecideAll({c}, Failed("connection"))
  /\ UNCHANGED <<claim, resolved, newSid, out, after, boxes, nextSid,
                 table, caller, loop, localcopy>>

Children(sid) == {s \in DOMAIN boxes : boxes[s].parent = sid}
\* Siblings the server's own rule takes for the same mailbox, and those
\* FindMailboxes' exact match does.
Refusers(name, parent) ==
  {s \in DOMAIN boxes : boxes[s].parent = parent /\ Fold[boxes[s].name] = Fold[name]}
FindMailboxes_NotAtRoot(name, parent) ==
  {s \in DOMAIN boxes : boxes[s].parent = parent /\ boxes[s].name = name /\ parent # None}
FindMailboxes(name, parent) ==
  {s \in DOMAIN boxes : boxes[s].parent = parent /\ boxes[s].name = name}

\* dispatchCreateMailbox's CreateMailbox call, or dispatchBatch's ApplyBatch
\* of the create with its moves, accepted by the server.
Made(c) == Put(boxes, nextSid, [name |-> claim[c].pay.name, parent |-> Target(c),
                                by |-> claim[c].uid])
CreateCall ==
  /\ \E c \in Undecided :
       /\ Calling(c) /\ IsCreate(c)
       /\ Target(c) \in DOMAIN boxes \cup {None}
       /\ Refusers(claim[c].pay.name, Target(c)) = {}
       /\ boxes' = Made(c) /\ nextSid' = nextSid + 1
       /\ \/ \E refused \in SUBSET UNION {claim[i].pay.msgs : i \in Group(c)} :
               /\ Refusing(Group(c), refused)
               /\ File(Group(c), nextSid, refused, Made(c))
               /\ out' \in Results(Group(c), nextSid, refused, Made(c))
               /\ applied' = applied \cup {claim[c].uid}
                               \cup Filed(Group(c), nextSid, refused, Made(c))
               /\ newSid' = nextSid /\ phase' = "persist"
               /\ resolved' = IF Group(c) = {} THEN resolved
                                               ELSE Put(resolved, c, nextSid)
               /\ UNCHANGED <<decided, stopped>>
          \/ /\ Fault("lost")
             /\ \E S \in {{}, Group(c)} :
                  /\ File(S, nextSid, {}, Made(c))
                  /\ applied' = applied \cup {claim[c].uid}
                                  \cup Filed(S, nextSid, {}, Made(c))
             /\ DecideAll(Members(c), Failed("connection"))
             /\ UNCHANGED <<out, newSid, resolved>>
  /\ UNCHANGED <<claim, after, table, caller, loop, localcopy>>

\* The server refuses the create: a parent it no longer holds is an ordinary
\* server failure, a sibling of that name starts the reconcile.
CreateRefused ==
  /\ \E c \in Undecided :
       /\ Calling(c) /\ IsCreate(c)
       /\ \/ /\ Target(c) \notin DOMAIN boxes \cup {None}
             /\ DecideAll(Members(c), Failed("server"))
          \/ /\ Target(c) \in DOMAIN boxes \cup {None}
             /\ Refusers(claim[c].pay.name, Target(c)) # {}
             /\ phase' = "adopt" /\ UNCHANGED <<decided, stopped>>
  /\ UNCHANGED <<claim, resolved, newSid, out, after,
                 table, caller, loop, server, localcopy, faults>>

\* adoptMailbox: bind to the one exact match, and to nothing else.
Adopt ==
  /\ \E c \in Undecided :
       LET found == FindMailboxes(claim[c].pay.name, Target(c))
       IN /\ Turn(c, "adopt")
          /\ \/ /\ Cardinality(found) = 1
                /\ newSid' \in found
                /\ phase' = IF Group(c) = {} THEN "persist" ELSE "refile"
                /\ applied' = applied \cup {claim[c].uid}
                /\ UNCHANGED <<decided, stopped>>
             \/ /\ Cardinality(found) # 1
                /\ DecideAll(Members(c), Refused("server"))
                /\ UNCHANGED <<newSid, applied>>
  /\ out' = Empty
  /\ UNCHANGED <<claim, resolved, after, boxes, nextSid, at, mover,
                 table, caller, loop, localcopy, faults>>

\* refile: the batch's moves again, by the adopted mailbox's id.
Refile ==
  /\ \E c \in Undecided :
       /\ Turn(c, "refile")
       /\ \/ \E refused \in SUBSET UNION {claim[i].pay.msgs : i \in Group(c)} :
               /\ Refusing(Group(c), refused)
               /\ File(Group(c), newSid, refused, boxes)
               /\ out' \in Results(Group(c), newSid, refused, boxes)
               /\ applied' = applied \cup Filed(Group(c), newSid, refused, boxes)
               /\ resolved' = Put(resolved, c, newSid)
               /\ phase' = "persist" /\ UNCHANGED <<decided, stopped>>
          \/ /\ Fault("lost")
             /\ File(Group(c), newSid, {}, boxes)
             /\ applied' = applied \cup Filed(Group(c), newSid, {}, boxes)
             /\ DecideAll(Members(c), Failed("connection"))
             /\ UNCHANGED <<out, resolved>>
  /\ UNCHANGED <<claim, newSid, after, boxes, nextSid,
                 table, caller, loop, localcopy>>

\* dispatchRenameMailbox: the server refuses a name a sibling has, and any
\* name for a mailbox it no longer holds.
RenameCall ==
  /\ \E c \in Undecided :
       LET sid == Target(c)
           name == claim[c].pay.name
           granted == /\ sid \in DOMAIN boxes
                      /\ Refusers(name, boxes[sid].parent) \subseteq {sid}
       IN /\ Calling(c) /\ claim[c].pay.kind = "rename"
          /\ \/ /\ granted
                /\ boxes' = [boxes EXCEPT ![sid].name = name]
                /\ applied' = applied \cup {claim[c].uid}
                /\ \/ DecideAll({c}, Delivered) /\ UNCHANGED faults
                   \/ DecideAll({c}, Failed("connection")) /\ Fault("lost")
             \/ /\ ~granted
                /\ DecideAll({c}, Failed("server"))
                /\ UNCHANGED <<boxes, applied, faults>>
  /\ UNCHANGED <<claim, resolved, newSid, out, after, nextSid, at, mover,
                 table, caller, loop, localcopy>>

\* dispatchDeleteMailbox: a mailbox already gone is a success, one that holds
\* messages or mailboxes is refused.
DeleteCall ==
  /\ \E c \in Undecided :
       LET sid == Target(c)
           granted == Children(sid) = {} /\ \A m \in Msg : at[m] # sid
       IN /\ Calling(c) /\ claim[c].pay.kind = "delete"
          /\ \/ /\ granted
                /\ boxes' = Restrict(boxes, DOMAIN boxes \ {sid})
                /\ applied' = applied \cup {claim[c].uid}
                /\ \/ DecideAll({c}, Delivered) /\ UNCHANGED faults
                   \/ DecideAll({c}, Failed("connection")) /\ Fault("lost")
             \/ /\ ~granted
                /\ DecideAll({c}, Failed("server"))
                /\ UNCHANGED <<boxes, applied, faults>>
  /\ UNCHANGED <<claim, resolved, newSid, out, after, nextSid, at, mover,
                 table, caller, loop, localcopy>>

\* A create whose row already carries its server id makes no request.
Replay ==
  /\ \E c \in Undecided :
       /\ Turn(c, "dispatch") /\ ~claim[c].preFailed
       /\ IsCreate(c) /\ claim[c].pay.resolvedSid # None
       /\ newSid' = claim[c].pay.resolvedSid
  /\ phase' = "resolve" /\ after' = 0 /\ out' = Empty
  /\ UNCHANGED <<claim, decided, resolved, stopped,
                 table, caller, loop, server, localcopy, faults>>

\* persistPayload, in its own transaction.  What it writes is the payload as
\* the claim read it, with the server id added.
Persist ==
  /\ \E c \in Undecided :
       /\ Turn(c, "persist")
       /\ rows' = [i \in DOMAIN rows |->
                     IF i = c THEN [rows[i] EXCEPT !.pay =
                                      [claim[c].pay EXCEPT !.resolvedSid = newSid]]
                              ELSE rows[i]]
  /\ phase' = "resolve" /\ after' = 0
  /\ UNCHANGED <<claim, decided, resolved, stopped, newSid, out, log,
                 caller, loop, server, localcopy, faults>>

\* resolveDependentRefs: one page of the table, in one transaction.
Page_SkipsOne ==
  {i \in DOMAIN rows :
     i > after + 1 /\ Cardinality({j \in DOMAIN rows : after + 1 < j /\ j <= i}) <= RefPage}
Page == {i \in DOMAIN rows :
           i > after /\ Cardinality({j \in DOMAIN rows : after < j /\ j <= i}) <= RefPage}
RewriteRef_AnyRef(pay, c) ==
  IF pay.ref # None /\ pay.kind \in {"move", "create"}
  THEN [pay EXCEPT !.ref = None, !.refSid = newSid] ELSE pay
RewriteRef(pay, c) ==
  IF pay.ref = c /\ pay.kind \in {"move", "create"}
  THEN [pay EXCEPT !.ref = None, !.refSid = newSid] ELSE pay
ResolvePage ==
  /\ \E c \in Undecided :
       /\ Turn(c, "resolve") /\ Page # {}
       /\ rows' = [i \in DOMAIN rows |->
                     IF i \in Page \ {c}
                     THEN [rows[i] EXCEPT !.pay = RewriteRef(rows[i].pay, c)]
                     ELSE rows[i]]
  /\ after' = Max(Page)
  /\ UNCHANGED <<phase, claim, decided, resolved, stopped, newSid, out, log,
                 caller, loop, server, localcopy, faults>>
\* The walk is over: the create is delivered, its moves as the batch said.
ResolveEnd ==
  /\ \E c \in Undecided :
       /\ Turn(c, "resolve") /\ Page = {}
       /\ Decide(Put(out, c, Delivered))
       /\ resolved' = Put(resolved, c, newSid)
  /\ UNCHANGED <<claim, newSid, out, after,
                 table, caller, loop, server, localcopy, faults>>

\* Either transaction fails: the create and its moves are retried.
RecordFails ==
  /\ \E c \in Undecided :
       /\ Turn(c, "persist") \/ Turn(c, "resolve")
       /\ DecideAll(Members(c), Failed("store_local"))
  /\ Fault("tx")
  /\ UNCHANGED <<claim, resolved, newSid, out, after,
                 table, caller, loop, server, localcopy>>

-----------------------------------------------------------------------------
(* The dispatcher: finalize. *)

Requeue_Uncapped(r, class) ==
  [r EXCEPT !.state = "queued", !.wait = Delays[r.attempt], !.class = class,
            !.attempt = r.attempt + 1]
Requeue(r, class) ==
  [r EXCEPT !.state = "queued", !.wait = Delays[r.attempt], !.class = class,
            !.attempt = IF r.attempt < Len(Delays) THEN r.attempt + 1 ELSE r.attempt]
Revert(r) == [r EXCEPT !.state = "queued"]

Leaving == {i \in DOMAIN decided : decided[i].verb = "delete"}
Pausing == {i \in DOMAIN decided : decided[i].verb = "requeue"}
Deciding == up /\ phase = "dispatch" /\ Undecided = {}

\* Every claimed row's disposition in one transaction.
Finalize ==
  /\ Deciding
  /\ rows' = [i \in DOMAIN rows \ Leaving |->
                IF i \in Pausing THEN Requeue(rows[i], decided[i].class)
                ELSE IF i \in DOMAIN decided THEN Revert(rows[i]) ELSE rows[i]]
  /\ log' = [u \in DOMAIN log |->
               IF \E i \in Leaving \cap DOMAIN rows : rows[i].uid = u
               THEN [log[u] EXCEPT !.fate =
                       IF \E i \in Leaving \cap DOMAIN rows :
                            rows[i].uid = u /\ decided[i].why = "delivered"
                       THEN "delivered" ELSE "failed"]
               ELSE log[u]]
  /\ phase' = "idle" /\ claim' = Empty
  /\ UNCHANGED <<decided, resolved, stopped, newSid, out, after,
                 caller, loop, server, localcopy, faults>>

FinalizeFails ==
  /\ Deciding /\ Fault("tx")
  /\ phase' = "recover"
  /\ UNCHANGED <<claim, decided, resolved, stopped, newSid, out, after,
                 table, caller, loop, server, localcopy>>

\* The recovery transaction: every row back to queued, a requeue as a requeue.
Recover ==
  /\ up /\ phase = "recover"
  /\ rows' = [i \in DOMAIN rows |->
                IF i \in Pausing THEN Requeue(rows[i], decided[i].class)
                ELSE IF i \in DOMAIN decided THEN Revert(rows[i]) ELSE rows[i]]
  /\ phase' = "idle" /\ claim' = Empty
  /\ UNCHANGED <<decided, resolved, stopped, newSid, out, after, log,
                 caller, loop, server, localcopy, faults>>

\* It fails too: the rows stay dispatching until the next startup.
RecoverFails ==
  /\ up /\ phase = "recover" /\ Fault("tx")
  /\ phase' = "idle" /\ claim' = Empty
  /\ stranded' = stranded \cup DOMAIN claim
  /\ UNCHANGED <<decided, resolved, stopped, newSid, out, after, up, polled,
                 table, caller, server, localcopy>>

-----------------------------------------------------------------------------
(* The clock, the process, and what is outside it. *)

\* An interval of the dispatch loop passes; holds and backoffs run down.  A
\* pass reads the clock once, so to the clock it is one instant.
Tick ==
  /\ phase = "idle"
  /\ polled' = FALSE
  /\ rows' = [i \in DOMAIN rows |->
                [rows[i] EXCEPT !.wait = IF @ > 0 THEN @ - 1 ELSE 0]]
  /\ UNCHANGED <<log, up, stranded, caller, pass, server, localcopy, faults>>

\* The process dies.  What it kept in memory goes, the table and the server stay.
Crash ==
  /\ up /\ Fault("crash")
  /\ up' = FALSE /\ polled' = FALSE /\ stranded' = {}
  /\ handle' = {} /\ bulk' = [p \in Caller |-> NoBulk]
  /\ phase' = "idle" /\ claim' = Empty /\ decided' = Empty /\ resolved' = Empty
  /\ stopped' = FALSE /\ newSid' = None /\ out' = Empty /\ after' = 0
  /\ UNCHANGED <<table, server, localcopy>>

Restart_NoSweep ==
  /\ ~up /\ up' = TRUE
  /\ UNCHANGED <<table, polled, stranded, caller, pass, server, localcopy, faults>>
\* Startup: the instance lock, then ReclaimOrphaned before any dispatcher.
Restart ==
  /\ ~up /\ up' = TRUE
  /\ rows' = [i \in DOMAIN rows |-> [rows[i] EXCEPT !.state = "queued"]]
  /\ UNCHANGED <<log, polled, stranded, caller, pass, server, localcopy, faults>>

\* The sync worker brings the local copy level with the server.
SyncPull ==
  /\ up
  /\ known' = DOMAIN boxes /\ knownMsgs' = {m \in Msg : at[m] # None}
  /\ UNCHANGED <<table, caller, pass, loop, server, faults>>

\* Another client destroys a message, removes an empty mailbox, or makes one.
OtherClient ==
  /\ Fault("other")
  /\ \/ /\ \E m \in Msg : at[m] # None /\ at' = [at EXCEPT ![m] = None]
        /\ UNCHANGED <<boxes, nextSid>>
     \/ /\ \E s \in DOMAIN boxes :
             /\ Children(s) = {} /\ \A m \in Msg : at[m] # s
             /\ boxes' = Restrict(boxes, DOMAIN boxes \ {s})
        /\ UNCHANGED <<at, nextSid>>
     \/ /\ \E name \in Name :
             /\ Refusers(name, None) = {}
             /\ boxes' = Put(boxes, nextSid, [name |-> name, parent |-> None, by |-> 0])
        /\ nextSid' = nextSid + 1 /\ UNCHANGED at
  /\ UNCHANGED <<mover, applied, table, caller, pass, loop, localcopy>>

-----------------------------------------------------------------------------
Init ==
  /\ rows = Empty /\ log = <<>> /\ handle = {} /\ bulk = [p \in Caller |-> NoBulk]
  /\ up = TRUE /\ polled = FALSE /\ stranded = {}
  /\ phase = "idle" /\ claim = Empty /\ decided = Empty /\ resolved = Empty
  /\ stopped = FALSE /\ newSid = None /\ out = Empty /\ after = 0
  /\ boxes = Home /\ nextSid = 1 + Len(Home)
  /\ at \in [Msg -> DOMAIN Home] /\ mover = [m \in Msg |-> 0] /\ applied = {}
  /\ known = DOMAIN Home /\ knownMsgs = Msg
  /\ faults = 0

Callers ==
  \/ \E req \in Requests : EnqueueSingle(req)
  \/ \E p \in Caller :
       \/ \E req \in Requests : BulkStart(p, req)
       \/ BulkChunk(p) \/ BulkFails(p) \/ Compensate(p)
  \/ \E group \in 1..Len(log) : Undo(group)

Dispatch ==
  \/ Probe \/ Claim \/ ClaimFails
  \/ Abandon \/ FailUnsent \/ CallFails
  \/ MoveCall \/ CreateCall \/ CreateRefused \/ Adopt \/ Refile
  \/ RenameCall \/ DeleteCall
  \/ Replay \/ Persist \/ ResolvePage \/ ResolveEnd \/ RecordFails
  \/ Finalize \/ FinalizeFails \/ Recover \/ RecoverFails

Next ==
  \/ Callers \/ Dispatch
  \/ Tick \/ Crash \/ Restart \/ SyncPull \/ OtherClient

Spec == Init /\ [][Next]_vars

\* The loop runs on until the process ends, the clock goes on, every bulk call
\* returns, and the program is started again.
Fairness ==
  /\ WF_vars(Dispatch) /\ WF_vars(Tick) /\ WF_vars(Restart)
  /\ \A p \in Caller : WF_vars(BulkChunk(p)) /\ WF_vars(Compensate(p))
FairSpec == Spec /\ Fairness

-----------------------------------------------------------------------------
(* What the outbox promises. *)

Functional(f, S) == f \in [DOMAIN f -> S]

TableOK ==
  /\ DOMAIN rows \subseteq 1..Len(log) /\ Functional(rows, Row)
  /\ \A i \in DOMAIN rows : rows[i].uid \in DOMAIN log
  /\ log \in Seq(Entry) /\ \A u \in DOMAIN log : log[u].refUid \in 0..Len(log)
Call == [req : Requests, left : SUBSET Msg, refUid : 0..Len(log), got : SUBSET DOMAIN log]
CallerOK == handle \subseteq DOMAIN log /\ bulk \in [Caller -> Call]
PassOK ==
  /\ phase \in {"idle", "claim", "dispatch", "adopt", "refile", "persist", "resolve", "recover"}
  /\ DOMAIN claim \subseteq Nat \ {0} /\ Functional(claim, Claimed)
  /\ \A i \in DOMAIN claim : claim[i].uid \in DOMAIN log
  /\ Functional(decided, Decision) /\ Functional(resolved, Nat) /\ Functional(out, Decision)
  /\ stopped \in BOOLEAN /\ newSid \in Nat /\ after \in Nat
LoopOK == up \in BOOLEAN /\ polled \in BOOLEAN /\ stranded \subseteq Nat /\ faults \in Nat
ServerOK ==
  /\ nextSid \in Nat \ {0} /\ DOMAIN boxes \subseteq 1..(nextSid - 1)
  /\ Functional(boxes, [name : Name, parent : Nat, by : Nat])
  /\ at \in [Msg -> Nat] /\ mover \in [Msg -> 0..Len(log)] /\ applied \subseteq DOMAIN log
LocalOK == known \subseteq Nat /\ knownMsgs \subseteq Msg

\* Every variable holds a value of its type: the row table, the claim and the
\* plan of a pass are keyed by row ids, row ids never outgrow the number of
\* intents, and nothing refers to an intent that was never enqueued.
TypeOK == TableOK /\ CallerOK /\ PassOK /\ LoopOK /\ ServerOK /\ LocalOK

\* Claim discipline (ADR-0006 revision 2).  While a process runs, the rows in
\* dispatching are exactly those its current pass claimed and those a failed
\* recovery stranded, and each is still the intent that was claimed: Undo, an
\* enqueue and the sweep never touch a row whose request may be in flight, and
\* no row waits in dispatching with nobody to finalize it.
ClaimDiscipline ==
  up => /\ Dispatching = DOMAIN claim \cup stranded
        /\ DOMAIN claim \cap stranded = {}
        /\ \A i \in DOMAIN claim : rows[i].uid = claim[i].uid

\* Nothing is lost (SY-4).  The intents with no fate yet are exactly those
\* with a row, one row each, whatever crashed or failed and in whatever order.
NothingLost ==
  /\ {rows[i].uid : i \in DOMAIN rows} = {u \in DOMAIN log : log[u].fate = "live"}
  /\ \A i, j \in DOMAIN rows : rows[i].uid = rows[j].uid => i = j

\* An intent leaves the table as delivered only once the server has made its
\* whole effect, in this run or an earlier one.
DeliveredWasApplied ==
  \A u \in DOMAIN log : log[u].fate = "delivered" => u \in applied

\* A create whose mailbox the server has made is never given up: lost answers,
\* failed transactions and crashes replay it, and the replay adopts the
\* mailbox instead of reporting the refusal (reclaim.go).
LandedCreateSucceeds ==
  \A u \in DOMAIN log :
    log[u].pay.kind = "create" /\ log[u].fate = "failed" => u \notin applied

\* Once a create is delivered no intent that named it while it was queued, and
\* still has a request to make, is left holding its row id.
RefsResolved ==
  \A i \in DOMAIN rows :
    LET pay == rows[i].pay
        entry == log[rows[i].uid]
    IN pay.ref # None /\ pay.resolvedSid = None /\ ~entry.late
         => log[entry.refUid].fate # "delivered"

\* A message the outbox moved is in the mailbox its move asked for, or in the
\* one of the name its create asked for, if that create was still queued under
\* its id when the move (the bulk move's chunk) was enqueued.  A chunk that
\* comes later is exempt: see ChunksFiledTogether.
FiledAsAsked ==
  \A m \in Msg :
    LET entry == log[mover[m]]
    IN mover[m] # 0 /\ at[m] # None /\ ~entry.late =>
         IF entry.refUid = 0 THEN at[m] = entry.pay.box
         ELSE at[m] \in DOMAIN boxes
                => boxes[at[m]].name = log[entry.refUid].pay.name

\* Intents still to be settled that no caller knows: neither returned to one
\* nor in the hands of a bulk call that may still have to compensate for them.
Orphans ==
  {u \in DOMAIN log : /\ log[u].fate = "live"
                      /\ u \notin handle \cup UNION {bulk[p].got : p \in Caller}}

\* No intent of a bulk move outlives its call unknown to the caller: each is
\* in what the call returned, or in what it is still compensating, whatever
\* other calls and passes did meanwhile.  Only the death of the process, which
\* forgets every id, orphans an intent.
OnlyACrashOrphans == [][Orphans' \subseteq Orphans \/ Crash]_vars

\* Where an intent is, as IntentQueue sees it; one annihilated by an Undo asked
\* for another is undone all the same.
RowOf(u) == CHOOSE i \in DOMAIN rows : rows[i].uid = u
Life == [u \in DOMAIN log |->
           CASE log[u].fate = "live"  -> rows[RowOf(u)].state
             [] log[u].fate = "stray" -> "undone"
             [] OTHER                 -> log[u].fate]
Queue == INSTANCE IntentQueue WITH life <- Life, effect <- applied

\* The outbox implements IntentQueue: whatever callers, passes, failures and
\* crashes do to rows, an intent only ever moves the way IntentQueue allows.
ImplementsIntentQueue == Queue!Spec

\* Every intent eventually leaves the table, unless a failed recovery has
\* stranded its row.
Drains ==
  \A u \in 1..MaxIntents :
    (u \in DOMAIN log /\ log[u].fate = "live")
      ~> (\/ u \in DOMAIN log /\ log[u].fate # "live"
          \/ \E i \in stranded \cap DOMAIN rows : rows[i].uid = u)

-----------------------------------------------------------------------------
(* What the documentation says of the outbox, where the code differs. *)

\* outbox.go: a move left over for a later pass resolves against the server
\* id its create persisted.  So no move whose messages all exist is given up
\* while its create is still waiting for another attempt.
MoveOutlivesItsCreate ==
  [][\A u \in DOMAIN log :
       /\ log[u].pay.kind = "move" /\ log[u].refUid # 0
       /\ log[u].fate = "live" /\ log'[u].fate = "failed"
       /\ \A m \in log[u].pay.msgs : at[m] # None
       => log'[log[u].refUid].fate # "live"]_vars

\* outbox.go: a create that names a parent created in the same session is made
\* under that parent's mailbox.
ChildUnderItsParent ==
  \A s \in DOMAIN boxes :
    boxes[s].by # 0 /\ log[boxes[s].by].refUid # 0 => boxes[s].parent # None

\* enqueue.go: destRef is "a queued KindCreateMailbox intent's own id", for
\* every chunk.  But a chunk commits in a transaction of its own, and by then
\* the create may be delivered or undone and its id another create's: it does not
\* hold that a moved message is in the mailbox its call asked for, late chunk or
\* not.
ChunksFiledTogether ==
  \A m \in Msg :
    LET entry == log[mover[m]]
    IN mover[m] # 0 /\ at[m] # None /\ entry.refUid # 0 /\ at[m] \in DOMAIN boxes
         => boxes[at[m]].name = log[entry.refUid].pay.name

\* undo.go: an id already gone because it dispatched is left untouched and
\* absent from the result.  So Undo removes no intent it was not asked for.
UndoTakesOnlyItsOwn == \A u \in DOMAIN log : log[u].fate # "stray"
=============================================================================
