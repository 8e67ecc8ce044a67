------------------------- MODULE OutboxSafetyProofs -------------------------
(***************************************************************************)
(* Safety of the outbox, for every value of its constants: no intent is    *)
(* lost or doubled, the rows in dispatching are those of the running pass, *)
(* what is reported delivered was made, the outbox is an IntentQueue, an   *)
(* outcome is final, no chunk is orphaned, references are resolved, moved  *)
(* messages are filed as asked, and a create that has landed succeeds.     *)
(* All of it rests on the type invariant of OutboxProofs.                  *)
(***************************************************************************)
EXTENDS OutboxProofs, FiniteSetTheorems

-----------------------------------------------------------------------------
(* What each step does to the table. *)

\* Rows leave the table, and the intents that lose their fate "live" are
\* exactly those whose rows left.
Dropped(D) ==
  /\ DOMAIN rows' = DOMAIN rows \ D
  /\ \A i \in DOMAIN rows' : rows'[i].uid = rows[i].uid
  /\ DOMAIN log' = DOMAIN log
  /\ \A u \in DOMAIN log :
       log'[u].fate = "live"
         <=> log[u].fate = "live" /\ ~ \E i \in DOMAIN rows \cap D : rows[i].uid = u

\* One row is added, of a new intent.
Added ==
  \E i, r, e :
    /\ i \notin DOMAIN rows /\ rows' = Put(rows, i, r) /\ log' = Append(log, e)
    /\ r.uid = Len(log) + 1 /\ r.state = "queued" /\ e.fate = "live"

LEMMA TableKept ==
  ASSUME TypeOK, UNCHANGED table
  PROVE  Dropped({})
  BY DEF Dropped, table

\* A step that rewrites rows in place drops none.
LEMMA RewrittenKept ==
  ASSUME UNCHANGED log, DOMAIN rows' = DOMAIN rows,
         \A i \in DOMAIN rows : rows'[i].uid = rows[i].uid
  PROVE  Dropped({})
  BY DEF Dropped

LEMMA InsertAdds ==
  ASSUME TypeOK, NEW req \in Requests, NEW msgs \in SUBSET Msg,
         NEW refUid \in 0..Len(log), NEW group \in Nat, NEW wait \in Nat,
         Insert(req, msgs, refUid, group, wait)
  PROVE  Added
<1>1. NextId \notin DOMAIN rows
  BY NextIdFresh DEF TypeOK
<1>2. PICK r \in Row, e \in Entry :
        /\ rows' = Put(rows, NextId, r) /\ r.uid = Len(log) + 1 /\ r.state = "queued"
        /\ log' = Append(log, e) /\ e.fate = "live" /\ e.refUid = refUid
  BY InsertAppends
<1> QED BY <1>1, <1>2, Zenon DEF Added

LEMMA AnnihilateDrops ==
  ASSUME TypeOK, NEW ids, NEW meant, Annihilate(ids, meant)
  PROVE  /\ Dropped(Caught(ids))
         /\ \A i \in DOMAIN rows' : rows'[i] = rows[i]
<1> DEFINE gone == {rows[i].uid : i \in Caught(ids)}
           fate(u) == IF u \in meant THEN "undone" ELSE "stray"
<1>1. rows' = [i \in DOMAIN rows \ Caught(ids) |-> rows[i]]
  BY DEF Annihilate, Restrict
<1>2. log' = [u \in DOMAIN log |-> IF u \notin gone THEN log[u]
                                   ELSE [log[u] EXCEPT !.fate = fate(u)]]
  BY DEF Annihilate
<1>3. \A u \in DOMAIN log : log[u] \in Entry
  BY LenProperties DEF TypeOK, TableOK
<1>4. \A u : fate(u) # "live"
  OBVIOUS
<1>5. \A u \in DOMAIN log : u \in gone <=> \E i \in DOMAIN rows \cap Caught(ids) : rows[i].uid = u
  BY DEF Caught, IsQueued
<1> HIDE DEF gone, fate
<1>6. \A u \in DOMAIN log : log'[u].fate = "live" <=> log[u].fate = "live" /\ u \notin gone
  BY <1>2, <1>3, <1>4 DEF Entry
<1>7. DOMAIN log' = DOMAIN log
  BY <1>2
<1> QED BY <1>1, <1>5, <1>6, <1>7 DEF Dropped

LEMMA FinalizeDrops ==
  ASSUME TypeOK, Finalize
  PROVE  Dropped(Leaving)
<1> DEFINE left(u) == \E i \in Leaving \cap DOMAIN rows : rows[i].uid = u
           fate(u) == IF \E i \in Leaving \cap DOMAIN rows :
                           rows[i].uid = u /\ decided[i].why = "delivered"
                      THEN "delivered" ELSE "failed"
<1>1. /\ DOMAIN rows' = DOMAIN rows \ Leaving
      /\ \A i \in DOMAIN rows \ Leaving : rows'[i].uid = rows[i].uid
  BY PutBackTyped DEF Finalize
<1>2. log' = [u \in DOMAIN log |-> IF left(u) THEN [log[u] EXCEPT !.fate = fate(u)] ELSE log[u]]
  BY DEF Finalize
<1>3. \A u \in DOMAIN log : log[u] \in Entry
  BY LenProperties DEF TypeOK, TableOK
<1>4. \A u : fate(u) # "live"
  OBVIOUS
<1>5. \A u \in DOMAIN log : left(u) <=> \E i \in DOMAIN rows \cap Leaving : rows[i].uid = u
  OBVIOUS
<1> HIDE DEF left, fate
<1>6. \A u \in DOMAIN log : log'[u].fate = "live" <=> log[u].fate = "live" /\ ~left(u)
  BY <1>2, <1>3, <1>4 DEF Entry
<1>7. DOMAIN log' = DOMAIN log
  BY <1>2
<1> QED BY <1>1, <1>5, <1>6, <1>7 DEF Dropped

\* The steps of a pass that rewrite rows keep them all.
LEMMA PassRewrites ==
  ASSUME TypeOK, Claim \/ Persist \/ ResolvePage \/ Recover
  PROVE  Dropped({})
<1>1. UNCHANGED log
  BY DEF Claim, Persist, ResolvePage, Recover
<1>2. CASE Claim
  <2>1. \A i \in DOMAIN rows : rows[i] \in Row
    BY DEF TypeOK, TableOK, Functional
  <2> QED BY <1>1, <1>2, <2>1, RewrittenKept DEF Claim, Row
<1>3. CASE Persist
  <2>1. \A i \in DOMAIN rows : rows[i] \in Row
    BY DEF TypeOK, TableOK, Functional
  <2> QED BY <1>1, <1>3, <2>1, RewrittenKept DEF Persist, Row
<1>4. CASE ResolvePage
  <2>1. \A i \in DOMAIN rows : rows[i] \in Row
    BY DEF TypeOK, TableOK, Functional
  <2> QED BY <1>1, <1>4, <2>1, RewrittenKept DEF ResolvePage, Row
<1>5. CASE Recover
  <2>1. /\ DOMAIN rows' = DOMAIN rows
        /\ \A i \in DOMAIN rows : rows'[i].uid = rows[i].uid
    BY <1>5, PutBackTyped DEF Recover
  <2> QED BY <1>1, <2>1, RewrittenKept
<1> QED BY <1>2, <1>3, <1>4, <1>5

\* The clock and the startup sweep rewrite rows too.
LEMMA TickKeeps ==
  ASSUME TypeOK, Tick \/ Restart
  PROVE  Dropped({})
<1>1. \A i \in DOMAIN rows : rows[i] \in Row
  BY DEF TypeOK, TableOK, Functional
<1>2. UNCHANGED log /\ DOMAIN rows' = DOMAIN rows
  BY DEF Tick, Restart
<1>3. \A i \in DOMAIN rows : rows'[i].uid = rows[i].uid
  <2>1. CASE Tick
    <3>1. \A i \in DOMAIN rows : \E w : rows'[i] = [rows[i] EXCEPT !.wait = w]
      BY <2>1 DEF Tick
    <3> QED BY <1>1, <3>1 DEF Row
  <2>2. CASE Restart
    BY <1>1, <2>2 DEF Restart, Row
  <2> QED BY <2>1, <2>2
<1> QED BY <1>2, <1>3, RewrittenKept

LEMMA BulkChunkInserts ==
  ASSUME TypeOK, NEW p \in Caller, BulkChunk(p)
  PROVE  \E chunk \in SUBSET Msg, group \in Nat, wait \in Nat :
           Insert(bulk[p].req, chunk, bulk[p].refUid, group, wait)
<1> DEFINE call  == bulk[p]
           group == IF call.got = {} THEN 0 ELSE Min(call.got)
           wait  == IF call.req.undoable THEN Hold ELSE 0
<1>1. call.left \subseteq Msg /\ call.got \subseteq DOMAIN log
  BY DEF TypeOK, CallerOK, Call
<1>2. DOMAIN log = 1..Len(log)
  BY LenProperties DEF TypeOK, TableOK
<1>3. group \in Nat
  <2>1. CASE call.got # {}
    <3>1. Min(call.got) \in call.got
      <4> HIDE DEF call
      <4> QED BY <1>1, <1>2, <2>1, LeastNatural
    <3> QED BY <1>1, <1>2, <3>1
  <2> QED BY <2>1
<1>4. wait \in Nat
  BY DelaysAssumption
<1>5. PICK chunk \in SUBSET call.left : Insert(call.req, chunk, call.refUid, group, wait)
  BY DEF BulkChunk
<1> HIDE DEF group, wait
<1> QED BY <1>1, <1>3, <1>4, <1>5

LEMMA CallTyped ==
  ASSUME TypeOK, NEW p \in Caller
  PROVE  /\ bulk[p] \in Call
         /\ bulk[p].req \in Requests /\ bulk[p].refUid \in 0..Len(log)
         /\ bulk[p].left \subseteq Msg /\ bulk[p].got \subseteq DOMAIN log
<1>1. bulk[p] \in Call
  BY DEF TypeOK, CallerOK
<1> QED BY <1>1 DEF Call

LEMMA BulkChunkAdds ==
  ASSUME TypeOK, NEW p \in Caller, BulkChunk(p)
  PROVE  Added
<1> QED BY CallTyped, BulkChunkInserts, InsertAdds

\* Every step adds one row, or drops some.
LEMMA TableSteps ==
  ASSUME TypeOK, [Next]_vars
  PROVE  Added \/ \E D : Dropped(D)
<1>1. CASE Callers
  <2>1. CASE \E req \in Requests : EnqueueSingle(req)
    <3>1. PICK req \in Requests, refUid \in 0..Len(log) : Insert(req, {}, refUid, 0, 0)
      BY <2>1 DEF EnqueueSingle
    <3>2. {} \in SUBSET Msg /\ 0 \in Nat
      OBVIOUS
    <3> QED BY <3>1, <3>2, InsertAdds
  <2>2. CASE \E p \in Caller, req \in Requests : BulkStart(p, req)
    BY <2>2, TableKept DEF BulkStart
  <2>3. CASE \E p \in Caller : BulkChunk(p)
    BY <2>3, BulkChunkAdds
  <2>4. CASE \E p \in Caller : BulkFails(p)
    BY <2>4, TableKept DEF BulkFails
  <2>5. CASE \E p \in Caller : Compensate(p)
    BY <2>5, TableKept, AnnihilateDrops DEF Compensate
  <2>6. CASE \E group \in 1..Len(log) : Undo(group)
    BY <2>6, AnnihilateDrops DEF Undo
  <2> QED BY <1>1, <2>1, <2>2, <2>3, <2>4, <2>5, <2>6 DEF Callers
<1>2. CASE Dispatch
  <2>1. CASE Finalize
    BY <2>1, FinalizeDrops
  <2>2. CASE Claim \/ Persist \/ ResolvePage \/ Recover
    BY <2>2, PassRewrites
  <2>3. CASE ~(Finalize \/ Claim \/ Persist \/ ResolvePage \/ Recover)
    <3>1. UNCHANGED table
      BY <1>2, <2>3 DEF Dispatch, Probe, ClaimFails, Abandon, FailUnsent, CallFails,
         MoveCall, CreateCall, CreateRefused, Adopt, Refile, RenameCall, DeleteCall,
         Replay, ResolveEnd, RecordFails, FinalizeFails, RecoverFails
    <3> QED BY <3>1, TableKept
  <2> QED BY <2>1, <2>2, <2>3
<1>3. CASE Tick \/ Restart
  BY <1>3, TickKeeps
<1>4. CASE Crash \/ SyncPull \/ OtherClient \/ UNCHANGED vars
  <2>1. UNCHANGED table
    BY <1>4 DEF Crash, SyncPull, OtherClient, vars
  <2> QED BY <2>1, TableKept
<1> QED BY <1>1, <1>2, <1>3, <1>4 DEF Next

-----------------------------------------------------------------------------
(* Nothing is lost. *)

LEMMA AddedKeeps ==
  ASSUME TypeOK, NothingLost, Added
  PROVE  NothingLost'
<1>1. PICK i, r, e :
        /\ i \notin DOMAIN rows /\ rows' = Put(rows, i, r) /\ log' = Append(log, e)
        /\ r.uid = Len(log) + 1 /\ e.fate = "live"
  BY DEF Added
<1>2. Len(log) \in Nat /\ DOMAIN log = 1..Len(log)
  BY LenProperties DEF TypeOK, TableOK
<1>3. /\ DOMAIN log' = DOMAIN log \cup {Len(log) + 1}
      /\ \A u \in DOMAIN log : log'[u] = log[u]
      /\ log'[Len(log) + 1] = e
  BY <1>1, <1>2 DEF TypeOK, TableOK
<1>4. /\ DOMAIN rows' = DOMAIN rows \cup {i} /\ rows'[i] = r
      /\ \A j \in DOMAIN rows : rows'[j] = rows[j]
  BY <1>1 DEF Put
<1>5. \A j \in DOMAIN rows : rows[j].uid \in DOMAIN log /\ rows[j].uid # Len(log) + 1
  BY <1>2 DEF TypeOK, TableOK
<1>6. \A j, k \in DOMAIN rows' : rows'[j].uid = rows'[k].uid => j = k
  BY <1>1, <1>4, <1>5 DEF NothingLost
<1>7. ASSUME NEW u PROVE u \in {rows'[j].uid : j \in DOMAIN rows'}
                           <=> u \in {v \in DOMAIN log' : log'[v].fate = "live"}
  <2>1. CASE u = Len(log) + 1
    BY <1>1, <1>3, <1>4, <2>1
  <2>2. CASE u # Len(log) + 1
    <3>1. u \in {rows'[j].uid : j \in DOMAIN rows'} <=> u \in {rows[j].uid : j \in DOMAIN rows}
      BY <1>1, <1>4, <2>2
    <3>2. u \in {v \in DOMAIN log' : log'[v].fate = "live"}
            <=> u \in {v \in DOMAIN log : log[v].fate = "live"}
      BY <1>3, <2>2
    <3> QED BY <3>1, <3>2 DEF NothingLost
  <2> QED BY <2>1, <2>2
<1> QED BY <1>6, <1>7 DEF NothingLost

LEMMA DroppedKeeps ==
  ASSUME NothingLost, NEW D, Dropped(D)
  PROVE  NothingLost'
<1>1. \A i, j \in DOMAIN rows' : rows'[i].uid = rows'[j].uid => i = j
  BY DEF NothingLost, Dropped
<1>2. ASSUME NEW u PROVE u \in {rows'[j].uid : j \in DOMAIN rows'}
                           <=> u \in {v \in DOMAIN log' : log'[v].fate = "live"}
  <2>1. u \in {rows'[j].uid : j \in DOMAIN rows'}
          <=> \E i \in DOMAIN rows : i \notin D /\ rows[i].uid = u
    BY DEF Dropped
  <2>2. u \in {v \in DOMAIN log' : log'[v].fate = "live"}
          <=> /\ u \in DOMAIN log /\ log[u].fate = "live"
              /\ ~ \E i \in DOMAIN rows \cap D : rows[i].uid = u
    BY DEF Dropped
  <2>3. u \in DOMAIN log /\ log[u].fate = "live" <=> \E i \in DOMAIN rows : rows[i].uid = u
    BY DEF NothingLost
  <2>4. \A i, j \in DOMAIN rows : rows[i].uid = rows[j].uid => i = j
    BY DEF NothingLost
  <2> QED BY <2>1, <2>2, <2>3, <2>4
<1> QED BY <1>1, <1>2 DEF NothingLost

\* Whatever crashes, transactions that fail and passes that overlap with
\* callers do, an intent with no fate yet has exactly one row (SY-4).
THEOREM NothingIsLost == Spec => []NothingLost
<1>1. Init => NothingLost
  <2> SUFFICES ASSUME Init PROVE NothingLost
    OBVIOUS
  <2>1. DOMAIN rows = {} /\ DOMAIN log = {}
    <3>1. log = <<>> /\ rows = Empty
      BY DEF Init
    <3> QED BY <3>1, EmptySeq, LenProperties, EmptyTyped
  <2> QED BY <2>1 DEF NothingLost
<1>2. TypeOK /\ NothingLost /\ [Next]_vars => NothingLost'
  BY TableSteps, AddedKeeps, DroppedKeeps
<1> QED BY <1>1, <1>2, TypeCorrect, PTL DEF Spec

-----------------------------------------------------------------------------
(* Claim discipline. *)

\* ClaimDiscipline is not inductive by itself: that Finalize and Recover put
\* back exactly the claimed rows needs the shape of the pass, and that Restart
\* finds nothing claimed needs the shape of a dead process.
PassShape ==
  /\ (phase \in {"idle", "claim"} \/ ~up) => claim = Empty
  /\ ~up => phase = "idle" /\ stranded = {}
  /\ phase \notin {"idle", "claim"} => DOMAIN decided \subseteq DOMAIN claim
  /\ phase \in {"persist", "resolve"} => DOMAIN out \subseteq DOMAIN claim
  /\ phase = "recover" => DOMAIN claim \subseteq DOMAIN decided

\* A step that leaves every row in its state, whatever else it does to it.
StatesKept ==
  /\ DOMAIN rows' = DOMAIN rows
  /\ \A i \in DOMAIN rows : rows'[i].state = rows[i].state /\ rows'[i].uid = rows[i].uid

LEMMA DecideShape ==
  ASSUME PassShape, NEW d, DOMAIN d \subseteq DOMAIN claim, Decide(d),
         phase \notin {"idle", "claim"}, UNCHANGED <<claim, up, stranded>>
  PROVE  PassShape'
<1>1. up
  BY DEF PassShape
<1>2. DOMAIN decided' = DOMAIN decided \cup DOMAIN d /\ phase' = "dispatch"
  BY OverDomain DEF Decide
<1> QED BY <1>1, <1>2 DEF PassShape

LEMMA DecideAllShape ==
  ASSUME PassShape, NEW S, S \subseteq DOMAIN claim, NEW x, DecideAll(S, x),
         phase \notin {"idle", "claim"}, UNCHANGED <<claim, up, stranded>>
  PROVE  PassShape'
<1>1. DOMAIN [i \in S |-> x] \subseteq DOMAIN claim
  OBVIOUS
<1> HIDE DEF PassShape
<1> QED BY <1>1, DecideShape DEF DecideAll

LEMMA MembersClaimed ==
  ASSUME NEW c \in Undecided
  PROVE  Members(c) \subseteq DOMAIN claim /\ {c} \subseteq DOMAIN claim
  BY GroupClaimed DEF Members, Undecided

\* The attempts of a pass keep its shape.
LEMMA AttemptShape ==
  ASSUME TypeOK, PassShape,
         \/ Abandon \/ FailUnsent \/ CallFails \/ MoveCall \/ CreateCall \/ CreateRefused
         \/ Adopt \/ Refile \/ RenameCall \/ DeleteCall \/ Replay \/ ResolveEnd \/ RecordFails
  PROVE  PassShape'
<1>1. UNCHANGED <<claim, up, stranded>>
  BY DEF Abandon, FailUnsent, CallFails, MoveCall, CreateCall, CreateRefused,
     Adopt, Refile, RenameCall, DeleteCall, Replay, ResolveEnd, RecordFails, loop
<1>2. phase \in {"dispatch", "adopt", "refile", "persist", "resolve"} /\ up
  BY DEF Abandon, FailUnsent, CallFails, MoveCall, CreateCall, CreateRefused,
     Adopt, Refile, RenameCall, DeleteCall, Replay, ResolveEnd, RecordFails, Turn, Calling
<1>3. CASE Abandon
  <2>1. Undecided \subseteq DOMAIN claim
    BY DEF Undecided
  <2> QED BY <1>1, <1>2, <1>3, <2>1, DecideAllShape DEF Abandon
<1>4. CASE FailUnsent \/ CallFails \/ RecordFails
  <2>1. PICK c \in Undecided : \E x : DecideAll({c}, x) \/ DecideAll(Members(c), x)
    BY <1>4 DEF FailUnsent, CallFails, RecordFails
  <2> QED BY <1>1, <1>2, <2>1, MembersClaimed, DecideAllShape
<1>5. CASE MoveCall
  <2>1. PICK c \in Undecided : \E d : Decide(d) /\ DOMAIN d = {c}
    <3>1. PICK c \in Undecided :
            \/ \E refused : \E d \in Results({c}, Target(c), refused, boxes) : Decide(d)
            \/ DecideAll({c}, Failed("connection"))
      BY <1>5 DEF MoveCall
    <3> QED BY <3>1, ResultsTyped DEF DecideAll
  <2> QED BY <1>1, <1>2, <2>1, MembersClaimed, DecideShape
<1>6. CASE RenameCall \/ DeleteCall
  <2>1. PICK c \in Undecided : \E x : DecideAll({c}, x)
    BY <1>6 DEF RenameCall, DeleteCall
  <2> QED BY <1>1, <1>2, <2>1, MembersClaimed, DecideAllShape
<1>7. CASE CreateCall \/ Refile
  <2>1. PICK c \in Undecided :
          \/ \E sid, refused, mailboxes :
               /\ out' \in Results(Group(c), sid, refused, mailboxes)
               /\ phase' = "persist" /\ UNCHANGED <<decided, stopped>>
          \/ DecideAll(Members(c), Failed("connection"))
    BY <1>7, Zenon DEF CreateCall, Refile
  <2>2. CASE DecideAll(Members(c), Failed("connection"))
    BY <1>1, <1>2, <2>2, MembersClaimed, DecideAllShape
  <2>3. CASE \E sid, refused, mailboxes :
               /\ out' \in Results(Group(c), sid, refused, mailboxes)
               /\ phase' = "persist" /\ UNCHANGED <<decided, stopped>>
    <3>1. DOMAIN out' \subseteq DOMAIN claim
      BY <2>3, ResultsTyped, GroupClaimed
    <3> QED BY <1>1, <1>2, <2>3, <3>1 DEF PassShape
  <2> QED BY <2>1, <2>2, <2>3
<1>8. CASE CreateRefused
  <2>1. PICK c \in Undecided :
          \/ DecideAll(Members(c), Failed("server"))
          \/ phase' = "adopt" /\ UNCHANGED <<decided, stopped>>
    BY <1>8 DEF CreateRefused
  <2>2. CASE phase' = "adopt" /\ UNCHANGED <<decided, stopped>>
    BY <1>1, <1>2, <2>2 DEF PassShape
  <2> QED BY <1>1, <1>2, <2>1, <2>2, MembersClaimed, DecideAllShape
<1>9. CASE Adopt
  <2>1. PICK c \in Undecided :
          \/ phase' \in {"persist", "refile"} /\ UNCHANGED <<decided, stopped>>
          \/ DecideAll(Members(c), Refused("server"))
    BY <1>9 DEF Adopt
  <2>2. CASE phase' \in {"persist", "refile"} /\ UNCHANGED <<decided, stopped>>
    <3>1. DOMAIN out' = {}
      BY <1>9, EmptyTyped DEF Adopt
    <3> QED BY <1>1, <1>2, <2>2, <3>1 DEF PassShape
  <2> QED BY <1>1, <1>2, <2>1, <2>2, MembersClaimed, DecideAllShape
<1>10. CASE Replay
  <2>1. DOMAIN out' = {} /\ phase' = "resolve" /\ UNCHANGED decided
    BY <1>10, EmptyTyped DEF Replay
  <2> QED BY <1>1, <1>2, <2>1 DEF PassShape
<1>11. CASE ResolveEnd
  <2>1. PICK c \in DOMAIN claim : Decide(Put(out, c, Delivered)) /\ phase = "resolve"
    BY <1>11 DEF ResolveEnd, Undecided, Turn
  <2>2. DOMAIN Put(out, c, Delivered) \subseteq DOMAIN claim
    <3>1. DOMAIN Put(out, c, Delivered) = DOMAIN out \cup {c}
      BY PutDomain
    <3>2. DOMAIN out \subseteq DOMAIN claim
      BY <2>1 DEF PassShape
    <3> QED BY <3>1, <3>2
  <2> QED BY <1>1, <1>2, <2>1, <2>2, DecideShape
<1> QED BY <1>3, <1>4, <1>5, <1>6, <1>7, <1>8, <1>9, <1>10, <1>11

\* The inductive invariant (with TypeOK) behind ClaimDiscipline.
Disciplined == PassShape /\ ClaimDiscipline

\* The pass is where it was: only the table may have changed.
PassKept == UNCHANGED <<up, phase, claim, decided, out, stranded>>

LEMMA ShapeKept ==
  ASSUME PassShape, PassKept
  PROVE  PassShape'
  BY DEF PassShape, PassKept

LEMMA StatesKeptDiscipline ==
  ASSUME ClaimDiscipline, StatesKept, UNCHANGED <<claim, up, stranded>>
  PROVE  ClaimDiscipline'
<1>1. Dispatching' = Dispatching
  BY DEF Dispatching, StatesKept
<1>2. ASSUME up PROVE DOMAIN claim \subseteq DOMAIN rows
  BY <1>2 DEF ClaimDiscipline, Dispatching
<1> QED BY <1>1, <1>2 DEF ClaimDiscipline, StatesKept

LEMMA TableKeptDiscipline ==
  ASSUME ClaimDiscipline, UNCHANGED table, UNCHANGED <<claim, up, stranded>>
  PROVE  ClaimDiscipline'
  BY StatesKeptDiscipline DEF StatesKept, table

\* A new row is queued, under an id no row has.
LEMMA AddedDiscipline ==
  ASSUME Disciplined, Added, PassKept
  PROVE  Disciplined'
<1>1. PICK i, r : i \notin DOMAIN rows /\ rows' = Put(rows, i, r) /\ r.state = "queued"
  BY DEF Added
<1>2. /\ DOMAIN rows' = DOMAIN rows \cup {i} /\ rows'[i] = r
      /\ \A j \in DOMAIN rows : rows'[j] = rows[j]
  BY <1>1 DEF Put
<1>3. Dispatching' = Dispatching
  BY <1>1, <1>2 DEF Dispatching
<1>4. ASSUME up PROVE DOMAIN claim \subseteq DOMAIN rows
  BY <1>4 DEF Disciplined, ClaimDiscipline, Dispatching
<1>5. ClaimDiscipline'
  BY <1>2, <1>3, <1>4 DEF Disciplined, ClaimDiscipline, PassKept
<1> QED BY <1>5, ShapeKept DEF Disciplined

\* An annihilating transaction catches queued rows only.
LEMMA AnnihilateDiscipline ==
  ASSUME TypeOK, Disciplined, NEW ids, NEW meant, Annihilate(ids, meant), PassKept
  PROVE  Disciplined'
<1>1. /\ DOMAIN rows' = DOMAIN rows \ Caught(ids)
      /\ \A i \in DOMAIN rows' : rows'[i] = rows[i]
  BY AnnihilateDrops DEF Dropped
<1>2. Caught(ids) \cap Dispatching = {}
  BY DEF Caught, IsQueued, Dispatching
<1>3. Dispatching' = Dispatching
  BY <1>1, <1>2 DEF Dispatching
<1>4. ASSUME up PROVE DOMAIN claim \subseteq DOMAIN rows'
  BY <1>1, <1>2, <1>4 DEF Disciplined, ClaimDiscipline, Dispatching
<1>5. ClaimDiscipline'
  BY <1>1, <1>3, <1>4 DEF Disciplined, ClaimDiscipline, PassKept
<1> QED BY <1>5, ShapeKept DEF Disciplined

LEMMA CallersDiscipline ==
  ASSUME TypeOK, Disciplined, Callers
  PROVE  Disciplined'
<1>1. PassKept
  BY DEF Callers, EnqueueSingle, BulkStart, BulkChunk, BulkFails, Compensate, Undo,
     PassKept, pass, loop
<1>2. CASE \E req \in Requests : EnqueueSingle(req)
  <2>1. PICK req \in Requests, refUid \in 0..Len(log) : Insert(req, {}, refUid, 0, 0)
    BY <1>2 DEF EnqueueSingle
  <2>2. {} \in SUBSET Msg /\ 0 \in Nat
    OBVIOUS
  <2> QED BY <1>1, <2>1, <2>2, InsertAdds, AddedDiscipline
<1>3. CASE \E p \in Caller : BulkChunk(p)
  BY <1>1, <1>3, BulkChunkAdds, AddedDiscipline
<1>4. CASE (\E p \in Caller : Compensate(p)) /\ ~UNCHANGED table
  BY <1>1, <1>4, AnnihilateDiscipline DEF Compensate
<1>5. CASE \E group \in 1..Len(log) : Undo(group)
  BY <1>1, <1>5, AnnihilateDiscipline DEF Undo
<1>6. CASE UNCHANGED table
  <2>1. UNCHANGED <<claim, up, stranded>>
    BY <1>1 DEF PassKept
  <2> QED BY <1>1, <1>6, <2>1, ShapeKept, TableKeptDiscipline DEF Disciplined
<1>7. (\E p \in Caller : BulkFails(p) \/ \E req \in Requests : BulkStart(p, req))
        => UNCHANGED table
  BY DEF BulkStart, BulkFails
<1> QED BY <1>2, <1>3, <1>4, <1>5, <1>6, <1>7 DEF Callers

\* The rows a pass claims were queued, hence nobody's.
LEMMA ClaimDisciplined ==
  ASSUME TypeOK, Disciplined, Claim
  PROVE  Disciplined'
<1>1. Claimable \subseteq DOMAIN rows /\ \A i \in Claimable : rows[i].state = "queued"
  BY DEF Claimable, Eligible
<1>2. /\ up /\ claim = Empty /\ DOMAIN claim = {}
      /\ UNCHANGED <<up, stranded>> /\ decided' = Empty /\ DOMAIN decided' = {}
      /\ phase' = IF Claimable = {} THEN "idle" ELSE "dispatch"
  BY EmptyTyped DEF Claim, Disciplined, PassShape, loop
<1>3. DOMAIN claim' = Claimable /\ \A i \in Claimable : claim'[i].uid = rows[i].uid
  BY DEF Claim, ResolveClaim
<1>4. claim' = Empty \/ Claimable # {}
  BY DEF Claim, Empty
<1>5. PassShape'
  BY <1>2, <1>3, <1>4 DEF PassShape
<1>6. \A i \in DOMAIN rows : rows[i] \in Row
  BY DEF TypeOK, TableOK, Functional
<1>7. /\ DOMAIN rows' = DOMAIN rows
      /\ \A i \in DOMAIN rows : rows'[i].uid = rows[i].uid
      /\ \A i \in DOMAIN rows : rows'[i].state = IF i \in Claimable THEN "dispatching"
                                                                   ELSE rows[i].state
  BY <1>6 DEF Claim, Row
<1>8. Dispatching' = Dispatching \cup Claimable
  BY <1>1, <1>7 DEF Dispatching
<1>9. Claimable \cap Dispatching = {}
  BY <1>1 DEF Dispatching
<1>10. ClaimDiscipline'
  BY <1>1, <1>2, <1>3, <1>7, <1>8, <1>9 DEF Disciplined, ClaimDiscipline
<1> QED BY <1>5, <1>10 DEF Disciplined

\* A pass that ends puts back or deletes every row it claimed, and no other.
LEMMA PutBackDiscipline ==
  ASSUME TypeOK, Disciplined, Finalize \/ Recover
  PROVE  Disciplined'
<1>1. DOMAIN decided = DOMAIN claim
  <2>1. CASE Finalize
    BY <2>1 DEF Finalize, Deciding, Undecided, Disciplined, PassShape
  <2>2. CASE Recover
    BY <2>2 DEF Recover, Disciplined, PassShape
  <2> QED BY <2>1, <2>2
<1>2. /\ up /\ phase' = "idle" /\ claim' = Empty /\ DOMAIN claim' = {}
      /\ UNCHANGED <<up, stranded>>
  BY EmptyTyped DEF Finalize, Deciding, Recover, loop
<1>3. PassShape'
  BY <1>2 DEF PassShape
<1>4. PICK D :
        /\ D \cap DOMAIN decided = D
        /\ rows' = [i \in DOMAIN rows \ D |->
                      IF i \in Pausing THEN Requeue(rows[i], decided[i].class)
                      ELSE IF i \in DOMAIN decided THEN Revert(rows[i]) ELSE rows[i]]
  <2>1. CASE Finalize
    <3>1. Leaving \cap DOMAIN decided = Leaving
      BY DEF Leaving
    <3> QED BY <2>1, <3>1 DEF Finalize
  <2>2. CASE Recover
    <3>1. {} \cap DOMAIN decided = {} /\ DOMAIN rows \ {} = DOMAIN rows
      OBVIOUS
    <3> QED BY <2>2, <3>1 DEF Recover
  <2> QED BY <2>1, <2>2
<1>5. \A i \in DOMAIN rows : rows[i] \in Row
  BY DEF TypeOK, TableOK, Functional
<1>6. \A r \in Row : \A class : Requeue(r, class).state = "queued" /\ Revert(r).state = "queued"
  BY DEF Requeue, Revert, Row
<1>7. ASSUME NEW i \in DOMAIN rows'
      PROVE  rows'[i].state = IF i \in DOMAIN decided THEN "queued" ELSE rows[i].state
  <2>1. i \in DOMAIN rows /\ (i \in Pausing => i \in DOMAIN decided)
    BY <1>4 DEF Pausing
  <2> QED BY <1>4, <1>5, <1>6, <2>1
<1>8. Dispatching' = Dispatching \ DOMAIN claim
  BY <1>1, <1>4, <1>7 DEF Dispatching
<1>9. ClaimDiscipline'
  BY <1>2, <1>8 DEF Disciplined, ClaimDiscipline
<1> QED BY <1>3, <1>9 DEF Disciplined

LEMMA DispatchDiscipline ==
  ASSUME TypeOK, Disciplined, Dispatch
  PROVE  Disciplined'
<1>1. CASE Claim
  BY <1>1, ClaimDisciplined
<1>2. CASE Finalize \/ Recover
  BY <1>2, PutBackDiscipline
<1>3. CASE Persist \/ ResolvePage
  <2>1. \A i \in DOMAIN rows : rows[i] \in Row
    BY DEF TypeOK, TableOK, Functional
  <2>2. StatesKept
    <3>1. CASE Persist
      BY <2>1, <3>1 DEF StatesKept, Persist, Row
    <3>2. CASE ResolvePage
      BY <2>1, <3>2 DEF StatesKept, ResolvePage, Row
    <3> QED BY <1>3, <3>1, <3>2
  <2>3. UNCHANGED <<up, stranded, claim, decided, out>> /\ up
        /\ phase' = "resolve" /\ phase \in {"persist", "resolve"}
    BY <1>3 DEF Persist, ResolvePage, Turn, loop
  <2>4. PassShape'
    BY <2>3 DEF Disciplined, PassShape
  <2> QED BY <2>2, <2>3, <2>4, StatesKeptDiscipline DEF Disciplined
<1>4. CASE \/ Abandon \/ FailUnsent \/ CallFails \/ MoveCall \/ CreateCall \/ CreateRefused
           \/ Adopt \/ Refile \/ RenameCall \/ DeleteCall \/ Replay \/ ResolveEnd \/ RecordFails
  <2>1. UNCHANGED <<table, claim, up, stranded>>
    BY <1>4 DEF Abandon, FailUnsent, CallFails, MoveCall, CreateCall, CreateRefused,
       Adopt, Refile, RenameCall, DeleteCall, Replay, ResolveEnd, RecordFails, loop
  <2>2. ClaimDiscipline'
    BY <2>1, TableKeptDiscipline DEF Disciplined
  <2>3. PassShape'
    BY <1>4, AttemptShape DEF Disciplined
  <2> QED BY <2>2, <2>3 DEF Disciplined
<1>5. CASE Probe \/ ClaimFails \/ FinalizeFails
  <2>1. UNCHANGED <<table, claim, up, stranded, decided, out>> /\ up
    BY <1>5 DEF Probe, ClaimFails, FinalizeFails, Deciding, loop
  <2>2. \/ phase \in {"idle", "claim"} /\ phase' \in {"idle", "claim"}
        \/ phase = "dispatch" /\ phase' = "recover" /\ Undecided = {}
    BY <1>5 DEF Probe, ClaimFails, FinalizeFails, Deciding
  <2>3. PassShape'
    BY <2>1, <2>2 DEF Disciplined, PassShape, Undecided
  <2> QED BY <2>1, <2>3, TableKeptDiscipline DEF Disciplined
<1>6. CASE RecoverFails
  <2>1. /\ up /\ up' = up /\ phase' = "idle" /\ claim' = Empty /\ DOMAIN claim' = {}
        /\ stranded' = stranded \cup DOMAIN claim /\ rows' = rows
    BY <1>6, EmptyTyped DEF RecoverFails, table
  <2>2. PassShape'
    BY <2>1 DEF PassShape
  <2>3. Dispatching' = Dispatching
    BY <2>1 DEF Dispatching
  <2>4. ClaimDiscipline'
    BY <2>1, <2>3 DEF Disciplined, ClaimDiscipline
  <2> QED BY <2>2, <2>4 DEF Disciplined
<1> QED BY <1>1, <1>2, <1>3, <1>4, <1>5, <1>6 DEF Dispatch

LEMMA OutsideDiscipline ==
  ASSUME TypeOK, Disciplined,
         Tick \/ Crash \/ Restart \/ SyncPull \/ OtherClient \/ UNCHANGED vars
  PROVE  Disciplined'
<1>1. \A i \in DOMAIN rows : rows[i] \in Row
  BY DEF TypeOK, TableOK, Functional
<1>2. CASE Tick
  <2>1. \A i \in DOMAIN rows : \E w : rows'[i] = [rows[i] EXCEPT !.wait = w]
    BY <1>2 DEF Tick
  <2>2. DOMAIN rows' = DOMAIN rows
    BY <1>2 DEF Tick
  <2>3. StatesKept
    BY <1>1, <2>1, <2>2 DEF StatesKept, Row
  <2>4. PassKept
    BY <1>2 DEF Tick, PassKept, pass
  <2>5. UNCHANGED <<claim, up, stranded>>
    BY <2>4 DEF PassKept
  <2> QED BY <2>3, <2>4, <2>5, ShapeKept, StatesKeptDiscipline DEF Disciplined
<1>3. CASE Crash
  BY <1>3, EmptyTyped DEF Crash, Disciplined, PassShape, ClaimDiscipline
<1>4. CASE Restart
  <2>1. claim = Empty /\ DOMAIN claim = {} /\ stranded = {} /\ ~up /\ phase = "idle"
    BY <1>4, EmptyTyped DEF Restart, Disciplined, PassShape
  <2>2. UNCHANGED <<claim, stranded, phase>>
    BY <1>4 DEF Restart, pass
  <2>3. PassShape'
    BY <2>1, <2>2 DEF PassShape
  <2>4. Dispatching' = {}
    BY <1>1, <1>4 DEF Restart, Dispatching, Row
  <2>5. ClaimDiscipline'
    BY <2>1, <2>2, <2>4 DEF ClaimDiscipline
  <2> QED BY <2>3, <2>5 DEF Disciplined
<1>5. CASE SyncPull \/ OtherClient \/ UNCHANGED vars
  <2>1. PassKept /\ UNCHANGED table /\ UNCHANGED <<claim, up, stranded>>
    BY <1>5 DEF SyncPull, OtherClient, vars, PassKept, pass, loop
  <2> QED BY <2>1, ShapeKept, TableKeptDiscipline DEF Disciplined
<1> QED BY <1>2, <1>3, <1>4, <1>5

LEMMA InitDisciplined == Init => Disciplined
<1> SUFFICES ASSUME Init PROVE Disciplined
  OBVIOUS
<1>1. DOMAIN rows = {} /\ DOMAIN claim = {}
  BY EmptyTyped DEF Init
<1> QED BY <1>1 DEF Init, Disciplined, PassShape, ClaimDiscipline, Dispatching

LEMMA DisciplinedAlways == Spec => []Disciplined
<1>1. TypeOK /\ Disciplined /\ [Next]_vars => Disciplined'
  BY CallersDiscipline, DispatchDiscipline, OutsideDiscipline DEF Next
<1> QED BY <1>1, InitDisciplined, TypeCorrect, PTL DEF Spec

\* While a process runs, the rows in dispatching are those of its pass and
\* those a failed recovery stranded, and each is still the intent the pass
\* claimed (ADR-0006 revision 2): no caller, sweep or clock comes between.
THEOREM ClaimsAreDisciplined == Spec => []ClaimDiscipline
<1>1. Disciplined => ClaimDiscipline
  BY DEF Disciplined
<1> QED BY <1>1, DisciplinedAlways, PTL

-----------------------------------------------------------------------------
(* What was delivered was applied. *)

\* A plan's or a batch's deliveries are of intents the server has applied.
Vouched(f) == \A i \in DOMAIN f : f[i].why = "delivered" => claim[i].uid \in applied

\* DeliveredWasApplied is decided passes earlier: the finalize action a pass
\* has settled on, the batch answers it holds, the create whose mailbox it is
\* recording, and the server id a row or a claim carries, each is of an intent
\* the server has applied.
PlanHonest ==
  /\ phase \notin {"idle", "claim"} => Vouched(decided)
  /\ phase \in {"persist", "resolve"} => Vouched(out)
  /\ phase \in {"refile", "persist", "resolve"} =>
       \A c \in Least(Undecided) : claim[c].uid \in applied
PayloadsHonest ==
  /\ \A i \in DOMAIN rows : rows[i].pay.resolvedSid # None => rows[i].uid \in applied
  /\ \A i \in DOMAIN claim : claim[i].pay.resolvedSid # None => claim[i].uid \in applied
Honest == DeliveredWasApplied /\ PlanHonest /\ PayloadsHonest

\* A move answered as delivered filed every message it names.
LEMMA ResultsHonest ==
  ASSUME NEW S, NEW sid, NEW refused, NEW mailboxes,
         NEW d \in Results(S, sid, refused, mailboxes), NEW i \in DOMAIN d,
         d[i].why = "delivered"
  PROVE  claim[i].uid \in Filed(S, sid, refused, mailboxes)
<1> DEFINE missed == claim[i].pay.msgs \ Movable(i, sid, refused, mailboxes)
<1>1. i \in S /\ d[i] \in Outcomes(i, sid, refused, mailboxes)
  BY ResultsTyped DEF Results
<1>2. missed = {}
  <2> SUFFICES ASSUME missed # {} PROVE FALSE
    OBVIOUS
  <2>1. PICK m \in missed : d[i] = Failed(Classify(m, refused))
    BY <1>1 DEF Outcomes
  <2> QED BY <2>1 DEF Failed
<1>3. Movable(i, sid, refused, mailboxes) \subseteq claim[i].pay.msgs
  BY DEF Movable
<1>4. claim[i].pay.msgs = Movable(i, sid, refused, mailboxes)
  BY <1>2, <1>3
<1> QED BY <1>1, <1>4 DEF Filed

\* The server's record of what it applied only grows.
LEMMA AppliedGrows ==
  ASSUME [Next]_vars
  PROVE  applied \subseteq applied'
<1>1. CASE \/ Callers \/ Tick \/ Crash \/ Restart \/ SyncPull \/ OtherClient \/ UNCHANGED vars
  BY <1>1 DEF Callers, EnqueueSingle, BulkStart, BulkChunk, BulkFails, Compensate, Undo,
     Tick, Crash, Restart, SyncPull, OtherClient, vars, server
<1>2. CASE MoveCall \/ CreateCall \/ Adopt \/ Refile \/ RenameCall \/ DeleteCall
  BY <1>2, Zenon DEF MoveCall, CreateCall, Adopt, Refile, RenameCall, DeleteCall
<1>3. CASE \/ Probe \/ Claim \/ ClaimFails \/ Abandon \/ FailUnsent \/ CallFails
           \/ CreateRefused \/ Replay \/ Persist \/ ResolvePage \/ ResolveEnd \/ RecordFails
           \/ Finalize \/ FinalizeFails \/ Recover \/ RecoverFails
  BY <1>3 DEF Probe, Claim, ClaimFails, Abandon, FailUnsent, CallFails, CreateRefused,
     Replay, Persist, ResolvePage, ResolveEnd, RecordFails, Finalize, FinalizeFails,
     Recover, RecoverFails, server
<1> QED BY <1>1, <1>2, <1>3 DEF Next, Dispatch

\* A step that gives no intent the fate "delivered" keeps DeliveredWasApplied.
LEMMA NoneDelivered ==
  ASSUME DeliveredWasApplied, applied \subseteq applied',
         \A u \in DOMAIN log' :
           log'[u].fate = "delivered" => u \in DOMAIN log /\ log[u].fate = "delivered"
  PROVE  DeliveredWasApplied'
  BY DEF DeliveredWasApplied

\* The pass settles on d, whose deliveries the server has applied.
LEMMA DecideHonest ==
  ASSUME Honest, applied \subseteq applied', UNCHANGED <<rows, log, claim>>,
         phase \notin {"idle", "claim"}, NEW d, Decide(d),
         \A i \in DOMAIN d : d[i].why = "delivered" => claim[i].uid \in applied'
  PROVE  Honest'
<1>1. /\ phase' = "dispatch" /\ DOMAIN decided' = DOMAIN decided \cup DOMAIN d
      /\ \A i \in DOMAIN decided' : decided'[i] = IF i \in DOMAIN d THEN d[i] ELSE decided[i]
  BY DEF Decide, Over
<1>2. Vouched(decided)
  BY DEF Honest, PlanHonest
<1>3. PlanHonest'
  BY <1>1, <1>2 DEF PlanHonest, Vouched
<1>4. PayloadsHonest'
  BY DEF Honest, PayloadsHonest
<1>5. DeliveredWasApplied'
  BY NoneDelivered DEF Honest
<1> QED BY <1>3, <1>4, <1>5 DEF Honest

\* It settles on one decision that delivers nothing.
LEMMA DecideAllHonest ==
  ASSUME Honest, applied \subseteq applied', UNCHANGED <<rows, log, claim>>,
         phase \notin {"idle", "claim"}, NEW S, NEW x, DecideAll(S, x), x.why # "delivered"
  PROVE  Honest'
<1>1. \A i \in DOMAIN [j \in S |-> x] :
         [j \in S |-> x][i].why = "delivered" => claim[i].uid \in applied'
  OBVIOUS
<1> HIDE DEF Honest
<1> QED BY <1>1, DecideHonest DEF DecideAll

LEMMA NotDeliveries ==
  /\ Reverted.why # "delivered"
  /\ \A class : Failed(class).why # "delivered" /\ Refused(class).why # "delivered"
  BY DEF Reverted, Failed, Refused

\* The pass goes on to the next stage of the create under way.
LEMMA StageHonest ==
  ASSUME Honest, applied \subseteq applied', UNCHANGED <<rows, log, claim, decided>>,
         phase \notin {"idle", "claim"},
         phase' \in {"persist", "resolve"} =>
           \A i \in DOMAIN out' : out'[i].why = "delivered" => claim[i].uid \in applied',
         phase' \in {"refile", "persist", "resolve"} =>
           \A c \in Least(Undecided) : claim[c].uid \in applied'
  PROVE  Honest'
<1>1. Undecided' = Undecided
  BY DEF Undecided
<1>2. Vouched(decided)
  BY DEF Honest, PlanHonest
<1>3. PlanHonest'
  BY <1>1, <1>2 DEF PlanHonest, Vouched, Least
<1>4. PayloadsHonest'
  BY DEF Honest, PayloadsHonest
<1>5. DeliveredWasApplied'
  BY NoneDelivered DEF Honest
<1> QED BY <1>3, <1>4, <1>5 DEF Honest

\* Turn names one intent: the least undecided.
LEMMA OneLeast ==
  ASSUME TypeOK, NEW c \in Least(Undecided), NEW d \in Least(Undecided)
  PROVE  c = d
<1>1. c \in Nat /\ d \in Nat
  BY DEF TypeOK, PassOK, Least, Undecided
<1>2. c <= d /\ d <= c
  BY DEF Least
<1> QED BY <1>1, <1>2

\* The attempts of a pass keep the record honest.
LEMMA AttemptHonest ==
  ASSUME TypeOK, PassShape, Honest,
         \/ Abandon \/ FailUnsent \/ CallFails \/ MoveCall \/ CreateCall \/ CreateRefused
         \/ Adopt \/ Refile \/ RenameCall \/ DeleteCall \/ Replay \/ ResolveEnd \/ RecordFails
  PROVE  Honest'
<1>1. UNCHANGED <<rows, log, claim>>
  BY DEF Abandon, FailUnsent, CallFails, MoveCall, CreateCall, CreateRefused,
     Adopt, Refile, RenameCall, DeleteCall, Replay, ResolveEnd, RecordFails, table
<1>2. phase \notin {"idle", "claim"} /\ [Next]_vars
  BY DEF Abandon, FailUnsent, CallFails, MoveCall, CreateCall, CreateRefused,
     Adopt, Refile, RenameCall, DeleteCall, Replay, ResolveEnd, RecordFails, Turn, Calling,
     Next, Dispatch
<1>3. applied \subseteq applied'
  BY <1>2, AppliedGrows
<1>4. CASE Abandon \/ FailUnsent \/ CallFails \/ RecordFails
  <2>1. \E S, x : DecideAll(S, x) /\ x.why # "delivered"
    BY <1>4, NotDeliveries DEF Abandon, FailUnsent, CallFails, RecordFails
  <2> QED BY <1>1, <1>2, <1>3, <2>1, DecideAllHonest
<1>5. CASE MoveCall
  <2>1. PICK c \in Undecided :
          \/ \E refused :
               \E d \in Results({c}, Target(c), refused, boxes) :
                 Decide(d) /\ applied' = applied \cup Filed({c}, Target(c), refused, boxes)
          \/ DecideAll({c}, Failed("connection"))
    BY <1>5 DEF MoveCall
  <2>2. CASE DecideAll({c}, Failed("connection"))
    BY <1>1, <1>2, <1>3, <2>2, NotDeliveries, DecideAllHonest
  <2>3. CASE \E refused :
               \E d \in Results({c}, Target(c), refused, boxes) :
                 Decide(d) /\ applied' = applied \cup Filed({c}, Target(c), refused, boxes)
    <3>1. PICK refused :
            \E d \in Results({c}, Target(c), refused, boxes) :
              Decide(d) /\ applied' = applied \cup Filed({c}, Target(c), refused, boxes)
      BY <2>3
    <3>2. PICK d \in Results({c}, Target(c), refused, boxes) :
            Decide(d) /\ applied' = applied \cup Filed({c}, Target(c), refused, boxes)
      BY <3>1
    <3>3. \A i \in DOMAIN d : d[i].why = "delivered" => claim[i].uid \in applied'
      BY <3>2, ResultsHonest
    <3> QED BY <1>1, <1>2, <1>3, <3>2, <3>3, DecideHonest
  <2> QED BY <2>1, <2>2, <2>3
<1>6. CASE CreateCall \/ Refile
  <2>1. PICK c \in Undecided :
          \/ DecideAll(Members(c), Failed("connection"))
          \/ /\ c \in Least(Undecided) /\ phase' = "persist" /\ UNCHANGED decided
             /\ \E sid, refused, mailboxes :
                  /\ out' \in Results(Group(c), sid, refused, mailboxes)
                  /\ Filed(Group(c), sid, refused, mailboxes) \subseteq applied'
             /\ claim[c].uid \in applied'
    <3>1. CASE CreateCall
      <4>1. PICK c \in Undecided :
              /\ c \in Least(Undecided)
              /\ \/ DecideAll(Members(c), Failed("connection"))
                 \/ \E refused :
                      /\ out' \in Results(Group(c), nextSid, refused, Made(c))
                      /\ applied' = applied \cup {claim[c].uid}
                                      \cup Filed(Group(c), nextSid, refused, Made(c))
                      /\ phase' = "persist" /\ UNCHANGED decided
        BY <3>1, Zenon DEF CreateCall, Calling, Turn
      <4> QED BY <4>1
    <3>2. CASE Refile
      <4>1. PICK c \in Undecided :
              /\ c \in Least(Undecided) /\ phase = "refile"
              /\ \/ DecideAll(Members(c), Failed("connection"))
                 \/ \E refused :
                      /\ out' \in Results(Group(c), newSid, refused, boxes)
                      /\ applied' = applied \cup Filed(Group(c), newSid, refused, boxes)
                      /\ phase' = "persist" /\ UNCHANGED decided
        BY <3>2, Zenon DEF Refile, Turn
      <4>2. claim[c].uid \in applied
        BY <4>1 DEF Honest, PlanHonest
      <4> QED BY <1>3, <4>1, <4>2
    <3> QED BY <1>6, <3>1, <3>2
  <2>2. CASE DecideAll(Members(c), Failed("connection"))
    BY <1>1, <1>2, <1>3, <2>2, NotDeliveries, DecideAllHonest
  <2>3. CASE /\ c \in Least(Undecided) /\ phase' = "persist" /\ UNCHANGED decided
             /\ \E sid, refused, mailboxes :
                  /\ out' \in Results(Group(c), sid, refused, mailboxes)
                  /\ Filed(Group(c), sid, refused, mailboxes) \subseteq applied'
             /\ claim[c].uid \in applied'
    <3>1. \A i \in DOMAIN out' : out'[i].why = "delivered" => claim[i].uid \in applied'
      BY <2>3, ResultsHonest
    <3>2. \A d \in Least(Undecided) : claim[d].uid \in applied'
      BY <2>3, OneLeast
    <3> QED BY <1>1, <1>2, <1>3, <2>3, <3>1, <3>2, StageHonest
  <2> QED BY <2>1, <2>2, <2>3
<1>7. CASE CreateRefused
  <2>1. \/ \E S : DecideAll(S, Failed("server"))
        \/ phase' = "adopt" /\ UNCHANGED decided
    BY <1>7 DEF CreateRefused
  <2>2. CASE phase' = "adopt" /\ UNCHANGED decided
    BY <1>1, <1>2, <1>3, <2>2, StageHonest
  <2> QED BY <1>1, <1>2, <1>3, <2>1, <2>2, NotDeliveries, DecideAllHonest
<1>8. CASE Adopt
  <2>1. PICK c \in Undecided :
          \/ DecideAll(Members(c), Refused("server"))
          \/ /\ c \in Least(Undecided) /\ phase' \in {"persist", "refile"} /\ UNCHANGED decided
             /\ claim[c].uid \in applied'
    BY <1>8 DEF Adopt, Turn
  <2>2. CASE /\ c \in Least(Undecided) /\ phase' \in {"persist", "refile"} /\ UNCHANGED decided
             /\ claim[c].uid \in applied'
    <3>1. DOMAIN out' = {}
      BY <1>8, EmptyTyped DEF Adopt
    <3>2. \A d \in Least(Undecided) : claim[d].uid \in applied'
      BY <2>2, OneLeast
    <3> QED BY <1>1, <1>2, <1>3, <2>2, <3>1, <3>2, StageHonest
  <2> QED BY <1>1, <1>2, <1>3, <2>1, <2>2, NotDeliveries, DecideAllHonest
<1>9. CASE RenameCall \/ DeleteCall
  <2>1. PICK c \in Undecided :
          \/ DecideAll({c}, Delivered) /\ claim[c].uid \in applied'
          \/ \E x : DecideAll({c}, x) /\ x.why # "delivered"
    BY <1>9, NotDeliveries DEF RenameCall, DeleteCall
  <2>2. CASE DecideAll({c}, Delivered) /\ claim[c].uid \in applied'
    <3>1. \A i \in DOMAIN [j \in {c} |-> Delivered] : claim[i].uid \in applied'
      BY <2>2
    <3> QED BY <1>1, <1>2, <1>3, <2>2, <3>1, DecideHonest DEF DecideAll
  <2> QED BY <1>1, <1>2, <1>3, <2>1, <2>2, DecideAllHonest
<1>10. CASE Replay
  <2>1. PICK c \in Undecided : c \in Least(Undecided) /\ claim[c].pay.resolvedSid # None
    BY <1>10 DEF Replay, Turn
  <2>2. claim[c].uid \in applied
    BY <2>1 DEF Honest, PayloadsHonest, Undecided
  <2>3. \A d \in Least(Undecided) : claim[d].uid \in applied'
    BY <1>3, <2>1, <2>2, OneLeast
  <2>4. DOMAIN out' = {} /\ phase' = "resolve" /\ UNCHANGED decided
    BY <1>10, EmptyTyped DEF Replay
  <2> QED BY <1>1, <1>2, <1>3, <2>3, <2>4, StageHonest
<1>11. CASE ResolveEnd
  <2>1. PICK c \in Undecided :
          /\ c \in Least(Undecided) /\ phase = "resolve" /\ Decide(Put(out, c, Delivered))
    BY <1>11 DEF ResolveEnd, Turn
  <2>2. Vouched(out) /\ claim[c].uid \in applied
    BY <2>1 DEF Honest, PlanHonest
  <2>3. \A i \in DOMAIN Put(out, c, Delivered) :
           Put(out, c, Delivered)[i].why = "delivered" => claim[i].uid \in applied'
    BY <1>3, <2>2 DEF Put, Vouched
  <2> QED BY <1>1, <1>2, <1>3, <2>1, <2>3, DecideHonest
<1> QED BY <1>4, <1>5, <1>6, <1>7, <1>8, <1>9, <1>10, <1>11

\* A step that leaves the pass and the server alone, gives no intent the fate
\* "delivered", and adds no row that carries a server id.
LEMMA TableHonest ==
  ASSUME Honest, UNCHANGED <<phase, claim, decided, out, applied>>,
         \A u \in DOMAIN log' :
           log'[u].fate = "delivered" => u \in DOMAIN log /\ log[u].fate = "delivered",
         \A i \in DOMAIN rows' :
           \/ rows'[i].pay.resolvedSid = None
           \/ /\ i \in DOMAIN rows /\ rows'[i].uid = rows[i].uid
              /\ rows'[i].pay.resolvedSid = rows[i].pay.resolvedSid
  PROVE  Honest'
<1>1. DeliveredWasApplied'
  BY DEF Honest, DeliveredWasApplied
<1>2. Undecided' = Undecided
  BY DEF Undecided
<1>3. PlanHonest'
  BY <1>2 DEF Honest, PlanHonest, Vouched, Least
<1>4. PayloadsHonest'
  BY DEF Honest, PayloadsHonest
<1> QED BY <1>1, <1>3, <1>4 DEF Honest

LEMMA InsertHonest ==
  ASSUME TypeOK, Honest, NEW req \in Requests, NEW msgs \in SUBSET Msg,
         NEW refUid \in 0..Len(log), NEW group \in Nat, NEW wait \in Nat,
         Insert(req, msgs, refUid, group, wait),
         UNCHANGED <<phase, claim, decided, out, applied>>
  PROVE  Honest'
<1>1. \E r, e : /\ rows' = Put(rows, NextId, r) /\ r.pay.resolvedSid = None
                /\ log' = Append(log, e) /\ e.fate = "live"
  BY DEF Insert, PayloadOf
<1>2. PICK r, e : /\ rows' = Put(rows, NextId, r) /\ r.pay.resolvedSid = None
                  /\ log' = Append(log, e) /\ e.fate = "live"
  BY <1>1
<1>3. /\ DOMAIN log' = DOMAIN log \cup {Len(log) + 1}
      /\ \A u \in DOMAIN log : log'[u] = log[u]
      /\ log'[Len(log) + 1] = e
  <2>1. Len(log) \in Nat /\ DOMAIN log = 1..Len(log)
    BY LenProperties DEF TypeOK, TableOK
  <2> QED BY <1>2, <2>1 DEF TypeOK, TableOK
<1>4. \A i \in DOMAIN rows' : rows'[i] = r \/ (i \in DOMAIN rows /\ rows'[i] = rows[i])
  BY <1>2 DEF Put
<1> QED BY <1>2, <1>3, <1>4, TableHonest

LEMMA AnnihilateHonest ==
  ASSUME TypeOK, Honest, NEW ids, NEW meant, Annihilate(ids, meant),
         UNCHANGED <<phase, claim, decided, out, applied>>
  PROVE  Honest'
<1> DEFINE gone == {rows[i].uid : i \in Caught(ids)}
           fate(u) == IF u \in meant THEN "undone" ELSE "stray"
<1>1. log' = [u \in DOMAIN log |-> IF u \notin gone THEN log[u]
                                   ELSE [log[u] EXCEPT !.fate = fate(u)]]
  BY DEF Annihilate
<1>2. \A u \in DOMAIN log : log[u] \in Entry
  BY LenProperties DEF TypeOK, TableOK
<1>3. \A u : fate(u) # "delivered"
  OBVIOUS
<1> HIDE DEF gone, fate
<1>4. ASSUME NEW u \in DOMAIN log', log'[u].fate = "delivered"
      PROVE  u \in DOMAIN log /\ log[u].fate = "delivered"
  BY <1>1, <1>2, <1>3, <1>4 DEF Entry
<1>5. /\ DOMAIN rows' \subseteq DOMAIN rows
      /\ \A i \in DOMAIN rows' : rows'[i] = rows[i]
  BY AnnihilateDrops DEF Dropped
<1> QED BY <1>4, <1>5, TableHonest

LEMMA CallersHonest ==
  ASSUME TypeOK, Honest, Callers
  PROVE  Honest'
<1>1. UNCHANGED <<phase, claim, decided, out, applied>>
  BY DEF Callers, EnqueueSingle, BulkStart, BulkChunk, BulkFails, Compensate, Undo,
     pass, server
<1>2. CASE \E req \in Requests : EnqueueSingle(req)
  <2>1. PICK req \in Requests, refUid \in 0..Len(log) : Insert(req, {}, refUid, 0, 0)
    BY <1>2 DEF EnqueueSingle
  <2>2. {} \in SUBSET Msg /\ 0 \in Nat
    OBVIOUS
  <2> QED BY <1>1, <2>1, <2>2, InsertHonest
<1>3. CASE \E p \in Caller : BulkChunk(p)
  <2>1. PICK p \in Caller : BulkChunk(p)
    BY <1>3
  <2>2. PICK chunk \in SUBSET Msg, group \in Nat, wait \in Nat :
          Insert(bulk[p].req, chunk, bulk[p].refUid, group, wait)
    BY <2>1, BulkChunkInserts
  <2> QED BY <1>1, <2>2, CallTyped, InsertHonest
<1>4. CASE (\E p \in Caller : Compensate(p)) /\ ~UNCHANGED table
  BY <1>1, <1>4, AnnihilateHonest DEF Compensate
<1>5. CASE \E group \in 1..Len(log) : Undo(group)
  BY <1>1, <1>5, AnnihilateHonest DEF Undo
<1>6. CASE UNCHANGED table
  BY <1>1, <1>6, TableHonest DEF table
<1>7. (\E p \in Caller : BulkFails(p) \/ \E req \in Requests : BulkStart(p, req))
        => UNCHANGED table
  BY DEF BulkStart, BulkFails
<1> QED BY <1>2, <1>3, <1>4, <1>5, <1>6, <1>7 DEF Callers

\* What a claim reads of a row, and what its rows become.
LEMMA ClaimReads ==
  ASSUME TypeOK, Claim
  PROVE  /\ DOMAIN claim' = Claimable /\ Claimable \subseteq DOMAIN rows
         /\ \A i \in Claimable : claim'[i] = ResolveClaim(rows[i]) /\ rows[i].state = "queued"
         /\ DOMAIN rows' = DOMAIN rows
         /\ \A i \in DOMAIN rows :
              /\ rows'[i].uid = rows[i].uid /\ rows'[i].pay = rows[i].pay
              /\ rows'[i].state = IF i \in Claimable THEN "dispatching" ELSE rows[i].state
<1>1. \A i \in DOMAIN rows : rows[i] \in Row
  BY DEF TypeOK, TableOK, Functional
<1>2. Claimable \subseteq DOMAIN rows /\ \A i \in Claimable : rows[i].state = "queued"
  BY DEF Claimable, Eligible
<1>3. DOMAIN claim' = Claimable /\ \A i \in Claimable : claim'[i] = ResolveClaim(rows[i])
  BY DEF Claim
<1>4. /\ DOMAIN rows' = DOMAIN rows
      /\ \A i \in DOMAIN rows :
           /\ rows'[i].uid = rows[i].uid /\ rows'[i].pay = rows[i].pay
           /\ rows'[i].state = IF i \in Claimable THEN "dispatching" ELSE rows[i].state
  BY <1>1 DEF Claim, Row
<1> QED BY <1>2, <1>3, <1>4

LEMMA ClaimHonest ==
  ASSUME TypeOK, Honest, Claim
  PROVE  Honest'
<1>1. UNCHANGED <<log, applied>> /\ decided' = Empty /\ DOMAIN decided' = {}
      /\ phase' \in {"idle", "dispatch"}
  BY EmptyTyped DEF Claim, server
<1>2. DeliveredWasApplied' /\ PlanHonest'
  BY <1>1 DEF Honest, DeliveredWasApplied, PlanHonest, Vouched
<1>3. PayloadsHonest'
  BY <1>1, ClaimReads DEF Honest, PayloadsHonest, ResolveClaim
<1> QED BY <1>2, <1>3 DEF Honest

\* persistPayload: the row it writes is still the claimed create's.
LEMMA PersistWrites ==
  ASSUME TypeOK, Disciplined, Persist
  PROVE  \E c \in Least(Undecided) :
           /\ Turn(c, "persist") /\ c \in DOMAIN claim /\ c \in DOMAIN rows
           /\ rows[c].uid = claim[c].uid /\ rows[c].state = "dispatching"
           /\ DOMAIN rows' = DOMAIN rows
           /\ \A i \in DOMAIN rows : rows'[i].uid = rows[i].uid /\ rows'[i].state = rows[i].state
           /\ \A i \in DOMAIN rows \ {c} : rows'[i] = rows[i]
           /\ rows'[c].pay = [claim[c].pay EXCEPT !.resolvedSid = newSid]
<1>1. PICK c \in Least(Undecided) :
        /\ Turn(c, "persist")
        /\ rows' = [i \in DOMAIN rows |->
                      IF i = c THEN [rows[i] EXCEPT !.pay =
                                       [claim[c].pay EXCEPT !.resolvedSid = newSid]]
                               ELSE rows[i]]
  BY DEF Persist, Turn
<1>2. c \in DOMAIN claim /\ up
  BY <1>1 DEF Least, Undecided, Turn
<1>3. c \in Dispatching /\ rows[c].uid = claim[c].uid
  BY <1>2 DEF Disciplined, ClaimDiscipline
<1>4. c \in DOMAIN rows /\ rows[c].state = "dispatching"
  BY <1>3 DEF Dispatching
<1>5. \A i \in DOMAIN rows : rows[i] \in Row
  BY DEF TypeOK, TableOK, Functional
<1>6. rows'[c] = [rows[c] EXCEPT !.pay = [claim[c].pay EXCEPT !.resolvedSid = newSid]]
  BY <1>1, <1>4
<1>7. DOMAIN rows' = DOMAIN rows /\ \A i \in DOMAIN rows \ {c} : rows'[i] = rows[i]
  BY <1>1
<1>8. /\ rows'[c].uid = rows[c].uid /\ rows'[c].state = rows[c].state
      /\ rows'[c].pay = [claim[c].pay EXCEPT !.resolvedSid = newSid]
  BY <1>4, <1>5, <1>6 DEF Row
<1> QED BY <1>1, <1>2, <1>3, <1>4, <1>7, <1>8

\* A page of resolveDependentRefs rewrites references and nothing else.
LEMMA PageWrites ==
  ASSUME TypeOK, ResolvePage
  PROVE  \E c \in Least(Undecided) :
           /\ Turn(c, "resolve") /\ Page # {} /\ after' = Max(Page)
           /\ DOMAIN rows' = DOMAIN rows
           /\ \A i \in DOMAIN rows :
                /\ rows'[i].uid = rows[i].uid /\ rows'[i].state = rows[i].state
                /\ rows'[i].pay = IF i \in Page \ {c} THEN RewriteRef(rows[i].pay, c)
                                                      ELSE rows[i].pay
<1>1. PICK c \in Least(Undecided) :
        /\ Turn(c, "resolve") /\ Page # {} /\ after' = Max(Page)
        /\ rows' = [i \in DOMAIN rows |->
                     IF i \in Page \ {c}
                     THEN [rows[i] EXCEPT !.pay = RewriteRef(rows[i].pay, c)]
                     ELSE rows[i]]
  BY DEF ResolvePage, Turn
<1>2. \A i \in DOMAIN rows : rows[i] \in Row
  BY DEF TypeOK, TableOK, Functional
<1>3. DOMAIN rows' = DOMAIN rows
  BY <1>1
<1>4. ASSUME NEW i \in DOMAIN rows
      PROVE  /\ rows'[i].uid = rows[i].uid /\ rows'[i].state = rows[i].state
             /\ rows'[i].pay = IF i \in Page \ {c} THEN RewriteRef(rows[i].pay, c)
                                                   ELSE rows[i].pay
  BY <1>1, <1>2 DEF Row
<1> QED BY <1>1, <1>3, <1>4

LEMMA RewriteKeeps ==
  ASSUME NEW pay \in Payload, NEW c
  PROVE  /\ RewriteRef(pay, c).resolvedSid = pay.resolvedSid
         /\ RewriteRef(pay, c).kind = pay.kind
         /\ RewriteRef(pay, c).name = pay.name /\ RewriteRef(pay, c).msgs = pay.msgs
         /\ RewriteRef(pay, c).box = pay.box
         /\ RewriteRef(pay, c).ref = IF pay.ref = c /\ pay.kind \in {"move", "create"}
                                     THEN None ELSE pay.ref
         /\ RewriteRef(pay, c).refSid = IF pay.ref = c /\ pay.kind \in {"move", "create"}
                                        THEN newSid ELSE pay.refSid
  BY DEF RewriteRef, Payload

\* Finalize deletes the rows it is to delete; it and the recovery put every
\* other row of the pass back to queued, and change no payload.
LEMMA PutBackWrites ==
  ASSUME TypeOK, Disciplined, Finalize \/ Recover
  PROVE  \E D :
           /\ D = IF Finalize THEN Leaving ELSE {}
           /\ DOMAIN decided = DOMAIN claim
           /\ DOMAIN rows' = DOMAIN rows \ D
           /\ \A i \in DOMAIN rows' :
                /\ rows'[i].uid = rows[i].uid /\ rows'[i].pay = rows[i].pay
                /\ rows'[i].state = IF i \in DOMAIN claim THEN "queued" ELSE rows[i].state
<1>1. DOMAIN decided = DOMAIN claim
  <2>1. CASE Finalize
    BY <2>1 DEF Finalize, Deciding, Undecided, Disciplined, PassShape
  <2>2. CASE Recover
    BY <2>2 DEF Recover, Disciplined, PassShape
  <2> QED BY <2>1, <2>2
<1> DEFINE D == IF Finalize THEN Leaving ELSE {}
<1>2. rows' = [i \in DOMAIN rows \ D |->
                 IF i \in Pausing THEN Requeue(rows[i], decided[i].class)
                 ELSE IF i \in DOMAIN decided THEN Revert(rows[i]) ELSE rows[i]]
  <2>1. CASE Finalize
    BY <2>1 DEF Finalize
  <2>2. CASE ~Finalize
    <3>1. DOMAIN rows \ {} = DOMAIN rows
      OBVIOUS
    <3> QED BY <2>2, <3>1 DEF Recover
  <2> QED BY <2>1, <2>2
<1> HIDE DEF D
<1>3. \A i \in DOMAIN rows : rows[i] \in Row
  BY DEF TypeOK, TableOK, Functional
<1>4. \A r \in Row : \A class :
         /\ Requeue(r, class).state = "queued" /\ Revert(r).state = "queued"
         /\ Requeue(r, class).uid = r.uid /\ Revert(r).uid = r.uid
         /\ Requeue(r, class).pay = r.pay /\ Revert(r).pay = r.pay
  BY DEF Requeue, Revert, Row
<1>5. ASSUME NEW i \in DOMAIN rows'
      PROVE  /\ rows'[i].uid = rows[i].uid /\ rows'[i].pay = rows[i].pay
             /\ rows'[i].state = IF i \in DOMAIN claim THEN "queued" ELSE rows[i].state
  <2>1. i \in DOMAIN rows /\ (i \in Pausing => i \in DOMAIN decided)
    BY <1>2 DEF Pausing
  <2> QED BY <1>1, <1>2, <1>3, <1>4, <2>1
<1>6. DOMAIN rows' = DOMAIN rows \ D
  BY <1>2
<1> QED BY <1>1, <1>5, <1>6 DEF D

\* Which intents a finalize settles, and how.
LEMMA FinalizeFates ==
  ASSUME TypeOK, Finalize
  PROVE  /\ DOMAIN log' = DOMAIN log
         /\ \A u \in DOMAIN log :
              IF \E i \in Leaving \cap DOMAIN rows : rows[i].uid = u
              THEN log'[u].fate = IF \E i \in Leaving \cap DOMAIN rows :
                                       rows[i].uid = u /\ decided[i].why = "delivered"
                                  THEN "delivered" ELSE "failed"
              ELSE log'[u] = log[u]
<1> DEFINE left(u) == \E i \in Leaving \cap DOMAIN rows : rows[i].uid = u
           fate(u) == IF \E i \in Leaving \cap DOMAIN rows :
                           rows[i].uid = u /\ decided[i].why = "delivered"
                      THEN "delivered" ELSE "failed"
<1>1. log' = [u \in DOMAIN log |-> IF left(u) THEN [log[u] EXCEPT !.fate = fate(u)] ELSE log[u]]
  BY DEF Finalize
<1>2. \A u \in DOMAIN log : log[u] \in Entry
  BY LenProperties DEF TypeOK, TableOK
<1> HIDE DEF left, fate
<1>3. /\ DOMAIN log' = DOMAIN log
      /\ \A u \in DOMAIN log : IF left(u) THEN log'[u].fate = fate(u) ELSE log'[u] = log[u]
  BY <1>1, <1>2 DEF Entry
<1> QED BY <1>3 DEF left, fate

LEMMA WritesHonest ==
  ASSUME TypeOK, Disciplined, Honest, Persist \/ ResolvePage \/ Finalize \/ Recover
  PROVE  Honest'
<1>1. CASE Persist
  <2>1. PICK c \in Least(Undecided) :
          /\ Turn(c, "persist") /\ c \in DOMAIN claim /\ c \in DOMAIN rows
          /\ rows[c].uid = claim[c].uid
          /\ DOMAIN rows' = DOMAIN rows
          /\ \A i \in DOMAIN rows : rows'[i].uid = rows[i].uid
          /\ \A i \in DOMAIN rows \ {c} : rows'[i] = rows[i]
    BY <1>1, PersistWrites
  <2>2. phase = "persist" /\ phase' = "resolve" /\ UNCHANGED <<log, claim, decided, out, applied>>
    BY <1>1, <2>1 DEF Persist, Turn, server
  <2>3. \A d \in Least(Undecided) : claim[d].uid \in applied
    BY <2>2 DEF Honest, PlanHonest
  <2>4. PayloadsHonest'
    BY <2>1, <2>2, <2>3 DEF Honest, PayloadsHonest
  <2>5. Undecided' = Undecided
    BY <2>2 DEF Undecided
  <2>6. PlanHonest'
    BY <2>2, <2>5 DEF Honest, PlanHonest, Vouched, Least
  <2>7. DeliveredWasApplied'
    BY <2>2 DEF Honest, DeliveredWasApplied
  <2> QED BY <2>4, <2>6, <2>7 DEF Honest
<1>2. CASE ResolvePage
  <2>1. UNCHANGED <<phase, log, claim, decided, out, applied>>
    BY <1>2 DEF ResolvePage, server
  <2>2. \A i \in DOMAIN rows : rows[i].pay \in Payload
    BY DEF TypeOK, TableOK, Functional, Row
  <2>3. DOMAIN rows' = DOMAIN rows
    BY <1>2, PageWrites
  <2>4. ASSUME NEW i \in DOMAIN rows
        PROVE  /\ rows'[i].uid = rows[i].uid
               /\ rows'[i].pay.resolvedSid = rows[i].pay.resolvedSid
    BY <1>2, <2>2, PageWrites, RewriteKeeps
  <2> QED BY <2>1, <2>3, <2>4, TableHonest
<1>3. CASE Finalize \/ Recover
  <2>1. /\ DOMAIN decided = DOMAIN claim /\ DOMAIN rows' \subseteq DOMAIN rows
        /\ \A i \in DOMAIN rows' : rows'[i].uid = rows[i].uid /\ rows'[i].pay = rows[i].pay
    BY <1>3, PutBackWrites
  <2>2. /\ phase \in {"dispatch", "recover"} /\ phase' = "idle" /\ up
        /\ DOMAIN claim' = {} /\ UNCHANGED applied
    BY <1>3, EmptyTyped DEF Finalize, Deciding, Recover, server
  <2>3. PlanHonest' /\ PayloadsHonest'
    BY <2>1, <2>2 DEF Honest, PlanHonest, PayloadsHonest
  <2>4. DeliveredWasApplied'
    <3>1. CASE Recover
      BY <2>2, <3>1 DEF Recover, Honest, DeliveredWasApplied
    <3>2. CASE Finalize
      <4>1. Vouched(decided) /\ \A i \in DOMAIN claim : rows[i].uid = claim[i].uid
        BY <2>2 DEF Honest, PlanHonest, Disciplined, ClaimDiscipline
      <4>2. \A i \in Leaving : decided[i].why = "delivered" => rows[i].uid \in applied
        BY <2>1, <4>1 DEF Vouched, Leaving
      <4>3. ASSUME NEW u \in DOMAIN log', log'[u].fate = "delivered" PROVE u \in applied
        <5>1. u \in DOMAIN log
          BY <3>2, FinalizeFates
        <5>2. CASE \E i \in Leaving \cap DOMAIN rows : rows[i].uid = u
          BY <3>2, <4>2, <4>3, <5>1, <5>2, FinalizeFates
        <5>3. CASE ~ \E i \in Leaving \cap DOMAIN rows : rows[i].uid = u
          <6>1. log'[u] = log[u]
            BY <3>2, <5>1, <5>3, FinalizeFates
          <6> QED BY <4>3, <5>1, <6>1 DEF Honest, DeliveredWasApplied
        <5> QED BY <5>2, <5>3
      <4> QED BY <2>2, <4>3 DEF DeliveredWasApplied
    <3> QED BY <1>3, <3>1, <3>2
  <2> QED BY <2>3, <2>4 DEF Honest
<1> QED BY <1>1, <1>2, <1>3

\* The clock, and the startup sweep, rewrite no payload.
LEMMA SweepWrites ==
  ASSUME TypeOK, Tick \/ Restart
  PROVE  /\ DOMAIN rows' = DOMAIN rows
         /\ \A i \in DOMAIN rows :
              /\ rows'[i].uid = rows[i].uid /\ rows'[i].pay = rows[i].pay
              /\ rows'[i].state = IF Tick THEN rows[i].state ELSE "queued"
<1>1. \A i \in DOMAIN rows : rows[i] \in Row
  BY DEF TypeOK, TableOK, Functional
<1>2. CASE Tick
  <2>1. \A i \in DOMAIN rows : \E w : rows'[i] = [rows[i] EXCEPT !.wait = w]
    BY <1>2 DEF Tick
  <2>2. DOMAIN rows' = DOMAIN rows
    BY <1>2 DEF Tick
  <2> QED BY <1>1, <1>2, <2>1, <2>2 DEF Row
<1>3. CASE Restart /\ ~Tick
  BY <1>1, <1>3 DEF Restart, Row
<1> QED BY <1>2, <1>3

LEMMA OutsideHonest ==
  ASSUME TypeOK, Honest,
         \/ Tick \/ Crash \/ Restart \/ SyncPull \/ OtherClient \/ UNCHANGED vars
         \/ Probe \/ ClaimFails \/ FinalizeFails \/ RecoverFails
  PROVE  Honest'
<1>1. UNCHANGED <<log, applied>>
  BY DEF Tick, Crash, Restart, SyncPull, OtherClient, vars, Probe, ClaimFails,
     FinalizeFails, RecoverFails, table, server
<1>2. DeliveredWasApplied'
  BY <1>1 DEF Honest, DeliveredWasApplied
<1>3. CASE Tick \/ Restart
  <2>1. UNCHANGED <<phase, claim, decided, out>>
    BY <1>3 DEF Tick, Restart, pass
  <2> QED BY <1>1, <1>3, <2>1, SweepWrites, TableHonest
<1>4. CASE SyncPull \/ OtherClient \/ UNCHANGED vars
  BY <1>1, <1>4, TableHonest DEF SyncPull, OtherClient, vars, pass, table
<1>5. CASE Probe \/ ClaimFails
  BY <1>1, <1>2, <1>5 DEF Probe, ClaimFails, table, Honest, PlanHonest, PayloadsHonest
<1>6. CASE FinalizeFails
  <2>1. phase = "dispatch" /\ phase' = "recover" /\ UNCHANGED <<rows, claim, decided>>
    BY <1>6 DEF FinalizeFails, Deciding, table
  <2> QED BY <1>1, <1>2, <2>1 DEF Honest, PlanHonest, PayloadsHonest, Vouched
<1>7. CASE RecoverFails \/ Crash
  <2>1. phase' = "idle" /\ DOMAIN claim' = {} /\ UNCHANGED rows
    BY <1>7, EmptyTyped DEF RecoverFails, Crash, table
  <2> QED BY <1>1, <1>2, <2>1 DEF Honest, PlanHonest, PayloadsHonest
<1> QED BY <1>3, <1>4, <1>5, <1>6, <1>7

LEMMA NextHonest ==
  ASSUME TypeOK, Disciplined, Honest, [Next]_vars
  PROVE  Honest'
<1>1. CASE Callers
  BY <1>1, CallersHonest
<1>2. CASE Claim
  BY <1>2, ClaimHonest
<1>3. CASE Persist \/ ResolvePage \/ Finalize \/ Recover
  BY <1>3, WritesHonest
<1>4. CASE \/ Abandon \/ FailUnsent \/ CallFails \/ MoveCall \/ CreateCall \/ CreateRefused
           \/ Adopt \/ Refile \/ RenameCall \/ DeleteCall \/ Replay \/ ResolveEnd \/ RecordFails
  BY <1>4, AttemptHonest DEF Disciplined
<1>5. CASE \/ Tick \/ Crash \/ Restart \/ SyncPull \/ OtherClient \/ UNCHANGED vars
           \/ Probe \/ ClaimFails \/ FinalizeFails \/ RecoverFails
  BY <1>5, OutsideHonest
<1> QED BY <1>1, <1>2, <1>3, <1>4, <1>5 DEF Next, Dispatch

LEMMA HonestAlways == Spec => []Honest
<1>1. Init => Honest
  <2> SUFFICES ASSUME Init PROVE Honest
    OBVIOUS
  <2>1. DOMAIN rows = {} /\ DOMAIN claim = {} /\ DOMAIN log = {}
    <3>1. log = <<>> /\ rows = Empty /\ claim = Empty
      BY DEF Init
    <3> QED BY <3>1, EmptySeq, LenProperties, EmptyTyped
  <2> QED BY <2>1 DEF Init, Honest, DeliveredWasApplied, PlanHonest, PayloadsHonest
<1>2. TypeOK /\ Disciplined /\ Honest /\ [Next]_vars => Honest'
  BY NextHonest
<1> QED BY <1>1, <1>2, TypeCorrect, DisciplinedAlways, PTL DEF Spec

\* The outbox tells its caller an intent was delivered only once the server
\* has made its whole effect: a batch half of whose moves were refused, a lost
\* answer, or a create replayed from its row never passes for a delivery.
THEOREM DeliveriesAreReal == Spec => []DeliveredWasApplied
<1>1. Honest => DeliveredWasApplied
  BY DEF Honest
<1> QED BY <1>1, HonestAlways, PTL

-----------------------------------------------------------------------------
(* The outbox implements IntentQueue. *)

\* Where the rows and the history say an intent is.
Lives(rowsNow, logNow, life) ==
  /\ DOMAIN life = DOMAIN logNow
  /\ \A i \in DOMAIN rowsNow : rowsNow[i].uid \in DOMAIN logNow
                               /\ life[rowsNow[i].uid] = rowsNow[i].state
  /\ \A u \in DOMAIN logNow :
       \/ \E i \in DOMAIN rowsNow : rowsNow[i].uid = u
       \/ /\ logNow[u].fate # "live"
          /\ life[u] = IF logNow[u].fate = "stray" THEN "undone" ELSE logNow[u].fate

LEMMA LifeRead == TypeOK /\ NothingLost => Lives(rows, log, Life)
<1> SUFFICES ASSUME TypeOK, NothingLost PROVE Lives(rows, log, Life)
  OBVIOUS
<1>1. DOMAIN Life = DOMAIN log
  BY DEF Life
<1>2. ASSUME NEW i \in DOMAIN rows
      PROVE  rows[i].uid \in DOMAIN log /\ Life[rows[i].uid] = rows[i].state
  <2>1. rows[i].uid \in DOMAIN log /\ log[rows[i].uid].fate = "live"
    BY DEF NothingLost
  <2>2. RowOf(rows[i].uid) = i
    BY DEF RowOf, NothingLost
  <2> QED BY <2>1, <2>2 DEF Life
<1>3. ASSUME NEW u \in DOMAIN log, ~ \E i \in DOMAIN rows : rows[i].uid = u
      PROVE  /\ log[u].fate # "live"
             /\ Life[u] = IF log[u].fate = "stray" THEN "undone" ELSE log[u].fate
  <2>1. log[u].fate # "live"
    BY <1>3 DEF NothingLost
  <2> QED BY <2>1 DEF Life
<1> QED BY <1>1, <1>2, <1>3 DEF Lives
LEMMA LifeReadNext == (TypeOK /\ NothingLost)' => Lives(rows, log, Life)'
  BY LifeRead, PTL

\* The invariant the refinement rests on, before and after a step.
Grounded == TypeOK /\ NothingLost

LEMMA LifeTyped == Grounded => Life \in [DOMAIN log -> Queue!States]
<1> SUFFICES ASSUME Grounded PROVE Life \in [DOMAIN log -> Queue!States]
  OBVIOUS
<1>1. Lives(rows, log, Life)
  BY LifeRead DEF Grounded
<1>2. \A i \in DOMAIN rows : rows[i].state \in {"queued", "dispatching"}
  BY DEF Grounded, TypeOK, TableOK, Functional, Row
<1>3. \A u \in DOMAIN log : log[u].fate \in Fates
  <2>1. \A u \in DOMAIN log : log[u] \in Entry
    BY LenProperties DEF Grounded, TypeOK, TableOK
  <2> QED BY <2>1 DEF Entry
<1>4. \A u \in DOMAIN log : Life[u] \in Queue!States
  BY <1>1, <1>2, <1>3 DEF Lives, Fates, Queue!States
<1>5. Life = [u \in DOMAIN log |-> Life[u]]
  BY DEF Life
<1> QED BY <1>4, <1>5
LEMMA LifeTypedNext == Grounded' => (Life \in [DOMAIN log -> Queue!States])'
  BY LifeTyped, PTL
LEMMA GroundedLives == Grounded => Lives(rows, log, Life)
  BY LifeRead DEF Grounded
LEMMA GroundedLivesNext == Grounded' => Lives(rows, log, Life)'
  BY GroundedLives, PTL

\* An intent whose fate stays, and whose row, if it has one, stays in its
\* state, is where it was.
LEMMA LifeKept ==
  ASSUME Grounded, Grounded', NEW u \in DOMAIN log, u \in DOMAIN log',
         log'[u].fate = log[u].fate,
         \A i \in DOMAIN rows : rows[i].uid = u =>
           i \in DOMAIN rows' /\ rows'[i].uid = u /\ rows'[i].state = rows[i].state
  PROVE  Life'[u] = Life[u]
<1>1. Lives(rows, log, Life) /\ Lives(rows, log, Life)'
  BY GroundedLives, GroundedLivesNext
<1>2. CASE \E i \in DOMAIN rows : rows[i].uid = u
  BY <1>1, <1>2 DEF Lives
<1>3. CASE ~ \E i \in DOMAIN rows : rows[i].uid = u
  <2>1. log[u].fate # "live"
    BY <1>3 DEF Grounded, NothingLost
  <2>2. ~ \E i \in DOMAIN rows' : rows'[i].uid = u
    BY <2>1 DEF Grounded, NothingLost
  <2> QED BY <1>1, <1>3, <2>2 DEF Lives
<1> QED BY <1>2, <1>3

\* Where the intent of a row is, and one without.
LEMMA LifeOfRow ==
  ASSUME Grounded, NEW i \in DOMAIN rows
  PROVE  rows[i].uid \in DOMAIN log /\ Life[rows[i].uid] = rows[i].state
  BY GroundedLives DEF Lives

LEMMA LifeOfRowNext ==
  ASSUME Grounded', NEW i \in DOMAIN rows'
  PROVE  rows'[i].uid \in DOMAIN log' /\ Life'[rows'[i].uid] = rows'[i].state
  BY GroundedLivesNext DEF Lives

LEMMA LifeSettled ==
  ASSUME Grounded', NEW u \in DOMAIN log', log'[u].fate # "live"
  PROVE  Life'[u] = IF log'[u].fate = "stray" THEN "undone" ELSE log'[u].fate
<1>1. ~ \E i \in DOMAIN rows' : rows'[i].uid = u
  BY DEF Grounded, NothingLost
<1> QED BY <1>1, GroundedLivesNext DEF Lives

\* The same table, read again.
LEMMA SameLife ==
  ASSUME Grounded, Grounded', DOMAIN log' = DOMAIN log,
         \A u \in DOMAIN log : log'[u].fate = log[u].fate,
         \A i \in DOMAIN rows : /\ i \in DOMAIN rows'
                                /\ rows'[i].uid = rows[i].uid /\ rows'[i].state = rows[i].state
  PROVE  Life' = Life
<1>1. \A u \in DOMAIN log : Life'[u] = Life[u]
  BY LifeKept
<1> QED BY <1>1, LifeTyped, LifeTypedNext

\* An enqueue.
LEMMA AddedEnqueues ==
  ASSUME Grounded, Grounded', Added, UNCHANGED applied
  PROVE  Queue!Enqueue
<1>1. PICK i, r, e :
        /\ i \notin DOMAIN rows /\ rows' = Put(rows, i, r) /\ log' = Append(log, e)
        /\ r.uid = Len(log) + 1 /\ r.state = "queued"
  BY DEF Added
<1>2. Len(log) \in Nat /\ DOMAIN log = 1..Len(log) /\ log \in Seq(Entry)
  BY LenProperties DEF Grounded, TypeOK, TableOK
<1>3. /\ DOMAIN log' = 1..(Len(log) + 1)
      /\ \A u \in DOMAIN log : log'[u] = log[u]
  BY <1>1, <1>2
<1>4. /\ DOMAIN rows' = DOMAIN rows \cup {i} /\ rows'[i] = r
      /\ \A j \in DOMAIN rows : rows'[j] = rows[j]
  BY <1>1 DEF Put
<1>5. \A u \in DOMAIN log : u \in DOMAIN log' /\ Life'[u] = Life[u]
  BY <1>2, <1>3, <1>4, LifeKept
<1>6. Life'[Len(log) + 1] = "queued"
  BY <1>1, <1>4, LifeOfRowNext
<1>7. /\ Life \in [1..Len(log) -> Queue!States]
      /\ Life' \in [1..(Len(log) + 1) -> Queue!States]
  BY <1>2, <1>3, LifeTyped, LifeTypedNext
<1>8. Life \in Seq(Queue!States) /\ Len(Life) = Len(log)
  BY <1>2, <1>7, IsASeq
<1> HIDE DEF Life, Queue!States
<1>9. Life' \in Seq(Queue!States) /\ Len(Life') = Len(log) + 1
  BY <1>2, <1>7, IsASeq
<1>10. "queued" \in Queue!States
  BY DEF Queue!States
<1>11. /\ Append(Life, "queued") \in Seq(Queue!States)
       /\ Len(Append(Life, "queued")) = Len(Life')
       /\ \A u \in 1..Len(Life') : Append(Life, "queued")[u] = Life'[u]
  BY <1>2, <1>5, <1>6, <1>8, <1>9, <1>10, AppendProperties
<1>12. Life' = Append(Life, "queued")
  BY <1>9, <1>11, SeqEqual
<1> QED BY <1>12 DEF Queue!Enqueue

\* An annihilating transaction undoes queued intents; one that catches none is
\* no step.
LEMMA AnnihilateUndoes ==
  ASSUME Grounded, Grounded', NEW ids, NEW meant, Annihilate(ids, meant), UNCHANGED applied
  PROVE  Queue!Undo \/ Life' = Life
<1> DEFINE gone == {rows[i].uid : i \in Caught(ids)}
           fate(u) == IF u \in meant THEN "undone" ELSE "stray"
<1>1. log' = [u \in DOMAIN log |-> IF u \notin gone THEN log[u]
                                   ELSE [log[u] EXCEPT !.fate = fate(u)]]
  BY DEF Annihilate
<1>2. \A u \in DOMAIN log : log[u] \in Entry
  BY LenProperties DEF Grounded, TypeOK, TableOK
<1>3. \A u : fate(u) \in {"undone", "stray"}
  OBVIOUS
<1>4. /\ DOMAIN rows' = DOMAIN rows \ Caught(ids)
      /\ \A i \in DOMAIN rows' : rows'[i] = rows[i]
  BY AnnihilateDrops DEF Dropped, Grounded
<1>5. \A u \in gone : u \in DOMAIN log /\ Life[u] = "queued"
  BY LifeOfRow DEF Caught, IsQueued
<1>6. \A i \in DOMAIN rows : rows[i].uid \notin gone => i \in DOMAIN rows'
  BY <1>4
<1> HIDE DEF gone, fate
<1>7. /\ DOMAIN log' = DOMAIN log
      /\ \A u \in DOMAIN log : u \notin gone => log'[u] = log[u]
      /\ \A u \in gone : log'[u].fate \in {"undone", "stray"}
  BY <1>1, <1>2, <1>3, <1>5 DEF Entry
<1>8. \A u \in gone : Life'[u] = "undone"
  BY <1>5, <1>7, LifeSettled
<1>9. \A u \in DOMAIN log : u \notin gone => Life'[u] = Life[u]
  BY <1>4, <1>6, <1>7, LifeKept
<1>10. Life \in [DOMAIN log -> Queue!States] /\ Life' \in [DOMAIN log -> Queue!States]
  BY <1>7, LifeTyped, LifeTypedNext
<1>11. Life' = [u \in DOMAIN Life |-> IF u \in gone THEN "undone" ELSE Life[u]]
  BY <1>8, <1>9, <1>10
<1>12. gone \in SUBSET Queue!In("queued")
  BY <1>5, <1>10 DEF Queue!In
<1> QED
  <2>1. CASE gone = {}
    BY <1>9, <1>10, <2>1
  <2>2. CASE gone # {}
    BY <1>11, <1>12, <2>2 DEF Queue!Undo, Queue!Change
  <2> QED BY <2>1, <2>2

\* A claim moves queued intents to dispatching; one that takes none is no step.
LEMMA ClaimMaps ==
  ASSUME Grounded, Grounded', Claim
  PROVE  Queue!Claim \/ UNCHANGED <<Life, applied>>
<1> DEFINE S == {rows[i].uid : i \in Claimable}
<1>1. /\ Claimable \subseteq DOMAIN rows /\ \A i \in Claimable : rows[i].state = "queued"
      /\ DOMAIN rows' = DOMAIN rows
      /\ \A i \in DOMAIN rows :
           /\ rows'[i].uid = rows[i].uid
           /\ rows'[i].state = IF i \in Claimable THEN "dispatching" ELSE rows[i].state
  BY ClaimReads DEF Grounded
<1>2. UNCHANGED <<log, applied>>
  BY DEF Claim, server
<1>3. \A u \in S : u \in DOMAIN log /\ Life[u] = "queued" /\ Life'[u] = "dispatching"
  <2> SUFFICES ASSUME NEW i \in Claimable
               PROVE  /\ rows[i].uid \in DOMAIN log /\ Life[rows[i].uid] = "queued"
                      /\ Life'[rows[i].uid] = "dispatching"
    OBVIOUS
  <2>1. rows[i].uid \in DOMAIN log /\ Life[rows[i].uid] = rows[i].state
    BY <1>1, LifeOfRow
  <2>2. Life'[rows'[i].uid] = rows'[i].state
    BY <1>1, LifeOfRowNext
  <2> QED BY <1>1, <2>1, <2>2
<1>4. \A u \in DOMAIN log : u \notin S => Life'[u] = Life[u]
  <2> SUFFICES ASSUME NEW u \in DOMAIN log, u \notin S PROVE Life'[u] = Life[u]
    OBVIOUS
  <2>1. \A i \in DOMAIN rows : rows[i].uid = u => i \notin Claimable
    OBVIOUS
  <2> QED BY <1>1, <1>2, <2>1, LifeKept
<1> HIDE DEF S
<1>5. Life \in [DOMAIN log -> Queue!States] /\ Life' \in [DOMAIN log -> Queue!States]
  BY <1>2, LifeTyped, LifeTypedNext
<1>6. Life' = [u \in DOMAIN Life |-> IF u \in S THEN "dispatching" ELSE Life[u]]
  BY <1>3, <1>4, <1>5
<1>7. S \in SUBSET Queue!In("queued")
  BY <1>3, <1>5 DEF Queue!In
<1> QED
  <2>1. CASE S = {}
    BY <1>2, <1>4, <1>5, <2>1
  <2>2. CASE S # {}
    BY <1>2, <1>6, <1>7, <2>2 DEF Queue!Claim, Queue!Change
  <2> QED BY <2>1, <2>2

\* What settles claimed intents: each is where it was, or was dispatching and
\* is queued, failed, or delivered after the server applied it.
LEMMA Settles ==
  ASSUME Grounded, Grounded', DOMAIN log' = DOMAIN log, UNCHANGED applied,
         \A u \in DOMAIN log :
           \/ Life'[u] = Life[u]
           \/ Life[u] = "dispatching" /\ Life'[u] \in {"queued", "failed"}
           \/ Life[u] = "dispatching" /\ Life'[u] = "delivered" /\ u \in applied
  PROVE  Queue!Settle
<1>1. Life \in [DOMAIN log -> Queue!States] /\ Life' \in [DOMAIN log -> Queue!States]
  BY LifeTyped, LifeTypedNext
<1>2. DOMAIN Life = DOMAIN log
  BY <1>1
<1> HIDE DEF Life
<1>3. Life' \in [DOMAIN Life -> Queue!States]
  BY <1>1, <1>2
<1> QED BY <1>2, <1>3 DEF Queue!Settle

LEMMA PutBackSettles ==
  ASSUME Grounded, Grounded', Disciplined, Honest, Finalize \/ Recover
  PROVE  Queue!Settle
<1>1. PICK D :
        /\ D = IF Finalize THEN Leaving ELSE {}
        /\ DOMAIN decided = DOMAIN claim
        /\ DOMAIN rows' = DOMAIN rows \ D
        /\ \A i \in DOMAIN rows' :
             /\ rows'[i].uid = rows[i].uid
             /\ rows'[i].state = IF i \in DOMAIN claim THEN "queued" ELSE rows[i].state
  BY PutBackWrites DEF Grounded
<1>2. up /\ phase \in {"dispatch", "recover"} /\ UNCHANGED applied
  BY DEF Finalize, Deciding, Recover, server
<1>3. /\ DOMAIN log' = DOMAIN log
      /\ \A u \in DOMAIN log :
           \/ /\ log'[u].fate = log[u].fate
              /\ \A i \in DOMAIN rows : rows[i].uid = u => i \notin D
           \/ \E i \in D \cap DOMAIN rows :
                /\ rows[i].uid = u
                /\ \/ log'[u].fate = "failed"
                   \/ log'[u].fate = "delivered" /\ u \in applied
  <2>1. CASE ~Finalize
    BY <1>1, <2>1 DEF Recover
  <2>2. CASE Finalize
    <3>1. Vouched(decided) /\ \A i \in DOMAIN claim : rows[i].uid = claim[i].uid
      BY <1>2 DEF Honest, PlanHonest, Disciplined, ClaimDiscipline
    <3>2. D = Leaving /\ \A i \in Leaving : decided[i].why = "delivered" => rows[i].uid \in applied
      BY <1>1, <2>2, <3>1 DEF Vouched, Leaving
    <3> QED BY <2>2, <3>2, FinalizeFates DEF Grounded
  <2> QED BY <2>1, <2>2
<1>4. \A i \in DOMAIN rows : i \in D \cup DOMAIN claim => rows[i].state = "dispatching"
  <2>1. D \subseteq DOMAIN claim
    BY <1>1 DEF Leaving
  <2> QED BY <1>2, <2>1 DEF Disciplined, ClaimDiscipline, Dispatching
<1>5. ASSUME NEW u \in DOMAIN log
      PROVE  \/ Life'[u] = Life[u]
             \/ Life[u] = "dispatching" /\ Life'[u] \in {"queued", "failed"}
             \/ Life[u] = "dispatching" /\ Life'[u] = "delivered" /\ u \in applied
  <2>1. CASE \E i \in D \cap DOMAIN rows :
               /\ rows[i].uid = u
               /\ \/ log'[u].fate = "failed"
                  \/ log'[u].fate = "delivered" /\ u \in applied
    <3>1. Life[u] = "dispatching"
      BY <1>4, <2>1, LifeOfRow
    <3>2. Life'[u] = log'[u].fate
      BY <1>3, <2>1, LifeSettled
    <3> QED BY <2>1, <3>1, <3>2
  <2>2. CASE /\ log'[u].fate = log[u].fate
             /\ \A i \in DOMAIN rows : rows[i].uid = u => i \notin D
    <3>1. CASE \E i \in DOMAIN rows : rows[i].uid = u /\ i \in DOMAIN claim
      <4>1. PICK i \in DOMAIN rows : rows[i].uid = u /\ i \in DOMAIN claim
        BY <3>1
      <4>2. Life[u] = "dispatching"
        BY <1>4, <4>1, LifeOfRow
      <4>3. i \in DOMAIN rows' /\ rows'[i].uid = u /\ rows'[i].state = "queued"
        BY <1>1, <2>2, <4>1
      <4>4. Life'[u] = "queued"
        BY <4>3, LifeOfRowNext
      <4> QED BY <4>2, <4>4
    <3>2. CASE ~ \E i \in DOMAIN rows : rows[i].uid = u /\ i \in DOMAIN claim
      BY <1>1, <1>3, <2>2, <3>2, LifeKept
    <3> QED BY <3>1, <3>2
  <2> QED BY <1>3, <2>1, <2>2
<1> QED BY <1>2, <1>3, <1>5, Settles

\* The startup sweep gives every intent it finds dispatching another turn.
LEMMA RestartSettles ==
  ASSUME Grounded, Grounded', Restart
  PROVE  Queue!Settle
<1>1. UNCHANGED <<log, applied>> /\ DOMAIN rows' = DOMAIN rows
      /\ \A i \in DOMAIN rows : rows'[i].uid = rows[i].uid /\ rows'[i].state = "queued"
  <2>1. ~Tick => \A i \in DOMAIN rows : rows'[i].uid = rows[i].uid /\ rows'[i].state = "queued"
    BY SweepWrites DEF Grounded
  <2>2. \A i \in DOMAIN rows : rows[i] \in Row
    BY DEF Grounded, TypeOK, TableOK, Functional
  <2> QED BY <2>2 DEF Restart, server, Row
<1>2. ASSUME NEW u \in DOMAIN log
      PROVE  Life'[u] = Life[u] \/ (Life[u] = "dispatching" /\ Life'[u] = "queued")
  <2>1. CASE \E i \in DOMAIN rows : rows[i].uid = u
    <3>1. PICK i \in DOMAIN rows : rows[i].uid = u
      BY <2>1
    <3>2. rows[i].state \in {"queued", "dispatching"}
      BY DEF Grounded, TypeOK, TableOK, Functional, Row
    <3>3. Life[u] = rows[i].state /\ Life'[u] = "queued"
      BY <1>1, <3>1, LifeOfRow, LifeOfRowNext
    <3> QED BY <3>2, <3>3
  <2>2. CASE ~ \E i \in DOMAIN rows : rows[i].uid = u
    BY <1>1, <2>2, LifeKept
  <2> QED BY <2>1, <2>2
<1> QED BY <1>1, <1>2, Settles

\* A request: the server makes the effect of claimed intents, and the table
\* still shows them dispatching.
LEMMA RequestActs ==
  ASSUME Grounded, Grounded', Disciplined,
         MoveCall \/ CreateCall \/ Adopt \/ Refile \/ RenameCall \/ DeleteCall
  PROVE  Queue!Act
<1>1. UNCHANGED <<rows, log>> /\ up
  BY DEF MoveCall, CreateCall, Adopt, Refile, RenameCall, DeleteCall, table, Calling, Turn
<1>2. Life' = Life
  BY <1>1, SameLife
<1>3. \A i \in DOMAIN claim : claim[i].uid \in Queue!In("dispatching")
  <2> SUFFICES ASSUME NEW i \in DOMAIN claim PROVE claim[i].uid \in Queue!In("dispatching")
    OBVIOUS
  <2>1. i \in Dispatching /\ rows[i].uid = claim[i].uid
    BY <1>1 DEF Disciplined, ClaimDiscipline
  <2>2. claim[i].uid \in DOMAIN log /\ Life[claim[i].uid] = "dispatching"
    BY <2>1, LifeOfRow DEF Dispatching
  <2>3. DOMAIN Life = DOMAIN log
    BY DEF Life
  <2> QED BY <2>2, <2>3 DEF Queue!In
<1>4. \A S \in SUBSET DOMAIN claim : \A sid, refused, mailboxes :
         Filed(S, sid, refused, mailboxes) \subseteq Queue!In("dispatching")
  BY <1>3 DEF Filed
<1>5. \A c \in Undecided : c \in DOMAIN claim /\ {c} \subseteq DOMAIN claim
                            /\ Group(c) \subseteq DOMAIN claim
  BY GroupClaimed DEF Undecided
<1>6. \E S \in SUBSET Queue!In("dispatching") : applied' = applied \cup S
  <2>1. CASE MoveCall
    <3>1. PICK c \in Undecided : \E refused :
            applied' = applied \cup Filed({c}, Target(c), refused, boxes)
      BY <2>1 DEF MoveCall
    <3>2. PICK refused : applied' = applied \cup Filed({c}, Target(c), refused, boxes)
      BY <3>1
    <3> QED BY <1>4, <1>5, <3>2
  <2>2. CASE CreateCall
    <3>1. PICK c \in Undecided : \E S \in {{}, Group(c)} : \E refused :
            applied' = applied \cup {claim[c].uid} \cup Filed(S, nextSid, refused, Made(c))
      BY <2>2, Zenon DEF CreateCall
    <3>2. PICK S \in {{}, Group(c)} : \E refused :
            applied' = applied \cup {claim[c].uid} \cup Filed(S, nextSid, refused, Made(c))
      BY <3>1
    <3>3. PICK refused :
            applied' = applied \cup {claim[c].uid} \cup Filed(S, nextSid, refused, Made(c))
      BY <3>2
    <3>4. S \subseteq DOMAIN claim
      BY <1>5
    <3>5. {claim[c].uid} \cup Filed(S, nextSid, refused, Made(c))
            \in SUBSET Queue!In("dispatching")
      BY <1>3, <1>4, <1>5, <3>4
    <3> QED BY <3>3, <3>5
  <2>3. CASE Refile
    <3>1. PICK c \in Undecided : \E refused :
            applied' = applied \cup Filed(Group(c), newSid, refused, boxes)
      BY <2>3, Zenon DEF Refile
    <3>2. PICK refused : applied' = applied \cup Filed(Group(c), newSid, refused, boxes)
      BY <3>1
    <3> QED BY <1>4, <1>5, <3>2
  <2>4. CASE Adopt \/ RenameCall \/ DeleteCall
    <3>1. PICK c \in Undecided : applied' = applied \cup {claim[c].uid} \/ applied' = applied
      BY <2>4 DEF Adopt, RenameCall, DeleteCall
    <3>2. {claim[c].uid} \in SUBSET Queue!In("dispatching")
      BY <1>3, <1>5
    <3>3. {} \in SUBSET Queue!In("dispatching") /\ applied \cup {} = applied
      OBVIOUS
    <3> QED BY <3>1, <3>2, <3>3
  <2> QED BY <2>1, <2>2, <2>3, <2>4
<1> QED BY <1>2, <1>6 DEF Queue!Act

\* A step that leaves fates and states alone is no step of IntentQueue.
LEMMA CallersMap ==
  ASSUME Grounded, Grounded', Callers
  PROVE  Queue!Enqueue \/ Queue!Undo \/ UNCHANGED <<Life, applied>>
<1>1. UNCHANGED applied
  BY DEF Callers, EnqueueSingle, BulkStart, BulkChunk, BulkFails, Compensate, Undo, server
<1>2. CASE \E req \in Requests : EnqueueSingle(req)
  <2>1. PICK req \in Requests, refUid \in 0..Len(log) : Insert(req, {}, refUid, 0, 0)
    BY <1>2 DEF EnqueueSingle
  <2>2. {} \in SUBSET Msg /\ 0 \in Nat
    OBVIOUS
  <2> QED BY <1>1, <2>1, <2>2, InsertAdds, AddedEnqueues DEF Grounded
<1>3. CASE \E p \in Caller : BulkChunk(p)
  BY <1>1, <1>3, BulkChunkAdds, AddedEnqueues DEF Grounded
<1>4. CASE (\E p \in Caller : Compensate(p)) /\ ~UNCHANGED table
  BY <1>1, <1>4, AnnihilateUndoes DEF Compensate
<1>5. CASE \E group \in 1..Len(log) : Undo(group)
  BY <1>1, <1>5, AnnihilateUndoes DEF Undo
<1>6. CASE UNCHANGED table
  BY <1>1, <1>6, SameLife DEF table
<1>7. (\E p \in Caller : BulkFails(p) \/ \E req \in Requests : BulkStart(p, req))
        => UNCHANGED table
  BY DEF BulkStart, BulkFails
<1> QED BY <1>2, <1>3, <1>4, <1>5, <1>6, <1>7 DEF Callers

LEMMA WritesMap ==
  ASSUME Grounded, Grounded', Disciplined, Persist \/ ResolvePage \/ Tick
  PROVE  UNCHANGED <<Life, applied>>
<1>1. UNCHANGED <<log, applied>>
  BY DEF Persist, ResolvePage, Tick, server
<1>2. /\ DOMAIN rows' = DOMAIN rows
      /\ \A i \in DOMAIN rows : rows'[i].uid = rows[i].uid /\ rows'[i].state = rows[i].state
  BY PersistWrites, PageWrites, SweepWrites DEF Grounded
<1> QED BY <1>1, <1>2, SameLife

LEMMA OutboxMaps ==
  ASSUME Grounded, Grounded', Disciplined, Honest, [Next]_vars
  PROVE  [Queue!Next]_(Queue!vars)
<1>1. CASE Callers
  BY <1>1, CallersMap DEF Queue!Next, Queue!vars
<1>2. CASE Claim
  BY <1>2, ClaimMaps DEF Queue!Next, Queue!vars
<1>3. CASE Finalize \/ Recover
  BY <1>3, PutBackSettles DEF Queue!Next
<1>4. CASE MoveCall \/ CreateCall \/ Adopt \/ Refile \/ RenameCall \/ DeleteCall
  BY <1>4, RequestActs DEF Queue!Next
<1>5. CASE Persist \/ ResolvePage \/ Tick
  BY <1>5, WritesMap DEF Queue!vars
<1>6. CASE Restart
  BY <1>6, RestartSettles DEF Queue!Next
<1>7. CASE \/ Probe \/ ClaimFails \/ Abandon \/ FailUnsent \/ CallFails \/ CreateRefused
           \/ Replay \/ ResolveEnd \/ RecordFails \/ FinalizeFails \/ RecoverFails
           \/ Crash \/ SyncPull \/ OtherClient \/ UNCHANGED vars
  <2>1. UNCHANGED <<rows, log, applied>>
    BY <1>7 DEF Probe, ClaimFails, Abandon, FailUnsent, CallFails, CreateRefused, Replay,
       ResolveEnd, RecordFails, FinalizeFails, RecoverFails, Crash, SyncPull, OtherClient,
       vars, table, server
  <2>2. Life' = Life
    BY <2>1, SameLife
  <2> QED BY <2>1, <2>2 DEF Queue!vars
<1> QED BY <1>1, <1>2, <1>3, <1>4, <1>5, <1>6, <1>7 DEF Next, Dispatch

\* The outbox implements IntentQueue: every behaviour of callers, passes,
\* failed transactions, crashes and sweeps over rows is one in which each
\* intent is enqueued, undone only while it waits, acted on only while it is
\* claimed, and then delivered, given up or made to wait again.
THEOREM OutboxIsAnIntentQueue == Spec => ImplementsIntentQueue
<1>1. Init => Queue!Init
  <2> SUFFICES ASSUME Init PROVE Queue!Init
    OBVIOUS
  <2>1. log = <<>> /\ applied = {}
    BY DEF Init
  <2>2. DOMAIN Life = {} /\ Life = [u \in {} |-> Life[u]]
    BY <2>1, EmptySeq, LenProperties DEF Life
  <2>3. Life = <<>>
    <3>1. Life \in [1..0 -> Queue!States]
      BY <2>2
    <3>2. Life \in Seq(Queue!States) /\ Len(Life) = 0
      BY <3>1, IsASeq
    <3> HIDE DEF Life
    <3> QED BY <3>2, EmptySeq
  <2> QED BY <2>1, <2>3 DEF Queue!Init
<1>2. Grounded /\ Grounded' /\ Disciplined /\ Honest /\ [Next]_vars => [Queue!Next]_(Queue!vars)
  BY OutboxMaps
<1>3. TypeOK /\ NothingLost => Grounded
  BY DEF Grounded
<1> QED BY <1>1, <1>2, <1>3, TypeCorrect, NothingIsLost, DisciplinedAlways, HonestAlways, PTL
        DEF Spec, ImplementsIntentQueue, Queue!Spec

\* An intent that is delivered, given up or undone stays so, and the server
\* makes no more of it: nothing that has ended is claimed again under another
\* intent's row id, replayed by a sweep, or acted on by a pass still running.
Ended == {"delivered", "failed", "undone"}
EndedStays ==
  \A u \in DOMAIN Life : Life[u] \in Ended =>
    /\ u \in DOMAIN Life' /\ Life'[u] = Life[u]
    /\ u \in applied' => u \in applied
THEOREM OutcomesAreFinal == Spec => [][EndedStays]_vars
<1>1. ASSUME Grounded, Grounded', Disciplined, Honest, [Next]_vars
      PROVE  EndedStays
  <2> SUFFICES ASSUME NEW u \in DOMAIN Life, Life[u] \in Ended
               PROVE  /\ u \in DOMAIN Life' /\ Life'[u] = Life[u]
                      /\ u \in applied' => u \in applied
    BY DEF EndedStays
  <2>1. Life[u] # "queued" /\ Life[u] # "dispatching"
    BY DEF Ended
  <2>2. Life \in [DOMAIN log -> Queue!States] /\ DOMAIN log = 1..Len(log) /\ Len(log) \in Nat
    BY <1>1, LifeTyped, LenProperties DEF Grounded, TypeOK, TableOK
  <2>3. Life \in Seq(Queue!States)
    <3> HIDE DEF Life
    <3> QED BY <2>2, IsASeq
  <2>4. [Queue!Next]_(Queue!vars)
    BY <1>1, OutboxMaps
  <2> HIDE DEF Life
  <2>5. CASE Queue!Enqueue
    BY <2>3, <2>5, AppendProperties DEF Queue!Enqueue
  <2>6. CASE Queue!Undo \/ Queue!Claim
    BY <2>1, <2>6 DEF Queue!Undo, Queue!Claim, Queue!Change, Queue!In
  <2>7. CASE Queue!Act
    BY <2>1, <2>7 DEF Queue!Act, Queue!In
  <2>8. CASE Queue!Settle
    BY <2>1, <2>8 DEF Queue!Settle
  <2>9. CASE UNCHANGED Queue!vars
    BY <2>9 DEF Queue!vars
  <2> QED BY <2>4, <2>5, <2>6, <2>7, <2>8, <2>9 DEF Queue!Next
<1>2. TypeOK /\ NothingLost => Grounded
  BY DEF Grounded
<1> QED BY <1>1, <1>2, TypeCorrect, NothingIsLost, DisciplinedAlways, HonestAlways, PTL DEF Spec

-----------------------------------------------------------------------------
(* Row ids, and the history's record of them. *)

\* What an enqueue of `req` over `msgs`, referring to intent `refUid`, does.
Enqueued(req, msgs, refUid) ==
  LET n  == Len(log) + 1
      id == NextId
      refId == IF refUid = 0 THEN None ELSE log[refUid].id
  IN /\ n \notin DOMAIN log /\ DOMAIN log' = DOMAIN log \cup {n}
     /\ \A u \in DOMAIN log : log'[u] = log[u]
     /\ \A i \in DOMAIN rows : i < id
     /\ DOMAIN rows' = DOMAIN rows \cup {id}
     /\ \A i \in DOMAIN rows : rows'[i] = rows[i]
     /\ rows'[id].uid = n /\ rows'[id].state = "queued"
     /\ rows'[id].pay = PayloadOf(req, msgs, refId) /\ log'[n].pay = rows'[id].pay
     /\ log'[n].id = id /\ log'[n].refUid = refUid /\ log'[n].fate = "live"
     /\ ~log'[n].late /\ refUid # 0 => IsQueued(refId) /\ rows[refId].uid = refUid

LEMMA NextIdAbove ==
  ASSUME TableOK, NEW i \in DOMAIN rows
  PROVE  i < NextId /\ i \in Nat /\ NextId \in Nat
<1>1. rows # Empty /\ DOMAIN rows # {}
  BY EmptyTyped
<1>2. Len(log) \in Nat
  BY LenProperties DEF TableOK
<1>3. DOMAIN rows \in SUBSET Nat /\ \A j \in DOMAIN rows : j <= Len(log)
  BY <1>2 DEF TableOK
<1>4. Max(DOMAIN rows) \in DOMAIN rows /\ i <= Max(DOMAIN rows)
  BY <1>1, <1>2, <1>3, GreatestNatural
<1>5. Max(DOMAIN rows) \in Nat /\ i \in Nat
  BY <1>3, <1>4
<1>6. NextId = 1 + Max(DOMAIN rows)
  BY <1>1 DEF NextId
<1> QED BY <1>4, <1>5, <1>6

LEMMA InsertEnqueues ==
  ASSUME TypeOK, NEW req, NEW msgs, NEW refUid, NEW group, NEW wait,
         Insert(req, msgs, refUid, group, wait)
  PROVE  Enqueued(req, msgs, refUid)
<1> DEFINE n == Len(log) + 1
           id == NextId
           refId == IF refUid = 0 THEN None ELSE log[refUid].id
           pay == PayloadOf(req, msgs, refId)
           late == refUid # 0 /\ ~(IsQueued(refId) /\ rows[refId].uid = refUid)
           r == [uid |-> n, pay |-> pay, state |-> "queued",
                 wait |-> wait, attempt |-> 1, class |-> "none"]
           e == [id |-> id, group |-> IF group = 0 THEN n ELSE group, pay |-> pay,
                 refUid |-> refUid, fate |-> "live", late |-> late]
<1>1. rows' = Put(rows, id, r) /\ log' = Append(log, e)
  BY DEF Insert
<1>2. /\ e.id = id /\ e.pay = pay /\ e.refUid = refUid /\ e.fate = "live" /\ e.late = late
      /\ r.uid = n /\ r.pay = pay /\ r.state = "queued"
  OBVIOUS
<1>3. Len(log) \in Nat /\ DOMAIN log = 1..Len(log) /\ log \in Seq(Entry)
  BY LenProperties DEF TypeOK, TableOK
<1>4. \A i \in DOMAIN rows : i < id
  BY NextIdAbove DEF TypeOK
<1>5. id \notin DOMAIN rows
  BY NextIdFresh DEF TypeOK
<1>6. ~late /\ refUid # 0 => IsQueued(refId) /\ rows[refId].uid = refUid
  OBVIOUS
<1> HIDE DEF id, refId, pay, late, r, e
<1>7. /\ n \notin DOMAIN log /\ DOMAIN log' = DOMAIN log \cup {n}
      /\ \A u \in DOMAIN log : log'[u] = log[u]
      /\ log'[n] = e
  BY <1>1, <1>3
<1>8. /\ DOMAIN rows' = DOMAIN rows \cup {id} /\ rows'[id] = r
      /\ \A i \in DOMAIN rows : rows'[i] = rows[i]
  BY <1>1, <1>5 DEF Put
<1> QED BY <1>2, <1>4, <1>6, <1>7, <1>8 DEF Enqueued, id, refId, pay

\* Everything the history says of an intent but its fate is said once.
EntriesKept ==
  /\ DOMAIN log \subseteq DOMAIN log'
  /\ \A u \in DOMAIN log :
       /\ log'[u].id = log[u].id /\ log'[u].group = log[u].group
       /\ log'[u].pay = log[u].pay /\ log'[u].refUid = log[u].refUid
       /\ log'[u].late = log[u].late

LEMMA FatesKeepEntries ==
  ASSUME TypeOK, DOMAIN log' = DOMAIN log,
         \A u \in DOMAIN log : log'[u] = log[u] \/ \E f : log'[u] = [log[u] EXCEPT !.fate = f]
  PROVE  EntriesKept
<1>1. \A u \in DOMAIN log : log[u] \in Entry
  BY LenProperties DEF TypeOK, TableOK
<1> QED BY <1>1 DEF EntriesKept, Entry

LEMMA AnnihilateFates ==
  ASSUME TypeOK, NEW ids, NEW meant, Annihilate(ids, meant)
  PROVE  /\ DOMAIN log' = DOMAIN log /\ EntriesKept
         /\ \A u \in DOMAIN log :
              IF \E i \in Caught(ids) : rows[i].uid = u
              THEN log'[u].fate \in {"undone", "stray"}
              ELSE log'[u] = log[u]
<1> DEFINE gone == {rows[i].uid : i \in Caught(ids)}
           fate(u) == IF u \in meant THEN "undone" ELSE "stray"
<1>1. log' = [u \in DOMAIN log |-> IF u \notin gone THEN log[u]
                                   ELSE [log[u] EXCEPT !.fate = fate(u)]]
  BY DEF Annihilate
<1>2. \A u \in DOMAIN log : log[u] \in Entry
  BY LenProperties DEF TypeOK, TableOK
<1>3. \A u : fate(u) \in {"undone", "stray"}
  OBVIOUS
<1>4. \A u : u \in gone <=> \E i \in Caught(ids) : rows[i].uid = u
  OBVIOUS
<1> HIDE DEF gone, fate
<1>5. DOMAIN log' = DOMAIN log /\ EntriesKept
  BY <1>1, FatesKeepEntries
<1>6. \A u \in DOMAIN log : IF u \in gone THEN log'[u].fate = fate(u) ELSE log'[u] = log[u]
  BY <1>1, <1>2 DEF Entry
<1> QED BY <1>3, <1>4, <1>5, <1>6

\* A caller enqueues one intent, annihilates rows, or leaves the table alone.
LEMMA CallerSteps ==
  ASSUME TypeOK, Callers
  PROVE  \/ \E req \in Requests, refUid \in 0..Len(log) :
              /\ Enqueued(req, {}, refUid) /\ EnqueueSingle(req) /\ Nameable(req, refUid)
         \/ \E p \in Caller : \E msgs :
              Enqueued(bulk[p].req, msgs, bulk[p].refUid) /\ BulkChunk(p)
         \/ \E ids, meant : Annihilate(ids, meant)
         \/ UNCHANGED table
<1>1. CASE \E req \in Requests : EnqueueSingle(req)
  <2>1. PICK req \in Requests, refUid \in 0..Len(log) :
          EnqueueSingle(req) /\ Nameable(req, refUid) /\ Insert(req, {}, refUid, 0, 0)
    BY <1>1 DEF EnqueueSingle
  <2> QED BY <2>1, InsertEnqueues
<1>2. CASE \E p \in Caller : BulkChunk(p)
  BY <1>2, BulkChunkInserts, InsertEnqueues
<1>3. CASE (\E p \in Caller : Compensate(p)) \/ \E group \in 1..Len(log) : Undo(group)
  BY <1>3 DEF Compensate, Undo
<1>4. (\E p \in Caller : BulkFails(p) \/ \E req \in Requests : BulkStart(p, req))
        => UNCHANGED table
  BY DEF BulkStart, BulkFails
<1> QED BY <1>1, <1>2, <1>3, <1>4 DEF Callers

LEMMA NextKeepsEntries ==
  ASSUME TypeOK, [Next]_vars
  PROVE  EntriesKept
<1>1. UNCHANGED log => EntriesKept
  BY DEF EntriesKept
<1>2. CASE Callers
  <2>1. \A req, msgs, refUid : Enqueued(req, msgs, refUid) => EntriesKept
    BY DEF Enqueued, EntriesKept
  <2> QED BY <1>1, <1>2, <2>1, CallerSteps, AnnihilateFates DEF table
<1>3. CASE Finalize
  <2>1. /\ DOMAIN log' = DOMAIN log
        /\ \A u \in DOMAIN log :
             log'[u] = log[u] \/ \E f : log'[u] = [log[u] EXCEPT !.fate = f]
    BY <1>3 DEF Finalize
  <2> QED BY <2>1, FatesKeepEntries
<1>4. CASE ~Callers /\ ~Finalize
  <2>1. UNCHANGED log
    BY <1>4 DEF Next, Dispatch, Probe, Claim, ClaimFails, Abandon, FailUnsent, CallFails,
       MoveCall, CreateCall, CreateRefused, Adopt, Refile, RenameCall, DeleteCall,
       Replay, Persist, ResolvePage, ResolveEnd, RecordFails, FinalizeFails, Recover,
       RecoverFails, Tick, Crash, Restart, SyncPull, OtherClient, vars, table
  <2> QED BY <1>1, <2>1
<1> QED BY <1>2, <1>3, <1>4

\* Every row has the id its intent was enqueued under.
RowsNamed == \A i \in DOMAIN rows : log[rows[i].uid].id = i

\* Rows keep their ids and uids, and a new one takes the id the history records.
RowsTraced ==
  \A i \in DOMAIN rows' :
    \/ i \in DOMAIN rows /\ rows'[i].uid = rows[i].uid
    \/ i \notin DOMAIN rows /\ log'[rows'[i].uid].id = i

LEMMA NextTracesRows ==
  ASSUME TypeOK, [Next]_vars
  PROVE  RowsTraced
<1>1. \A D : Dropped(D) => RowsTraced
  BY DEF Dropped, RowsTraced
<1>2. CASE Callers
  <2>1. \A req, msgs, refUid : Enqueued(req, msgs, refUid) => RowsTraced
    <3> SUFFICES ASSUME NEW req, NEW msgs, NEW refUid, Enqueued(req, msgs, refUid)
                 PROVE  RowsTraced
      OBVIOUS
    <3>1. NextId \notin DOMAIN rows
      BY NextIdFresh DEF TypeOK
    <3> QED BY <3>1 DEF Enqueued, RowsTraced
  <2> QED BY <1>1, <1>2, <2>1, CallerSteps, AnnihilateDrops, TableKept
<1>3. CASE ~Callers
  <2>1. CASE Finalize
    BY <1>1, <2>1, FinalizeDrops
  <2>2. CASE Claim \/ Persist \/ ResolvePage \/ Recover
    BY <1>1, <2>2, PassRewrites
  <2>3. CASE Tick \/ Restart
    BY <1>1, <2>3, TickKeeps
  <2>4. CASE ~(Finalize \/ Claim \/ Persist \/ ResolvePage \/ Recover \/ Tick \/ Restart)
    <3>1. UNCHANGED table
      BY <1>3, <2>4 DEF Next, Dispatch, Probe, ClaimFails, Abandon, FailUnsent, CallFails,
         MoveCall, CreateCall, CreateRefused, Adopt, Refile, RenameCall, DeleteCall,
         Replay, ResolveEnd, RecordFails, FinalizeFails, RecoverFails,
         Crash, SyncPull, OtherClient, vars
    <3> QED BY <1>1, <3>1, TableKept
  <2> QED BY <2>1, <2>2, <2>3, <2>4
<1> QED BY <1>2, <1>3

LEMMA NextNamesRows ==
  ASSUME TypeOK, RowsNamed, [Next]_vars
  PROVE  RowsNamed'
<1>1. \A i \in DOMAIN rows : rows[i].uid \in DOMAIN log
  BY DEF TypeOK, TableOK
<1> QED BY <1>1, NextKeepsEntries, NextTracesRows DEF RowsNamed, RowsTraced, EntriesKept

LEMMA RowsNamedAlways == Spec => []RowsNamed
<1>1. Init => RowsNamed
  BY EmptyTyped DEF Init, RowsNamed
<1>2. TypeOK /\ RowsNamed /\ [Next]_vars => RowsNamed'
  BY NextNamesRows
<1> QED BY <1>1, <1>2, TypeCorrect, PTL DEF Spec

-----------------------------------------------------------------------------
(* No intent without a holder. *)

\* An annihilation leaves no live intent whose id it caught.
LEMMA AnnihilateEnds ==
  ASSUME TypeOK, NothingLost, RowsNamed, NEW ids, NEW meant, Annihilate(ids, meant),
         NEW u \in DOMAIN log', log'[u].fate = "live"
  PROVE  u \in DOMAIN log /\ log[u].fate = "live" /\ log[u].id \notin Caught(ids)
<1>1. u \in DOMAIN log
  BY AnnihilateFates
<1>2. log[u].fate = "live" /\ ~ \E i \in Caught(ids) : rows[i].uid = u
  BY <1>1, AnnihilateFates
<1>3. PICK i \in DOMAIN rows : rows[i].uid = u
  BY <1>1, <1>2 DEF NothingLost
<1>4. log[u].id = i
  BY <1>3 DEF RowsNamed
<1> QED BY <1>1, <1>2, <1>3, <1>4

LEMMA CallersOrphanNone ==
  ASSUME TypeOK, NothingLost, RowsNamed, Callers
  PROVE  Orphans' \subseteq Orphans
<1>1. CASE \E req \in Requests : EnqueueSingle(req)
  <2>1. PICK req \in Requests, refUid \in 0..Len(log) : Insert(req, {}, refUid, 0, 0)
    BY <1>1 DEF EnqueueSingle
  <2>2. Enqueued(req, {}, refUid)
    BY <2>1, InsertEnqueues
  <2>3. handle' = handle \cup {Len(log) + 1} /\ UNCHANGED bulk
    BY <1>1 DEF EnqueueSingle
  <2> QED BY <2>2, <2>3 DEF Enqueued, Orphans
<1>a. bulk \in [Caller -> Call]
  BY DEF TypeOK, CallerOK
<1>2. CASE \E p \in Caller : BulkChunk(p)
  <2>1. PICK p \in Caller : BulkChunk(p)
    BY <1>2
  <2>2. PICK msgs : Enqueued(bulk[p].req, msgs, bulk[p].refUid)
    BY <2>1, BulkChunkInserts, CallTyped, InsertEnqueues
  <2> DEFINE got == bulk[p].got \cup {Len(log) + 1}
  <2>3. \/ handle' = handle \cup got /\ bulk' = [bulk EXCEPT ![p] = NoBulk]
        \/ /\ handle' = handle
           /\ \E rest : bulk' = [bulk EXCEPT ![p] = [bulk[p] EXCEPT !.left = rest, !.got = got]]
    BY <2>1 DEF BulkChunk
  <2>4. /\ \A q \in Caller \ {p} : bulk'[q] = bulk[q]
        /\ handle \cup got \subseteq handle' \cup bulk'[p].got
    <3>1. bulk[p] \in Call
      BY CallTyped
    <3> HIDE DEF got
    <3>2. \A rest : [bulk[p] EXCEPT !.left = rest, !.got = got].got = got
      BY <3>1 DEF Call
    <3> QED BY <1>a, <2>3, <3>2
  <2>5. handle \cup {Len(log) + 1} \cup UNION {bulk[q].got : q \in Caller}
          \subseteq handle' \cup UNION {bulk'[q].got : q \in Caller}
    BY <2>4
  <2> QED BY <2>2, <2>5 DEF Enqueued, Orphans
<1>3. CASE \E p \in Caller : Compensate(p)
  <2>1. PICK p \in Caller : Compensate(p)
    BY <1>3
  <2> DEFINE got == bulk[p].got
  <2>2. \A q \in Caller \ {p} : bulk'[q] = bulk[q]
    BY <1>a, <2>1 DEF Compensate
  <2>3. ASSUME NEW u \in DOMAIN log, u \in UNION {bulk[q].got : q \in Caller}, u \notin got
        PROVE  u \in UNION {bulk'[q].got : q \in Caller}
    BY <2>2, <2>3
  <2>4. CASE /\ Annihilate({log[u].id : u \in got}, got)
             /\ handle' = handle \cup Escaped(got)
    <3> SUFFICES ASSUME NEW u \in Orphans' PROVE  u \in Orphans
      OBVIOUS
    <3>1. /\ u \in DOMAIN log /\ log[u].fate = "live"
          /\ log[u].id \notin Caught({log[v].id : v \in got})
      <4>1. u \in DOMAIN log' /\ log'[u].fate = "live"
        BY DEF Orphans
      <4> HIDE DEF got
      <4> QED BY <2>4, <4>1, AnnihilateEnds
    <3>2. u \notin handle /\ u \notin Escaped(got)
          /\ u \notin UNION {bulk'[q].got : q \in Caller}
      BY <2>4 DEF Orphans
    <3>3. u \notin got
      BY <3>1, <3>2 DEF Escaped, Caught
    <3> QED BY <2>3, <3>1, <3>2, <3>3 DEF Orphans
  <2>5. CASE handle' = handle \cup got /\ UNCHANGED table
    <3>1. UNCHANGED log
      BY <2>5 DEF table
    <3> QED BY <2>3, <2>5, <3>1 DEF Orphans
  <2> QED BY <2>1, <2>4, <2>5 DEF Compensate
<1>4. CASE \E group \in 1..Len(log) : Undo(group)
  <2>1. PICK group : Undo(group)
    BY <1>4
  <2> DEFINE meant == {u \in handle : log[u].group = group}
             ids   == {log[u].id : u \in meant}
  <2>2. /\ Annihilate(ids, meant) /\ UNCHANGED bulk
        /\ handle' = {u \in handle : u \notin meant \/ log[u].id \notin Caught(ids)}
    BY <2>1 DEF Undo
  <2> HIDE DEF meant, ids
  <2> SUFFICES ASSUME NEW u \in Orphans' PROVE u \in Orphans
    OBVIOUS
  <2>3. u \in DOMAIN log /\ log[u].fate = "live" /\ log[u].id \notin Caught(ids)
    BY <2>2, AnnihilateEnds DEF Orphans
  <2> QED BY <2>2, <2>3 DEF Orphans
<1>5. CASE \E p \in Caller : BulkFails(p) \/ \E req \in Requests : BulkStart(p, req)
  <2>1. PICK p \in Caller : BulkFails(p) \/ \E req \in Requests : BulkStart(p, req)
    BY <1>5
  <2>2. UNCHANGED <<log, handle>>
    BY <2>1 DEF BulkFails, BulkStart, table
  <2>3. /\ \A q \in Caller \ {p} : bulk'[q] = bulk[q]
        /\ bulk[p].got \subseteq bulk'[p].got
    <3>1. CASE BulkFails(p)
      <4>1. bulk[p] \in Call /\ [bulk[p] EXCEPT !.left = {}].got = bulk[p].got
        BY CallTyped DEF Call
      <4> QED BY <1>a, <3>1, <4>1 DEF BulkFails
    <3>2. CASE \E req \in Requests : BulkStart(p, req)
      BY <1>a, <3>2 DEF BulkStart
    <3> QED BY <2>1, <3>1, <3>2
  <2>4. UNION {bulk[q].got : q \in Caller} \subseteq UNION {bulk'[q].got : q \in Caller}
    BY <2>3
  <2> QED BY <2>2, <2>4 DEF Orphans
<1> QED BY <1>1, <1>2, <1>3, <1>4, <1>5 DEF Callers

LEMMA NextOrphansNone ==
  ASSUME TypeOK, NothingLost, RowsNamed, [Next]_vars, ~Crash
  PROVE  Orphans' \subseteq Orphans
<1>1. CASE Callers
  BY <1>1, CallersOrphanNone
<1>2. CASE ~Callers
  <2>1. UNCHANGED <<handle, bulk>>
    BY <1>2 DEF Next, Dispatch, Probe, Claim, ClaimFails, Abandon, FailUnsent,
       CallFails, MoveCall, CreateCall, CreateRefused, Adopt, Refile, RenameCall, DeleteCall,
       Replay, Persist, ResolvePage, ResolveEnd, RecordFails, Finalize, FinalizeFails,
       Recover, RecoverFails, Tick, Restart, SyncPull, OtherClient, vars, caller
  <2>2. \A u \in DOMAIN log' : log'[u].fate = "live" => u \in DOMAIN log /\ log[u].fate = "live"
    <3>1. CASE Finalize
      BY <3>1, FinalizeDrops DEF Dropped
    <3>2. CASE ~Finalize
      <4>1. UNCHANGED log
        BY <1>2, <3>2 DEF Next, Dispatch, Probe, Claim, ClaimFails, Abandon, FailUnsent,
           CallFails, MoveCall, CreateCall, CreateRefused, Adopt, Refile, RenameCall,
           DeleteCall, Replay, Persist, ResolvePage, ResolveEnd, RecordFails, FinalizeFails,
           Recover, RecoverFails, Tick, Restart, SyncPull, OtherClient, vars, table
      <4> QED BY <4>1
    <3> QED BY <3>1, <3>2
  <2> QED BY <2>1, <2>2 DEF Orphans
<1> QED BY <1>1, <1>2

\* No intent of a bulk move outlives its call unknown to the caller: a call
\* that fails half way returns whatever a pass had claimed before it could be
\* undone, an Undo forgets only what it annihilated, and neither the other
\* calls under way nor the ids given again in between change that.  Only the
\* death of a process, which forgets every id, orphans an intent, and its
\* intents run on.
THEOREM NoChunkIsOrphaned == Spec => OnlyACrashOrphans
<1>1. TypeOK /\ NothingLost /\ RowsNamed /\ [Next]_vars => [Orphans' \subseteq Orphans \/ Crash]_vars
  BY NextOrphansNone
<1> QED BY <1>1, TypeCorrect, NothingIsLost, RowsNamedAlways, PTL DEF Spec, OnlyACrashOrphans

-----------------------------------------------------------------------------
(* References are resolved. *)

\* What a payload of intent u, in its row or as a claim read it, says of the
\* create u refers to.
Refers(hist, u, pay) ==
  /\ pay.kind = hist[u].pay.kind
  /\ pay.ref # None => /\ hist[u].refUid # 0 /\ pay.ref = hist[hist[u].refUid].id
                       /\ pay.kind \in {"move", "create"}
References ==
  /\ \A u \in DOMAIN log : log[u].refUid # 0 => log[log[u].refUid].pay.kind = "create"
  /\ \A p \in Caller :
       bulk[p].refUid # 0 => /\ log[bulk[p].refUid].pay.kind = "create"
                             /\ bulk[p].req.kind = "move"
  /\ \A i \in DOMAIN rows : Refers(log, rows[i].uid, rows[i].pay)
  /\ \A i \in DOMAIN claim : Refers(log, claim[i].uid, claim[i].pay)

\* The id a row refers to is below its own, so while the row is in the table
\* that id is not given again: it is its create's or nobody's.
ParentsHeld ==
  \A i \in DOMAIN rows :
    LET entry == log[rows[i].uid]
        id == log[entry.refUid].id
    IN ~entry.late /\ entry.refUid # 0 =>
         id < i /\ (id \in DOMAIN rows => rows[id].uid = entry.refUid)

\* In the table `tab` with the history `hist`, row i refers to row c, which it
\* could have found queued, and it has a request to make.
Waiting(tab, hist, i, c) ==
  /\ i \in DOMAIN tab /\ ~hist[tab[i].uid].late
  /\ tab[i].pay.ref = c /\ tab[i].pay.resolvedSid = None

\* A create under way is one, and carries the id the server gave it; the batch
\* answers beside it are its moves'.
Underway ==
  /\ phase \in {"adopt", "refile", "persist", "resolve"} => \A c \in Least(Undecided) : IsCreate(c)
  /\ phase \in {"refile", "persist", "resolve"} => newSid # None
  /\ phase \in {"persist", "resolve"} => \A i \in DOMAIN out : ~IsCreate(i)

\* No row the walk of resolveDependentRefs has passed is still waiting, and
\* none at all for a create the pass has settled on as delivered.
Walked ==
  /\ phase = "resolve" =>
       \A c \in Least(Undecided) : \A i : i <= after => ~Waiting(rows, log, i, c)
  /\ phase \notin {"idle", "claim"} =>
       \A c \in DOMAIN decided :
         decided[c].why = "delivered" /\ IsCreate(c) => \A i : ~Waiting(rows, log, i, c)

Resolving == Underway /\ Walked

\* A step that adds no row shrinks the table, or leaves it.
Shrinks ==
  /\ DOMAIN rows' \subseteq DOMAIN rows
  /\ \A i \in DOMAIN rows' : rows'[i].uid = rows[i].uid
  /\ DOMAIN log' = DOMAIN log

LEMMA NextTable ==
  ASSUME TypeOK, [Next]_vars
  PROVE  \/ /\ Shrinks
            /\ ~Callers \/ \E ids, meant : Annihilate(ids, meant) \/ UNCHANGED table
         \/ \E req \in Requests : \E refUid \in 0..Len(log) : 
              /\ Callers /\ Enqueued(req, {}, refUid) /\ EnqueueSingle(req)
              /\ Nameable(req, refUid)
         \/ \E p \in Caller : \E msgs :
            Callers /\ Enqueued(bulk[p].req, msgs, bulk[p].refUid) /\ BulkChunk(p)
<1>1. \A D : Dropped(D) => Shrinks
  BY DEF Dropped, Shrinks
<1>2. CASE Callers
  BY <1>1, <1>2, CallerSteps, AnnihilateDrops, TableKept
<1>3. CASE ~Callers
  <2>1. CASE Finalize
    BY <1>1, <1>3, <2>1, FinalizeDrops
  <2>2. CASE Claim \/ Persist \/ ResolvePage \/ Recover
    BY <1>1, <1>3, <2>2, PassRewrites
  <2>3. CASE Tick \/ Restart
    BY <1>1, <1>3, <2>3, TickKeeps
  <2>4. CASE ~(Finalize \/ Claim \/ Persist \/ ResolvePage \/ Recover \/ Tick \/ Restart)
    <3>1. UNCHANGED table
      BY <1>3, <2>4 DEF Next, Dispatch, Probe, ClaimFails, Abandon, FailUnsent, CallFails,
         MoveCall, CreateCall, CreateRefused, Adopt, Refile, RenameCall, DeleteCall,
         Replay, ResolveEnd, RecordFails, FinalizeFails, RecoverFails,
         Crash, SyncPull, OtherClient, vars
    <3> QED BY <1>1, <1>3, <3>1, TableKept
  <2> QED BY <2>1, <2>2, <2>3, <2>4
<1> QED BY <1>2, <1>3

LEMMA NextHoldsParents ==
  ASSUME TypeOK, ParentsHeld, [Next]_vars
  PROVE  ParentsHeld'
<1>1. /\ \A i \in DOMAIN rows : rows[i].uid \in DOMAIN log
      /\ \A u \in DOMAIN log : log[u].refUid # 0 => log[u].refUid \in DOMAIN log
  <2>1. Len(log) \in Nat /\ DOMAIN log = 1..Len(log)
    BY LenProperties DEF TypeOK, TableOK
  <2> QED BY <2>1 DEF TypeOK, TableOK
<1>2. EntriesKept
  BY NextKeepsEntries
<1>3. CASE Shrinks
  BY <1>1, <1>2, <1>3 DEF Shrinks, EntriesKept, ParentsHeld
<1>4. ASSUME NEW req, NEW msgs, NEW refUid \in 0..Len(log), Enqueued(req, msgs, refUid)
      PROVE  ParentsHeld'
  <2> SUFFICES ASSUME NEW i \in DOMAIN rows',
                      ~log'[rows'[i].uid].late, log'[rows'[i].uid].refUid # 0
               PROVE  LET id == log'[log'[rows'[i].uid].refUid].id
                      IN  id < i /\ (id \in DOMAIN rows' =>
                                       rows'[id].uid = log'[rows'[i].uid].refUid)
    BY DEF ParentsHeld
  <2>1. CASE i \in DOMAIN rows
    <3> DEFINE entry == log[rows[i].uid]
               id == log[entry.refUid].id
    <3>1. rows'[i] = rows[i] /\ log'[rows[i].uid] = entry
      BY <1>1, <1>4, <2>1 DEF Enqueued
    <3>2. entry.refUid \in DOMAIN log /\ log'[entry.refUid] = log[entry.refUid]
      BY <1>1, <1>4, <2>1, <3>1 DEF Enqueued
    <3>3. id < i /\ (id \in DOMAIN rows => rows[id].uid = entry.refUid)
      BY <2>1, <3>1 DEF ParentsHeld
    <3>4. i < NextId /\ i \in Nat /\ NextId \in Nat /\ id \in Nat
      <4>1. log[entry.refUid] \in Entry
        BY <3>2, LenProperties DEF TypeOK, TableOK
      <4> QED BY <2>1, <4>1, NextIdAbove DEF TypeOK, Entry
    <3>5. id # NextId
      <4> HIDE DEF id
      <4> QED BY <3>3, <3>4
    <3>6. id \in DOMAIN rows' => id \in DOMAIN rows /\ rows'[id] = rows[id]
      BY <1>4, <3>5 DEF Enqueued
    <3> QED BY <3>1, <3>2, <3>3, <3>6
  <2>2. CASE i \notin DOMAIN rows
    <3>1. i = NextId /\ rows'[i].uid = Len(log) + 1 /\ log'[Len(log) + 1].refUid = refUid
      BY <1>4, <2>2 DEF Enqueued
    <3>2. refUid # 0 /\ refUid \in DOMAIN log
      <4>1. Len(log) \in Nat /\ DOMAIN log = 1..Len(log)
        BY LenProperties DEF TypeOK, TableOK
      <4> QED BY <3>1, <4>1
    <3>3. IsQueued(log[refUid].id) /\ rows[log[refUid].id].uid = refUid
          /\ log'[refUid] = log[refUid]
      BY <1>4, <3>1, <3>2 DEF Enqueued
    <3>4. log[refUid].id \in DOMAIN rows /\ log[refUid].id < i
          /\ rows'[log[refUid].id] = rows[log[refUid].id]
      BY <1>4, <3>1, <3>3 DEF Enqueued, IsQueued
    <3> QED BY <3>1, <3>3, <3>4
  <2> QED BY <2>1, <2>2
<1> QED BY <1>3, <1>4, CallTyped, NextTable

\* How the row under id i came to its payload.
SamePay(i) ==
  i \in DOMAIN rows /\ rows'[i].uid = rows[i].uid /\ rows'[i].pay = rows[i].pay
Persisted(i) ==
  /\ Persist /\ i \in Least(Undecided) /\ i \in DOMAIN claim /\ phase = "persist"
  /\ i \in DOMAIN rows /\ rows'[i].uid = rows[i].uid /\ rows[i].uid = claim[i].uid
  /\ rows'[i].pay = [claim[i].pay EXCEPT !.resolvedSid = newSid]
Rewritten(i) ==
  /\ ResolvePage /\ i \in DOMAIN rows /\ rows'[i].uid = rows[i].uid
  /\ \E c \in Least(Undecided) : phase = "resolve" /\ c \in DOMAIN claim
                                 /\ rows'[i].pay = RewriteRef(rows[i].pay, c)
Asked(i) ==
  /\ i = NextId /\ i \notin DOMAIN rows
  /\ \/ \E req \in Requests : \E refUid \in 0..Len(log) :
          /\ Callers /\ Enqueued(req, {}, refUid) /\ EnqueueSingle(req)
          /\ Nameable(req, refUid)
     \/ \E p \in Caller : \E msgs :
            Callers /\ Enqueued(bulk[p].req, msgs, bulk[p].refUid) /\ BulkChunk(p)

LEMMA NextPays ==
  ASSUME TypeOK, Disciplined, [Next]_vars, NEW i \in DOMAIN rows'
  PROVE  SamePay(i) \/ Persisted(i) \/ Rewritten(i) \/ Asked(i)
<1>1. CASE Callers
  <2>1. CASE UNCHANGED table
    BY <2>1 DEF SamePay, table
  <2>2. CASE \E ids, meant : Annihilate(ids, meant)
    BY <2>2, AnnihilateDrops DEF SamePay, Dropped
  <2>3. \A req, msgs, refUid :
           Enqueued(req, msgs, refUid) => SamePay(i) \/ (i = NextId /\ i \notin DOMAIN rows)
    BY NextIdFresh DEF Enqueued, SamePay, TypeOK
  <2> QED BY <1>1, <2>1, <2>2, <2>3, CallerSteps DEF Asked
<1>2. CASE Persist
  BY <1>2, PersistWrites DEF SamePay, Persisted, Turn
<1>3. CASE ResolvePage
  <2>1. PICK c \in Least(Undecided) :
          /\ Turn(c, "resolve") /\ DOMAIN rows' = DOMAIN rows
          /\ \A j \in DOMAIN rows :
               /\ rows'[j].uid = rows[j].uid
               /\ rows'[j].pay = IF j \in Page \ {c} THEN RewriteRef(rows[j].pay, c)
                                                     ELSE rows[j].pay
    BY <1>3, PageWrites
  <2>2. phase = "resolve" /\ c \in DOMAIN claim
    BY <2>1 DEF Turn, Least, Undecided
  <2> QED BY <1>3, <2>1, <2>2 DEF SamePay, Rewritten
<1>4. CASE Finalize \/ Recover
  BY <1>4, PutBackWrites DEF SamePay
<1>5. CASE Claim
  BY <1>5, ClaimReads DEF SamePay
<1>6. CASE Tick \/ Restart
  BY <1>6, SweepWrites DEF SamePay
<1>7. CASE ~(\/ Callers \/ Persist \/ ResolvePage \/ Finalize \/ Recover \/ Claim
             \/ Tick \/ Restart)
  <2>1. UNCHANGED table
    BY <1>7 DEF Next, Dispatch, Probe, ClaimFails, Abandon, FailUnsent, CallFails,
       MoveCall, CreateCall, CreateRefused, Adopt, Refile, RenameCall, DeleteCall,
       Replay, ResolveEnd, RecordFails, FinalizeFails, RecoverFails,
       Crash, SyncPull, OtherClient, vars
  <2> QED BY <2>1 DEF SamePay, table
<1> QED BY <1>1, <1>2, <1>3, <1>4, <1>5, <1>6, <1>7

\* What a claim holds was read from the table by this claim, or held before.
LEMMA NextClaims ==
  ASSUME TypeOK, [Next]_vars
  PROVE  \/ Claim
         \/ claim' = Empty /\ phase' = "idle"
         \/ claim' = claim
  BY DEF Next, Callers, EnqueueSingle, BulkStart, BulkChunk, BulkFails, Compensate, Undo,
     Dispatch, Probe, ClaimFails, Abandon, FailUnsent, CallFails,
     MoveCall, CreateCall, CreateRefused, Adopt, Refile, RenameCall, DeleteCall,
     Replay, Persist, ResolvePage, ResolveEnd, RecordFails, Finalize, FinalizeFails, Recover,
     RecoverFails, Tick, Crash, Restart, SyncPull, OtherClient, vars, pass

\* The request a bulk call in progress carries.
LEMMA NextBulk ==
  ASSUME TypeOK, [Next]_vars, NEW p \in Caller
  PROVE  \/ bulk'[p] = NoBulk
         \/ /\ bulk'[p].refUid = bulk[p].refUid /\ bulk'[p].req = bulk[p].req
            /\ bulk[p].left = {} => bulk'[p].left = {}
         \/ /\ UNCHANGED table /\ bulk'[p].req.kind = "move"
            /\ bulk'[p].refUid # 0 => /\ bulk'[p].refUid \in DOMAIN log
                                     /\ log[bulk'[p].refUid].pay.kind = "create"
                                     /\ bulk'[p].req.box = None
<1>1. bulk \in [Caller -> Call]
  BY DEF TypeOK, CallerOK
<1>2. bulk[p] \in Call
  BY CallTyped
<1>3. CASE \E q \in Caller, req \in Requests : BulkStart(q, req)
  <2>1. PICK q \in Caller, req \in Requests, refUid \in 0..Len(log) :
          /\ req.kind = "move" /\ Nameable(req, refUid) /\ UNCHANGED table
          /\ req.ref # (req.box # None)
          /\ bulk' = [bulk EXCEPT ![q] =
                       [req |-> req, left |-> req.msgs, refUid |-> refUid, got |-> {}]]
    BY <1>3 DEF BulkStart
  <2>2. Len(log) \in Nat /\ DOMAIN log = 1..Len(log)
    BY LenProperties DEF TypeOK, TableOK
  <2>3. refUid = 0 \/ /\ req.ref /\ log[refUid].pay.kind = "create"
    BY <2>1 DEF Nameable
  <2>4. req.ref => req.box = None
    <3>1. req.ref \in BOOLEAN
      BY RequestsAssumption
    <3> QED BY <2>1, <3>1
  <2>5. CASE p = q
    <3>1. bulk'[p].refUid = refUid /\ bulk'[p].req = req
      BY <1>1, <2>1, <2>5
    <3> QED BY <2>1, <2>2, <2>3, <2>4, <3>1
  <2>6. CASE p # q
    BY <1>1, <2>1, <2>6
  <2> QED BY <2>5, <2>6
<1>4. CASE \E q \in Caller : BulkChunk(q) \/ BulkFails(q) \/ Compensate(q)
  <2>1. PICK q \in Caller : BulkChunk(q) \/ BulkFails(q) \/ Compensate(q)
    BY <1>4
  <2>2. \/ bulk' = [bulk EXCEPT ![q] = NoBulk]
        \/ /\ bulk[q].left # {}
           /\ \E rest, got : bulk' = [bulk EXCEPT ![q] =
                                        [bulk[q] EXCEPT !.left = rest, !.got = got]]
        \/ bulk' = [bulk EXCEPT ![q] = [bulk[q] EXCEPT !.left = {}]]
    BY <2>1 DEF BulkChunk, BulkFails, Compensate
  <2>3. CASE p = q
    <3>1. \/ bulk'[p] = NoBulk
          \/ /\ bulk[p].left # {}
             /\ \E rest, got : bulk'[p] = [bulk[p] EXCEPT !.left = rest, !.got = got]
          \/ bulk'[p] = [bulk[p] EXCEPT !.left = {}]
      <4>1. CASE bulk' = [bulk EXCEPT ![q] = NoBulk]
        BY <1>1, <2>3, <4>1
      <4>2. CASE /\ bulk[q].left # {}
                 /\ \E rest, got : bulk' = [bulk EXCEPT ![q] =
                                             [bulk[q] EXCEPT !.left = rest, !.got = got]]
        <5>1. PICK rest, got : bulk' = [bulk EXCEPT ![q] =
                                         [bulk[q] EXCEPT !.left = rest, !.got = got]]
          BY <4>2
        <5> DEFINE call == [bulk[q] EXCEPT !.left = rest, !.got = got]
        <5>2. bulk' = [bulk EXCEPT ![q] = call]
          BY <5>1
        <5> HIDE DEF call
        <5>3. bulk'[p] = call
          BY <1>1, <2>3, <5>2
        <5> QED BY <2>3, <4>2, <5>3 DEF call
      <4>3. CASE bulk' = [bulk EXCEPT ![q] = [bulk[q] EXCEPT !.left = {}]]
        BY <1>1, <2>3, <4>3
      <4> QED BY <2>2, <4>1, <4>2, <4>3
    <3> QED BY <1>2, <3>1 DEF Call
  <2>4. CASE p # q
    BY <1>1, <2>2, <2>4
  <2> QED BY <2>3, <2>4
<1>5. CASE Crash
  BY <1>5 DEF Crash
<1>6. CASE ~(Crash \/ \E q \in Caller :
                     \/ BulkChunk(q) \/ BulkFails(q) \/ Compensate(q)
                     \/ \E req \in Requests : BulkStart(q, req))
  <2>1. UNCHANGED bulk
    BY <1>6 DEF Next, Callers, EnqueueSingle, Undo,
       Dispatch, Probe, Claim, ClaimFails, Abandon, FailUnsent, CallFails,
       MoveCall, CreateCall, CreateRefused, Adopt, Refile, RenameCall, DeleteCall,
       Replay, Persist, ResolvePage, ResolveEnd, RecordFails, Finalize, FinalizeFails, Recover,
       RecoverFails, Tick, Restart, SyncPull, OtherClient, vars, caller
  <2> QED BY <2>1
<1> QED BY <1>3, <1>4, <1>5, <1>6

\* What an enqueue says of the intent it refers to.
LEMMA AskedRefers ==
  ASSUME TypeOK, References, NEW i, Asked(i)
  PROVE  \E req \in Requests : \E msgs : \E refUid \in 0..Len(log) :
           /\ Enqueued(req, msgs, refUid) /\ i = NextId /\ i \notin DOMAIN rows
           /\ refUid # 0 => /\ refUid \in DOMAIN log /\ log[refUid].pay.kind = "create"
                            /\ req.kind \in {"move", "create"}
<1>1. Len(log) \in Nat /\ DOMAIN log = 1..Len(log)
  BY LenProperties DEF TypeOK, TableOK
<1>2. CASE \E req \in Requests : \E refUid \in 0..Len(log) :
              Enqueued(req, {}, refUid) /\ Nameable(req, refUid)
  <2>1. PICK req \in Requests, refUid \in 0..Len(log) :
              Enqueued(req, {}, refUid) /\ Nameable(req, refUid)
    BY <1>2
  <2>2. refUid # 0 => log[refUid].pay.kind = "create" /\ req.kind \in {"move", "create"}
    BY <2>1, RequestsAssumption DEF Nameable
  <2> QED BY <1>1, <2>1, <2>2 DEF Asked
<1>3. CASE \E p \in Caller : \E msgs : Enqueued(bulk[p].req, msgs, bulk[p].refUid)
  <2>1. PICK p \in Caller : \E msgs : Enqueued(bulk[p].req, msgs, bulk[p].refUid)
    BY <1>3
  <2>2. bulk[p].req \in Requests /\ bulk[p].refUid \in 0..Len(log)
    BY CallTyped
  <2>3. bulk[p].refUid # 0 => /\ log[bulk[p].refUid].pay.kind = "create"
                              /\ bulk[p].req.kind = "move"
    BY DEF References
  <2> QED BY <1>1, <2>1, <2>2, <2>3 DEF Asked
<1> QED BY <1>2, <1>3 DEF Asked

LEMMA RefersKept ==
  ASSUME TypeOK, EntriesKept, NEW u \in DOMAIN log, NEW pay, NEW pay1, Refers(log, u, pay),
         pay1.kind = pay.kind, pay1.ref \in {None, pay.ref}
  PROVE  Refers(log', u, pay1)
<1>1. log[u].refUid # 0 => log[u].refUid \in DOMAIN log
  <2>1. Len(log) \in Nat /\ DOMAIN log = 1..Len(log)
    BY LenProperties DEF TypeOK, TableOK
  <2> QED BY <2>1 DEF TypeOK, TableOK
<1> QED BY <1>1 DEF Refers, EntriesKept

LEMMA NextRefers ==
  ASSUME TypeOK, Disciplined, References, [Next]_vars
  PROVE  References'
<1>1. EntriesKept
  BY NextKeepsEntries
<1>2. /\ Len(log) \in Nat /\ DOMAIN log = 1..Len(log)
      /\ \A u \in DOMAIN log : log[u].refUid # 0 => log[u].refUid \in DOMAIN log
      /\ \A i \in DOMAIN rows : rows[i].uid \in DOMAIN log /\ rows[i].pay \in Payload
      /\ \A i \in DOMAIN claim : claim[i].uid \in DOMAIN log /\ claim[i].pay \in Payload
  <2>1. Len(log) \in Nat /\ DOMAIN log = 1..Len(log)
    BY LenProperties DEF TypeOK, TableOK
  <2> QED BY <2>1 DEF TypeOK, TableOK, PassOK, Functional, Row, Claimed
<1>3. ASSUME NEW req \in Requests, NEW msgs, NEW refUid \in 0..Len(log),
             Enqueued(req, msgs, refUid),
             refUid # 0 => /\ refUid \in DOMAIN log /\ log[refUid].pay.kind = "create"
                           /\ req.kind \in {"move", "create"}
      PROVE  /\ rows'[NextId].uid = Len(log) + 1
             /\ DOMAIN log' = DOMAIN log \cup {Len(log) + 1}
             /\ log'[Len(log) + 1].refUid # 0 =>
                  log'[log'[Len(log) + 1].refUid].pay.kind = "create"
             /\ rows'[NextId].pay.kind = log'[Len(log) + 1].pay.kind
             /\ rows'[NextId].pay.ref # None =>
                  /\ log'[Len(log) + 1].refUid # 0
                  /\ rows'[NextId].pay.ref = log'[log'[Len(log) + 1].refUid].id
                  /\ rows'[NextId].pay.kind \in {"move", "create"}
  <2>1. /\ rows'[NextId].pay = PayloadOf(req, msgs, IF refUid = 0 THEN None ELSE log[refUid].id)
        /\ log'[Len(log) + 1].refUid = refUid /\ log'[Len(log) + 1].pay = rows'[NextId].pay
        /\ refUid # 0 => log'[refUid] = log[refUid]
        /\ rows'[NextId].uid = Len(log) + 1 /\ DOMAIN log' = DOMAIN log \cup {Len(log) + 1}
    BY <1>3 DEF Enqueued
  <2>2. /\ rows'[NextId].pay.kind = req.kind
        /\ rows'[NextId].pay.ref = IF refUid = 0 THEN None ELSE log[refUid].id
    BY <2>1 DEF PayloadOf
  <2> QED BY <1>3, <2>1, <2>2
<1>4. \A u \in DOMAIN log' : log'[u].refUid # 0 => log'[log'[u].refUid].pay.kind = "create"
  <2>1. \A u \in DOMAIN log : log'[u].refUid # 0 => log'[log'[u].refUid].pay.kind = "create"
    BY <1>1, <1>2 DEF References, EntriesKept
  <2>2. CASE Shrinks
    BY <2>1, <2>2 DEF Shrinks
  <2>3. CASE ~Shrinks
    <3>1. NextId \notin DOMAIN rows
      BY NextIdFresh DEF TypeOK
    <3>2. Asked(NextId)
      BY <2>3, <3>1, NextTable DEF Asked
    <3> QED BY <1>3, <2>1, <3>2, AskedRefers
  <2> QED BY <2>2, <2>3
<1>5. ASSUME NEW p \in Caller, bulk'[p].refUid # 0
      PROVE  log'[bulk'[p].refUid].pay.kind = "create" /\ bulk'[p].req.kind = "move"
  <2>1. CASE bulk'[p].refUid = bulk[p].refUid /\ bulk'[p].req = bulk[p].req
    <3>1. bulk[p].refUid \in DOMAIN log
      BY <1>2, <1>5, <2>1, CallTyped
    <3> QED BY <1>1, <1>5, <2>1, <3>1 DEF References, EntriesKept
  <2>2. bulk'[p] # NoBulk
    BY <1>5 DEF NoBulk
  <2> QED BY <1>5, <2>1, <2>2, NextBulk DEF table
<1>6. ASSUME NEW i \in DOMAIN rows' PROVE Refers(log', rows'[i].uid, rows'[i].pay)
  <2>1. CASE SamePay(i)
    BY <1>1, <1>2, <2>1, RefersKept DEF SamePay, References
  <2>2. CASE Persisted(i)
    <3>1. /\ rows'[i].pay.kind = claim[i].pay.kind /\ rows'[i].pay.ref = claim[i].pay.ref
          /\ rows'[i].uid = claim[i].uid /\ i \in DOMAIN claim
      BY <1>2, <2>2 DEF Persisted, Payload
    <3>2. Refers(log, claim[i].uid, claim[i].pay)
      BY <3>1 DEF References
    <3> QED BY <1>1, <1>2, <3>1, <3>2, RefersKept
  <2>3. CASE Rewritten(i)
    <3>1. /\ rows'[i].pay.kind = rows[i].pay.kind /\ rows'[i].pay.ref \in {None, rows[i].pay.ref}
          /\ rows'[i].uid = rows[i].uid /\ i \in DOMAIN rows
      BY <1>2, <2>3, RewriteKeeps DEF Rewritten
    <3>2. Refers(log, rows[i].uid, rows[i].pay)
      BY <3>1 DEF References
    <3> QED BY <1>1, <1>2, <3>1, <3>2, RefersKept
  <2>4. CASE Asked(i)
    BY <1>3, <2>4, AskedRefers DEF Refers
  <2> QED BY <2>1, <2>2, <2>3, <2>4, NextPays
<1>7. ASSUME NEW i \in DOMAIN claim' PROVE Refers(log', claim'[i].uid, claim'[i].pay)
  <2>1. CASE claim' = claim
    <3>1. Refers(log, claim[i].uid, claim[i].pay) /\ claim[i].uid \in DOMAIN log
      BY <1>2, <2>1 DEF References
    <3> QED BY <1>1, <2>1, <3>1, RefersKept
  <2>2. CASE Claim
    <3>1. /\ i \in DOMAIN rows /\ claim'[i].uid = rows[i].uid /\ claim'[i].pay = rows[i].pay
      BY <2>2, ClaimReads DEF ResolveClaim
    <3>2. Refers(log, rows[i].uid, rows[i].pay)
      BY <3>1 DEF References
    <3> QED BY <1>1, <1>2, <3>1, <3>2, RefersKept
  <2> QED BY <2>1, <2>2, NextClaims, EmptyTyped
<1> QED BY <1>4, <1>5, <1>6, <1>7 DEF References

\* A row that waits has been waiting: a claim's own write leaves the server id
\* in the row, and a walk only ever clears references.
LEMMA WaiterKept ==
  ASSUME TypeOK, Disciplined, Underway, [Next]_vars,
         NEW c, c # None, NEW i \in DOMAIN rows, Waiting(rows', log', i, c)
  PROVE  Waiting(rows, log, i, c)
<1>1. i \in DOMAIN rows' /\ ~Asked(i)
  BY DEF Waiting, Asked
<1>2. rows[i].uid \in DOMAIN log /\ rows[i].pay \in Payload
      /\ \A j \in DOMAIN claim : claim[j].pay \in Payload
  BY DEF TypeOK, TableOK, PassOK, Functional, Row, Claimed
<1>3. rows'[i].uid = rows[i].uid
  BY <1>1, NextPays DEF SamePay, Persisted, Rewritten
<1>4. ~log[rows[i].uid].late
  BY <1>2, <1>3, NextKeepsEntries DEF Waiting, EntriesKept
<1>5. CASE SamePay(i)
  BY <1>4, <1>5 DEF Waiting, SamePay
<1>6. ~Persisted(i)
  <2> SUFFICES ASSUME Persisted(i) PROVE FALSE
    OBVIOUS
  <2>1. newSid # None
    BY DEF Persisted, Underway
  <2>2. rows'[i].pay.resolvedSid = newSid
    BY <1>2 DEF Persisted, Payload
  <2> QED BY <2>1, <2>2 DEF Waiting
<1>7. CASE Rewritten(i)
  <2>1. /\ rows'[i].pay.ref \in {None, rows[i].pay.ref}
        /\ rows'[i].pay.resolvedSid = rows[i].pay.resolvedSid
    BY <1>2, <1>7, RewriteKeeps DEF Rewritten
  <2> QED BY <1>4, <2>1 DEF Waiting
<1> QED BY <1>1, <1>5, <1>6, <1>7, NextPays

\* No row starts to wait for a row the pass has claimed: it is no longer queued.
LEMMA NoNewWaiter ==
  ASSUME TypeOK, Disciplined, Underway, [Next]_vars,
         NEW c \in DOMAIN claim, NEW i, Waiting(rows', log', i, c)
  PROVE  Waiting(rows, log, i, c)
<1>1. c # None
  BY DEF TypeOK, PassOK, None
<1>2. i \in DOMAIN rows
  <2> SUFFICES ASSUME i \notin DOMAIN rows PROVE FALSE
    OBVIOUS
  <2>1. Asked(i) /\ i = NextId
    BY NextPays DEF Waiting, SamePay, Persisted, Rewritten, Asked
  <2>2. PICK req, msgs, refUid : Enqueued(req, msgs, refUid)
    BY <2>1 DEF Asked
  <2>3. /\ rows'[i].uid = Len(log) + 1 /\ ~log'[Len(log) + 1].late
        /\ rows'[i].pay = PayloadOf(req, msgs, IF refUid = 0 THEN None ELSE log[refUid].id)
    BY <2>1, <2>2 DEF Enqueued, Waiting
  <2>4. refUid # 0 /\ log[refUid].id = c
    BY <1>1, <2>3 DEF Waiting, PayloadOf
  <2>5. IsQueued(c)
    BY <2>2, <2>3, <2>4 DEF Enqueued
  <2>6. up
    BY EmptyTyped DEF Disciplined, PassShape
  <2>7. c \in Dispatching
    BY <2>6 DEF Disciplined, ClaimDiscipline
  <2> QED BY <2>5, <2>7 DEF IsQueued, Dispatching
<1> QED BY <1>1, <1>2, WaiterKept

\* Steps that leave the pass alone.
LEMMA PassResolving ==
  ASSUME TypeOK, Disciplined, Resolving, [Next]_vars,
         UNCHANGED <<phase, claim, decided, out, newSid, after>>
  PROVE  Resolving'
<1>1. Undecided' = Undecided /\ Undecided \subseteq DOMAIN claim
  BY DEF Undecided
<1>2. Underway'
  BY <1>1 DEF Resolving, Underway, Least, IsCreate
<1>4. phase \notin {"idle", "claim"} => DOMAIN decided \subseteq DOMAIN claim
  BY DEF Disciplined, PassShape
<1>3. \A c \in DOMAIN claim : \A i : Waiting(rows', log', i, c) => Waiting(rows, log, i, c)
  BY NoNewWaiter DEF Resolving
<1>5. Walked'
  BY <1>1, <1>3, <1>4 DEF Resolving, Walked, Least, IsCreate
<1> QED BY <1>2, <1>5 DEF Resolving

\* The pass settles on d: no row waits for a create d delivers.
LEMMA DecideResolving ==
  ASSUME Resolving, UNCHANGED <<rows, log, claim>>, phase \notin {"idle", "claim"},
         NEW d, Decide(d),
         \A c \in DOMAIN d : d[c].why = "delivered" /\ IsCreate(c) =>
                               \A i : ~Waiting(rows, log, i, c)
  PROVE  Resolving'
<1>1. /\ phase' = "dispatch" /\ DOMAIN decided' = DOMAIN decided \cup DOMAIN d
      /\ \A i \in DOMAIN decided' : decided'[i] = IF i \in DOMAIN d THEN d[i] ELSE decided[i]
  BY DEF Decide, Over
<1>2. Underway'
  BY <1>1 DEF Underway
<1>3. Walked'
  BY <1>1 DEF Resolving, Walked, IsCreate
<1> QED BY <1>2, <1>3 DEF Resolving

LEMMA DecideAllResolving ==
  ASSUME Resolving, UNCHANGED <<rows, log, claim>>, phase \notin {"idle", "claim"},
         NEW S, NEW x, DecideAll(S, x),
         x.why # "delivered" \/ \A c \in S : ~IsCreate(c)
  PROVE  Resolving'
<1>1. \A c \in DOMAIN [j \in S |-> x] : [j \in S |-> x][c].why = "delivered" => ~IsCreate(c)
  OBVIOUS
<1> HIDE DEF Resolving
<1> QED BY <1>1, DecideResolving DEF DecideAll

\* The pass goes on to another stage of the create c under way.
LEMMA StageResolving ==
  ASSUME TypeOK, Resolving, UNCHANGED <<rows, log, claim, decided>>,
         phase \notin {"idle", "claim"}, phase' \in {"adopt", "refile", "persist", "resolve"},
         NEW c \in Least(Undecided), IsCreate(c),
         phase' # "adopt" => newSid' # None,
         phase' \in {"persist", "resolve"} => \A i \in DOMAIN out' : ~IsCreate(i),
         phase' = "resolve" => after' = 0
  PROVE  Resolving'
<1>1. Undecided' = Undecided /\ \A d \in Least(Undecided) : d = c
  BY OneLeast DEF Undecided
<1>2. Underway'
  BY <1>1 DEF Underway, Least, IsCreate
<1>3. \A i : i <= 0 => ~ \E e : Waiting(rows, log, i, e)
  <2>1. DOMAIN rows \subseteq Nat \ {0}
    BY LenProperties DEF TypeOK, TableOK
  <2> QED BY <2>1 DEF Waiting
<1>4. Walked'
  BY <1>1, <1>3 DEF Resolving, Walked, IsCreate
<1> QED BY <1>2, <1>4 DEF Resolving

\* A page of the walk: every row it passes, and none left when it is empty.
LEMMA PagePasses ==
  ASSUME TypeOK, Page # {}, NEW i \in DOMAIN rows, i > after, i <= Max(Page)
  PROVE  i \in Page
<1> DEFINE upto(k) == {j \in DOMAIN rows : after < j /\ j <= k}
<1>1. Len(log) \in Nat /\ DOMAIN rows \subseteq 1..Len(log) /\ after \in Nat
  BY LenProperties DEF TypeOK, TableOK, PassOK
<1>2. Page \in SUBSET Nat /\ \A j \in Page : j <= Len(log)
  BY <1>1 DEF Page
<1>3. Max(Page) \in Page
  BY <1>1, <1>2, GreatestNatural
<1>4. Cardinality(upto(Max(Page))) <= RefPage /\ Max(Page) \in Nat
  BY <1>2, <1>3 DEF Page
<1>5. IsFiniteSet(upto(Max(Page)))
  <2>1. IsFiniteSet(1..Len(log))
    BY <1>1, FS_Interval
  <2> QED BY <1>1, <2>1, FS_Subset
<1>6. upto(i) \subseteq upto(Max(Page))
  BY <1>1, <1>4
<1>7. /\ Cardinality(upto(i)) <= Cardinality(upto(Max(Page)))
      /\ Cardinality(upto(i)) \in Nat /\ Cardinality(upto(Max(Page))) \in Nat
  BY <1>5, <1>6, FS_Subset, FS_CardinalityType
<1>8. RefPage \in Nat
  BY SizesAssumption
<1> HIDE DEF upto
<1>9. Cardinality(upto(i)) <= RefPage
  BY <1>4, <1>7, <1>8
<1> QED BY <1>9 DEF Page, upto

LEMMA WalkEnds ==
  ASSUME TypeOK, Page = {}, NEW i \in DOMAIN rows
  PROVE  i <= after
<1> DEFINE left == {j \in DOMAIN rows : j > after}
<1>1. Len(log) \in Nat /\ DOMAIN rows \subseteq 1..Len(log) /\ after \in Nat
  BY LenProperties DEF TypeOK, TableOK, PassOK
<1> SUFFICES ASSUME left # {} PROVE FALSE
  BY <1>1
<1>2. left \in SUBSET Nat
  BY <1>1
<1>3. PICK m \in left : \A j \in left : m <= j
  <2> HIDE DEF left
  <2> QED BY <1>2, LeastNatural
<1>4. {j \in DOMAIN rows : after < j /\ j <= m} = {m}
  BY <1>1, <1>3
<1>5. Cardinality({m}) = 1 /\ RefPage \in Nat \ {0}
  BY FS_Singleton, SizesAssumption
<1>6. m \in Page
  <2>1. Cardinality({j \in DOMAIN rows : after < j /\ j <= m}) <= RefPage
    BY <1>4, <1>5
  <2> QED BY <1>3, <2>1 DEF Page
<1> QED BY <1>6

\* The attempts of a pass.
LEMMA AttemptResolving ==
  ASSUME TypeOK, Disciplined, Resolving,
         \/ Abandon \/ FailUnsent \/ CallFails \/ MoveCall \/ CreateCall \/ CreateRefused
         \/ Adopt \/ Refile \/ RenameCall \/ DeleteCall \/ Replay \/ ResolveEnd \/ RecordFails
  PROVE  Resolving'
<1>1. UNCHANGED <<rows, log, claim>>
  BY DEF Abandon, FailUnsent, CallFails, MoveCall, CreateCall, CreateRefused,
     Adopt, Refile, RenameCall, DeleteCall, Replay, ResolveEnd, RecordFails, table
<1>2. phase \notin {"idle", "claim"}
  BY DEF Abandon, FailUnsent, CallFails, MoveCall, CreateCall, CreateRefused,
     Adopt, Refile, RenameCall, DeleteCall, Replay, ResolveEnd, RecordFails, Turn, Calling
<1>3. CASE Abandon \/ FailUnsent \/ CallFails \/ RecordFails
  <2>1. \E S, x : DecideAll(S, x) /\ x.why # "delivered"
    BY <1>3, NotDeliveries DEF Abandon, FailUnsent, CallFails, RecordFails
  <2> QED BY <1>1, <1>2, <2>1, DecideAllResolving
<1>4. CASE MoveCall
  <2>1. PICK c \in Undecided : 
          /\ ~IsCreate(c)
          /\ \/ \E refused : \E d \in Results({c}, Target(c), refused, boxes) : Decide(d)
             \/ DecideAll({c}, Failed("connection"))
    BY <1>4 DEF MoveCall, IsCreate
  <2>2. CASE DecideAll({c}, Failed("connection"))
    BY <1>1, <1>2, <2>2, NotDeliveries, DecideAllResolving
  <2>3. CASE \E refused : \E d \in Results({c}, Target(c), refused, boxes) : Decide(d)
    <3>1. PICK d : Decide(d) /\ DOMAIN d = {c}
      BY <2>3, ResultsTyped
    <3> QED BY <1>1, <1>2, <2>1, <3>1, DecideResolving
  <2> QED BY <2>1, <2>2, <2>3
<1>5. \A c : \A i \in Group(c) : ~IsCreate(i)
  BY DEF Group, IsCreate
<1>6. CASE CreateCall \/ Refile
  <2>1. PICK c \in Undecided :
          \/ DecideAll(Members(c), Failed("connection"))
          \/ /\ c \in Least(Undecided) /\ phase' = "persist" /\ UNCHANGED decided
             /\ \E sid, refused, mailboxes : out' \in Results(Group(c), sid, refused, mailboxes)
             /\ IsCreate(c) /\ newSid' # None
    <3>1. CASE CreateCall
      <4>1. PICK c \in Undecided :
              /\ c \in Least(Undecided) /\ IsCreate(c)
              /\ \/ DecideAll(Members(c), Failed("connection"))
                 \/ \E refused :
                      /\ out' \in Results(Group(c), nextSid, refused, Made(c))
                      /\ newSid' = nextSid
                      /\ phase' = "persist" /\ UNCHANGED decided
        BY <3>1, Zenon DEF CreateCall, Calling, Turn
      <4>2. nextSid # None
        BY DEF TypeOK, ServerOK, None
      <4> QED BY <4>1, <4>2
    <3>2. CASE Refile
      <4>1. PICK c \in Undecided :
              /\ c \in Least(Undecided) /\ phase = "refile"
              /\ \/ DecideAll(Members(c), Failed("connection"))
                 \/ \E refused :
                      /\ out' \in Results(Group(c), newSid, refused, boxes)
                      /\ phase' = "persist" /\ UNCHANGED decided
        BY <3>2, Zenon DEF Refile, Turn
      <4>2. IsCreate(c) /\ newSid # None /\ UNCHANGED newSid
        BY <3>2, <4>1 DEF Resolving, Underway, Refile
      <4> QED BY <4>1, <4>2
    <3> QED BY <1>6, <3>1, <3>2
  <2>2. CASE DecideAll(Members(c), Failed("connection"))
    BY <1>1, <1>2, <2>2, NotDeliveries, DecideAllResolving
  <2>3. CASE /\ c \in Least(Undecided) /\ phase' = "persist" /\ UNCHANGED decided
             /\ \E sid, refused, mailboxes : out' \in Results(Group(c), sid, refused, mailboxes)
             /\ IsCreate(c) /\ newSid' # None
    <3>1. DOMAIN out' = Group(c)
      BY <2>3, ResultsTyped
    <3> QED BY <1>1, <1>2, <1>5, <2>3, <3>1, StageResolving
  <2> QED BY <2>1, <2>2, <2>3
<1>7. CASE CreateRefused
  <2>1. PICK c \in Undecided :
          \/ \E S : DecideAll(S, Failed("server"))
          \/ /\ phase' = "adopt" /\ UNCHANGED decided
             /\ c \in Least(Undecided) /\ IsCreate(c)
    BY <1>7 DEF CreateRefused, Calling, Turn
  <2> QED BY <1>1, <1>2, <2>1, NotDeliveries, DecideAllResolving, StageResolving
<1>8. CASE Adopt
  <2>1. PICK c \in Undecided :
          \/ DecideAll(Members(c), Refused("server"))
          \/ /\ c \in Least(Undecided) /\ phase = "adopt" /\ UNCHANGED decided
             /\ phase' \in {"persist", "refile"}
             /\ newSid' \in FindMailboxes(claim[c].pay.name, Target(c))
    BY <1>8 DEF Adopt, Turn
  <2>2. CASE /\ c \in Least(Undecided) /\ phase = "adopt" /\ UNCHANGED decided
             /\ phase' \in {"persist", "refile"}
             /\ newSid' \in FindMailboxes(claim[c].pay.name, Target(c))
    <3>1. DOMAIN out' = {}
      BY <1>8, EmptyTyped DEF Adopt
    <3>2. newSid' \in DOMAIN boxes
      BY <2>2 DEF FindMailboxes
    <3>3. newSid' # None
      BY <3>2 DEF TypeOK, ServerOK, None
    <3>4. IsCreate(c)
      BY <2>2 DEF Resolving, Underway
    <3> QED BY <1>1, <1>2, <2>2, <3>1, <3>3, <3>4, StageResolving
  <2> QED BY <1>1, <1>2, <2>1, <2>2, NotDeliveries, DecideAllResolving
<1>9. CASE RenameCall \/ DeleteCall
  <2>1. PICK c \in Undecided : ~IsCreate(c) /\ \E x : DecideAll({c}, x)
    BY <1>9 DEF RenameCall, DeleteCall, IsCreate
  <2> QED BY <1>1, <1>2, <2>1, DecideAllResolving
<1>10. CASE Replay
  <2>1. PICK c \in Undecided :
          /\ c \in Least(Undecided) /\ IsCreate(c)
          /\ claim[c].pay.resolvedSid # None /\ newSid' = claim[c].pay.resolvedSid
    BY <1>10 DEF Replay, Turn
  <2>2. DOMAIN out' = {} /\ phase' = "resolve" /\ after' = 0 /\ UNCHANGED decided
    BY <1>10, EmptyTyped DEF Replay
  <2> QED BY <1>1, <1>2, <2>1, <2>2, StageResolving
<1>11. CASE ResolveEnd
  <2>1. PICK c \in Undecided :
          /\ c \in Least(Undecided) /\ phase = "resolve" /\ Page = {}
          /\ Decide(Put(out, c, Delivered))
    BY <1>11 DEF ResolveEnd, Turn
  <2>2. \A i \in DOMAIN out : ~IsCreate(i)
    BY <2>1 DEF Resolving, Underway
  <2>3. \A i : ~Waiting(rows, log, i, c)
    <3>1. \A i : i <= after => ~Waiting(rows, log, i, c)
      BY <2>1 DEF Resolving, Walked
    <3> QED BY <2>1, <3>1, WalkEnds DEF Waiting
  <2>4. DOMAIN Put(out, c, Delivered) = DOMAIN out \cup {c}
    BY PutDomain
  <2>5. \A i \in DOMAIN Put(out, c, Delivered) :
           IsCreate(i) => \A j : ~Waiting(rows, log, j, i)
    BY <2>2, <2>3, <2>4
  <2> QED BY <1>1, <1>2, <2>1, <2>5, DecideResolving
<1> QED BY <1>3, <1>4, <1>6, <1>7, <1>8, <1>9, <1>10, <1>11

\* A page of the walk leaves no row waiting at or below its cursor.
LEMMA PageResolving ==
  ASSUME TypeOK, Disciplined, References, RowsNamed, ParentsHeld, Resolving, ResolvePage
  PROVE  Resolving'
<1>1. UNCHANGED <<phase, log, claim, decided, out, newSid>> /\ [Next]_vars
  BY DEF ResolvePage, Next, Dispatch
<1>2. PICK c \in Least(Undecided) :
        /\ Turn(c, "resolve") /\ Page # {} /\ after' = Max(Page)
        /\ DOMAIN rows' = DOMAIN rows
        /\ \A i \in DOMAIN rows :
             /\ rows'[i].uid = rows[i].uid
             /\ rows'[i].pay = IF i \in Page \ {c} THEN RewriteRef(rows[i].pay, c)
                                                   ELSE rows[i].pay
  BY PageWrites
<1>3. Undecided' = Undecided /\ \A d \in Least(Undecided) : d = c
  BY <1>1, <1>2, OneLeast DEF Undecided
<1>4. Underway'
  BY <1>1, <1>3 DEF Resolving, Underway, Least, IsCreate
<1>5. c \in DOMAIN claim /\ c # None /\ phase = "resolve"
  BY <1>2 DEF Least, Undecided, Turn, TypeOK, PassOK, None
<1>6. \A d \in DOMAIN claim : \A i : Waiting(rows', log', i, d) => Waiting(rows, log, i, d)
  BY <1>1, NoNewWaiter DEF Resolving
<1>7. ASSUME NEW i, i <= after', Waiting(rows', log', i, c) PROVE FALSE
  <2>1. Waiting(rows, log, i, c) /\ i \in DOMAIN rows
    BY <1>2, <1>5, <1>6, <1>7 DEF Waiting
  <2>2. ~(i <= after)
    BY <1>2, <1>5, <2>1 DEF Resolving, Walked
  <2>3. i \in Nat /\ after \in Nat
    BY <2>1, LenProperties DEF TypeOK, TableOK, PassOK
  <2>4. i \in Page
    BY <1>2, <1>7, <2>1, <2>2, <2>3, PagePasses
  <2>5. i # c
    <3> DEFINE entry == log[rows[i].uid]
    <3>1. Refers(log, rows[i].uid, rows[i].pay) /\ rows[i].pay.ref = c /\ ~entry.late
      BY <2>1 DEF References, Waiting
    <3>2. entry.refUid # 0 /\ log[entry.refUid].id = c
      BY <1>5, <3>1 DEF Refers
    <3>3. c < i
      BY <2>1, <3>1, <3>2 DEF ParentsHeld
    <3> QED BY <2>3, <3>3
  <2>6. rows'[i].pay = RewriteRef(rows[i].pay, c) /\ rows[i].pay \in Payload
    BY <1>2, <2>1, <2>4, <2>5 DEF TypeOK, TableOK, Functional, Row
  <2>7. rows[i].pay.ref = c /\ rows[i].pay.kind \in {"move", "create"}
    BY <1>5, <2>1 DEF References, Refers, Waiting
  <2>8. rows'[i].pay.ref = None
    BY <2>6, <2>7, RewriteKeeps
  <2> QED BY <1>5, <1>7, <2>8 DEF Waiting
<1>8. DOMAIN decided \subseteq DOMAIN claim
  BY <1>5 DEF Disciplined, PassShape
<1>9. Walked'
  BY <1>1, <1>3, <1>5, <1>6, <1>7, <1>8 DEF Resolving, Walked, Least, IsCreate
<1> QED BY <1>4, <1>9 DEF Resolving

LEMMA PersistResolving ==
  ASSUME TypeOK, Disciplined, Resolving, Persist
  PROVE  Resolving'
<1>1. UNCHANGED <<log, claim, decided, out, newSid>> /\ [Next]_vars
      /\ phase = "persist" /\ phase' = "resolve" /\ after' = 0
  BY DEF Persist, Turn, Next, Dispatch
<1>2. Undecided' = Undecided
  BY <1>1 DEF Undecided
<1>3. Underway'
  BY <1>1, <1>2 DEF Resolving, Underway, Least, IsCreate
<1>4. \A d \in DOMAIN claim : \A i : Waiting(rows', log', i, d) => Waiting(rows, log, i, d)
  BY <1>1, NoNewWaiter DEF Resolving
<1>5. \A i : i <= 0 => i \notin DOMAIN rows'
  <2>1. DOMAIN rows' = DOMAIN rows
    BY PersistWrites
  <2>2. DOMAIN rows \subseteq Nat \ {0}
    BY LenProperties DEF TypeOK, TableOK
  <2> QED BY <2>1, <2>2
<1>6. DOMAIN decided \subseteq DOMAIN claim
  BY <1>1 DEF Disciplined, PassShape
<1>7. Walked'
  <2>1. \A c \in Least(Undecided)' : \A i : i <= after' => ~Waiting(rows', log', i, c)
    BY <1>1, <1>5 DEF Waiting
  <2>2. ASSUME NEW c \in DOMAIN decided', decided'[c].why = "delivered", IsCreate(c)'
        PROVE  \A i : ~Waiting(rows', log', i, c)
    BY <1>1, <1>4, <1>6, <2>2 DEF Resolving, Walked, IsCreate
  <2> QED BY <2>1, <2>2 DEF Walked
<1> QED BY <1>3, <1>7 DEF Resolving

LEMMA NextResolving ==
  ASSUME TypeOK, Disciplined, References, RowsNamed, ParentsHeld, Resolving, [Next]_vars
  PROVE  Resolving'
<1>1. CASE \/ Abandon \/ FailUnsent \/ CallFails \/ MoveCall \/ CreateCall \/ CreateRefused
           \/ Adopt \/ Refile \/ RenameCall \/ DeleteCall \/ Replay \/ ResolveEnd \/ RecordFails
  BY <1>1, AttemptResolving
<1>2. CASE Persist \/ ResolvePage
  BY <1>2, PersistResolving, PageResolving
<1>3. CASE \/ Callers \/ Tick \/ Restart \/ SyncPull \/ OtherClient \/ UNCHANGED vars
  <2>1. UNCHANGED <<phase, claim, decided, out, newSid, after>>
    BY <1>3 DEF Callers, EnqueueSingle, BulkStart, BulkChunk, BulkFails, Compensate, Undo,
       Tick, Restart, SyncPull, OtherClient, vars, pass
  <2> QED BY <2>1, PassResolving
<1>4. CASE Probe \/ ClaimFails \/ Finalize \/ Recover \/ RecoverFails \/ Crash
  <2>1. phase' \in {"idle", "claim"}
    BY <1>4 DEF Probe, ClaimFails, Finalize, Recover, RecoverFails, Crash
  <2> QED BY <2>1 DEF Resolving, Underway, Walked
<1>5. CASE Claim
  <2>1. phase' \in {"idle", "dispatch"} /\ DOMAIN decided' = {}
    BY <1>5, EmptyTyped DEF Claim
  <2> QED BY <2>1 DEF Resolving, Underway, Walked
<1>6. CASE FinalizeFails
  <2>1. phase = "dispatch" /\ phase' = "recover" /\ UNCHANGED <<rows, log, claim, decided>>
    BY <1>6 DEF FinalizeFails, Deciding, table
  <2> QED BY <2>1 DEF Resolving, Underway, Walked, IsCreate
<1> QED BY <1>1, <1>2, <1>3, <1>4, <1>5, <1>6 DEF Next, Dispatch

\* The only step that delivers an intent, or gives it up, is the finalize of its row.
LEMMA NextDelivers ==
  ASSUME TypeOK, [Next]_vars, ~Finalize,
         NEW u \in DOMAIN log', log'[u].fate \in {"delivered", "failed"}
  PROVE  u \in DOMAIN log /\ log'[u].fate = log[u].fate
<1>1. CASE Callers
  <2>1. \A req, msgs, refUid : Enqueued(req, msgs, refUid) => u \in DOMAIN log /\ log'[u] = log[u]
    BY DEF Enqueued
  <2>2. \A ids, meant : Annihilate(ids, meant) => u \in DOMAIN log /\ log'[u] = log[u]
    BY AnnihilateFates
  <2> QED BY <1>1, <2>1, <2>2, CallerSteps DEF table
<1>2. CASE ~Callers
  <2>1. UNCHANGED log
    BY <1>2 DEF Next, Dispatch, Probe, Claim, ClaimFails, Abandon, FailUnsent, CallFails,
       MoveCall, CreateCall, CreateRefused, Adopt, Refile, RenameCall, DeleteCall,
       Replay, Persist, ResolvePage, ResolveEnd, RecordFails, FinalizeFails, Recover,
       RecoverFails, Tick, Crash, Restart, SyncPull, OtherClient, vars, table
  <2> QED BY <2>1
<1> QED BY <1>1, <1>2

LEMMA FinalizeResolves ==
  ASSUME TypeOK, Disciplined, References, RowsNamed, Resolving, RefsResolved, Finalize
  PROVE  RefsResolved'
<1>1. /\ phase = "dispatch" /\ up /\ DOMAIN rows' \subseteq DOMAIN rows
      /\ DOMAIN decided = DOMAIN claim
      /\ \A i \in DOMAIN rows' : rows'[i].uid = rows[i].uid /\ rows'[i].pay = rows[i].pay
  BY PutBackWrites DEF Finalize, Deciding
<1>2. EntriesKept
  BY NextKeepsEntries DEF Next, Dispatch
<1>3. \A i \in DOMAIN rows : rows[i].uid \in DOMAIN log
  BY DEF TypeOK, TableOK
<1> SUFFICES ASSUME NEW i \in DOMAIN rows', rows'[i].pay.ref # None,
                    rows'[i].pay.resolvedSid = None, ~log'[rows'[i].uid].late,
                    log'[log'[rows'[i].uid].refUid].fate = "delivered"
             PROVE  FALSE
  BY DEF RefsResolved
<1> DEFINE u == log[rows[i].uid].refUid
           c == rows[i].pay.ref
<1>4. i \in DOMAIN rows /\ log'[rows'[i].uid].refUid = u
      /\ Waiting(rows, log, i, c) /\ c # None
  BY <1>1, <1>2, <1>3 DEF EntriesKept, Waiting
<1>5. u # 0 /\ c = log[u].id
  BY <1>4 DEF References, Refers
<1>6. u \in DOMAIN log /\ log[u].pay.kind = "create"
  <2>1. Len(log) \in Nat /\ DOMAIN log = 1..Len(log)
    BY LenProperties DEF TypeOK, TableOK
  <2>2. u \in DOMAIN log
    BY <1>3, <1>4, <1>5, <2>1 DEF TypeOK, TableOK
  <2> QED BY <1>3, <1>4, <1>5, <2>2 DEF References
<1>7. log[u].fate # "delivered"
  BY <1>4 DEF RefsResolved, Waiting
<1>8. PICK k \in Leaving \cap DOMAIN rows : rows[k].uid = u /\ decided[k].why = "delivered"
  BY <1>4, <1>6, <1>7, FinalizeFates
<1>9. k = c
  BY <1>5, <1>8 DEF RowsNamed
<1>10. k \in DOMAIN decided /\ IsCreate(k)
  <2>1. k \in DOMAIN claim /\ claim[k].uid = u /\ k \in DOMAIN decided
    BY <1>1, <1>8 DEF Leaving, Disciplined, ClaimDiscipline
  <2> QED BY <1>6, <2>1 DEF References, Refers, IsCreate
<1> QED BY <1>1, <1>4, <1>8, <1>9, <1>10 DEF Resolving, Walked

LEMMA NextResolved ==
  ASSUME TypeOK, Disciplined, NothingLost, References, RowsNamed, ParentsHeld, Resolving,
         RefsResolved, [Next]_vars
  PROVE  RefsResolved'
<1>1. CASE Finalize
  BY <1>1, FinalizeResolves
<1>2. CASE ~Finalize
  <2> SUFFICES ASSUME NEW i \in DOMAIN rows', rows'[i].pay.ref # None,
                      rows'[i].pay.resolvedSid = None, ~log'[rows'[i].uid].late,
                      log'[log'[rows'[i].uid].refUid].fate = "delivered"
               PROVE  FALSE
    BY DEF RefsResolved
  <2> DEFINE c == rows'[i].pay.ref
  <2>1. EntriesKept /\ \A j \in DOMAIN rows : rows[j].uid \in DOMAIN log
    BY NextKeepsEntries DEF TypeOK, TableOK
  <2>2. DOMAIN log = 1..Len(log) /\ Len(log) \in Nat /\ log \in Seq(Entry)
        /\ DOMAIN log' = 1..Len(log') /\ Len(log') \in Nat
        /\ \A u \in DOMAIN log' : log'[u].refUid \in 0..Len(log')
    <3>1. TypeOK'
      BY NextTyped
    <3> QED BY <3>1, LenProperties DEF TypeOK, TableOK
  <2>3. References'
    BY NextRefers
  <2>4. rows'[i].uid \in DOMAIN log'
    BY NextTyped DEF TypeOK, TableOK
  <2> DEFINE u == log'[rows'[i].uid].refUid
  <2>5. u # 0 /\ u \in DOMAIN log' /\ c = log'[u].id
    BY <2>2, <2>3, <2>4 DEF References, Refers
  <2>6. u \in DOMAIN log /\ log[u].fate = "delivered"
    BY <1>2, <2>5, NextDelivers
  <2>7. CASE i \in DOMAIN rows
    <3>1. Waiting(rows', log', i, c)
      BY DEF Waiting
    <3>2. Waiting(rows, log, i, c)
      BY <2>7, <3>1, WaiterKept DEF Resolving
    <3>3. rows'[i].uid = rows[i].uid
      BY <2>7, NextTracesRows DEF RowsTraced
    <3>4. u = log[rows[i].uid].refUid
      BY <2>1, <2>7, <3>3 DEF EntriesKept
    <3> QED BY <2>6, <2>7, <3>2, <3>4 DEF RefsResolved, Waiting
  <2>8. CASE i \notin DOMAIN rows
    <3>1. Asked(i)
      BY <2>8, NextPays DEF SamePay, Persisted, Rewritten
    <3>2. PICK req, msgs, refUid : Enqueued(req, msgs, refUid) /\ i = NextId
      BY <3>1 DEF Asked
    <3>3. rows'[i].uid = Len(log) + 1 /\ u = refUid
      BY <3>2 DEF Enqueued
    <3>4. rows[log[u].id].uid = u /\ log[u].id \in DOMAIN rows
      BY <2>5, <3>2, <3>3 DEF Enqueued, IsQueued
    <3> QED BY <2>6, <3>4 DEF NothingLost
  <2> QED BY <2>7, <2>8
<1> QED BY <1>1, <1>2

\* RefsResolved and what it rests on.
Resolved == References /\ ParentsHeld /\ Resolving /\ RefsResolved

LEMMA ResolvedAlways == Spec => []Resolved
<1>1. Init => Resolved
  <2> SUFFICES ASSUME Init PROVE Resolved
    OBVIOUS
  <2>1. /\ DOMAIN rows = {} /\ DOMAIN claim = {} /\ DOMAIN log = {} /\ phase = "idle"
        /\ \A p \in Caller : bulk[p].refUid = 0
    <3>1. log = <<>> /\ rows = Empty /\ claim = Empty
      BY DEF Init
    <3> QED BY <3>1, EmptySeq, LenProperties, EmptyTyped DEF Init, NoBulk
  <2> QED BY <2>1 DEF Resolved, References, ParentsHeld, Resolving, Underway, Walked,
                      RefsResolved
<1>2. TypeOK /\ Disciplined /\ NothingLost /\ RowsNamed /\ Resolved /\ [Next]_vars => Resolved'
  BY NextRefers, NextHoldsParents, NextResolving, NextResolved DEF Resolved
<1> QED BY <1>1, <1>2, TypeCorrect, DisciplinedAlways, NothingIsLost, RowsNamedAlways, PTL
        DEF Spec

\* Once a create is delivered, no intent that named it while it was queued and
\* still has a request to make is left holding its row id: the walk visits
\* every row, in pages, and no caller can refer to a create a pass has claimed.
THEOREM ReferencesAreResolved == Spec => []RefsResolved
<1>1. Resolved => RefsResolved
  BY DEF Resolved
<1> QED BY <1>1, ResolvedAlways, PTL

-----------------------------------------------------------------------------
(* Messages are filed as asked. *)

\* The mailbox `sid` of the server's `mailboxes`, `next` being the id it gives
\* next, is gone or has the name `name`.
Bears(mailboxes, next, sid, name) ==
  sid < next /\ (sid \in DOMAIN mailboxes => mailboxes[sid].name = name)

\* A payload of intent u names the mailbox u asked for, or one of the name
\* its create asked for, and a create's server id is a mailbox of its name.
Fits(hist, mailboxes, next, u, pay) ==
  /\ pay.name = hist[u].pay.name /\ pay.msgs = hist[u].pay.msgs
  /\ pay.resolvedSid # None => Bears(mailboxes, next, pay.resolvedSid, pay.name)
  /\ hist[u].refUid = 0 => pay.ref = None /\ pay.refSid = None /\ pay.box = hist[u].pay.box
  /\ hist[u].refUid # 0 /\ pay.kind = "move" => pay.box = None
  /\ pay.refSid # None /\ ~hist[u].late =>
       Bears(mailboxes, next, pay.refSid, hist[hist[u].refUid].pay.name)
RowsFit == \A i \in DOMAIN rows : Fits(log, boxes, nextSid, rows[i].uid, rows[i].pay)
ClaimsFit ==
  \A i \in DOMAIN claim :
    /\ Fits(log, boxes, nextSid, claim[i].uid, claim[i].pay)
    /\ claim[i].target = IF claim[i].pay.refSid # None THEN claim[i].pay.refSid
                                                       ELSE claim[i].pay.box
PassFits ==
  /\ phase \notin {"idle", "claim"} =>
       \A c \in DOMAIN resolved :
         c \in DOMAIN claim /\ Bears(boxes, nextSid, resolved[c], claim[c].pay.name)
  /\ phase \in {"refile", "persist", "resolve"} =>
       \A c \in Least(Undecided) : Bears(boxes, nextSid, newSid, claim[c].pay.name)
CallFits == \A p \in Caller : bulk[p].refUid # 0 => bulk[p].req.box = None
Unrenamed == \A u \in DOMAIN log : log[u].pay.kind # "rename"

\* Mailbox `sid` suits a message intent u moves.
Suits(hist, mailboxes, next, u, sid) ==
  ~hist[u].late => IF hist[u].refUid = 0 THEN sid = hist[u].pay.box
                   ELSE Bears(mailboxes, next, sid, hist[hist[u].refUid].pay.name)
FilesFit ==
  \A m \in Msg :
    mover[m] # 0 /\ at[m] # None => Suits(log, boxes, nextSid, mover[m], at[m])

\* While nobody renames, a mailbox keeps its name as long as it lives.
NamesKept ==
  \A sid \in Nat : \A name :
    Bears(boxes, nextSid, sid, name) => Bears(boxes', nextSid', sid, name)

LEMMA NextKeepsNames ==
  ASSUME TypeOK, References, Unrenamed, [Next]_vars
  PROVE  NamesKept
<1>1. nextSid \in Nat
  BY DEF TypeOK, ServerOK
<1>2. CASE UNCHANGED <<boxes, nextSid>>
  BY <1>2 DEF NamesKept
<1>3. \A c, box : boxes' = Put(boxes, nextSid, box) /\ nextSid' = nextSid + 1 => NamesKept
  BY <1>1 DEF Put, NamesKept, Bears
<1>4. \A s : boxes' = Restrict(boxes, DOMAIN boxes \ {s}) /\ nextSid' = nextSid => NamesKept
  BY DEF Restrict, NamesKept, Bears
<1>5. CASE CreateCall
  <2>1. \E c : boxes' = Made(c) /\ nextSid' = nextSid + 1
    BY <1>5, Zenon DEF CreateCall
  <2> QED BY <1>3, <2>1 DEF Made
<1>6. ~RenameCall
  <2> SUFFICES ASSUME RenameCall PROVE FALSE
    OBVIOUS
  <2>1. PICK c \in DOMAIN claim : claim[c].pay.kind = "rename"
    BY DEF RenameCall, Undecided
  <2>2. claim[c].uid \in DOMAIN log /\ log[claim[c].uid].pay.kind = "rename"
    BY <2>1 DEF References, Refers, TypeOK, PassOK
  <2> QED BY <2>2 DEF Unrenamed
<1>7. CASE DeleteCall
  BY <1>2, <1>4, <1>7 DEF DeleteCall
<1>8. CASE OtherClient
  BY <1>2, <1>3, <1>4, <1>8 DEF OtherClient
<1>9. CASE ~(CreateCall \/ RenameCall \/ DeleteCall \/ OtherClient)
  <2>1. UNCHANGED <<boxes, nextSid>>
    BY <1>9 DEF Next, Callers, EnqueueSingle, BulkStart, BulkChunk, BulkFails, Compensate, Undo,
       Dispatch, Probe, Claim, ClaimFails, Abandon, FailUnsent, CallFails,
       MoveCall, CreateRefused, Adopt, Refile,
       Replay, Persist, ResolvePage, ResolveEnd, RecordFails, Finalize, FinalizeFails, Recover,
       RecoverFails, Tick, Crash, Restart, SyncPull, vars, server
  <2> QED BY <1>2, <2>1
<1> QED BY <1>5, <1>6, <1>7, <1>8, <1>9

\* What fits goes on fitting.
LEMMA FitsKept ==
  ASSUME TypeOK, EntriesKept, NamesKept, NEW u \in DOMAIN log, NEW pay \in Payload,
         Fits(log, boxes, nextSid, u, pay)
  PROVE  Fits(log', boxes', nextSid', u, pay)
<1>1. log[u].refUid # 0 => log[u].refUid \in DOMAIN log
  <2>1. Len(log) \in Nat /\ DOMAIN log = 1..Len(log)
    BY LenProperties DEF TypeOK, TableOK
  <2> QED BY <2>1 DEF TypeOK, TableOK
<1>2. /\ log'[u].pay = log[u].pay /\ log'[u].refUid = log[u].refUid
      /\ log'[u].late = log[u].late
      /\ log[u].refUid # 0 => log'[log[u].refUid].pay = log[log[u].refUid].pay
  BY <1>1 DEF EntriesKept
<1>3. pay.refSid \in Nat /\ pay.resolvedSid \in Nat
  BY DEF Payload
<1>4. pay.refSid # None => log[u].refUid # 0
  BY DEF Fits
<1> QED BY <1>2, <1>3, <1>4 DEF Fits, NamesKept

LEMMA SuitsKept ==
  ASSUME TypeOK, EntriesKept, NamesKept, NEW u \in DOMAIN log, NEW sid \in Nat,
         Suits(log, boxes, nextSid, u, sid)
  PROVE  Suits(log', boxes', nextSid', u, sid)
<1>1. log[u].refUid # 0 => log[u].refUid \in DOMAIN log
  <2>1. Len(log) \in Nat /\ DOMAIN log = 1..Len(log)
    BY LenProperties DEF TypeOK, TableOK
  <2> QED BY <2>1 DEF TypeOK, TableOK
<1>2. /\ log'[u].pay = log[u].pay /\ log'[u].refUid = log[u].refUid
      /\ log'[u].late = log[u].late
      /\ log[u].refUid # 0 => log'[log[u].refUid].pay = log[log[u].refUid].pay
  BY <1>1 DEF EntriesKept
<1> QED BY <1>2 DEF Suits, NamesKept

\* The create a row, or a claim, of this pass refers to is the one whose row
\* the pass has claimed under that id.
LEMMA ParentClaimed ==
  ASSUME TypeOK, Disciplined, References, ParentsHeld,
         NEW c \in DOMAIN claim, NEW i \in DOMAIN rows, NEW pay, pay.ref = c,
         Refers(log, rows[i].uid, pay), ~log[rows[i].uid].late
  PROVE  log[rows[i].uid].refUid = claim[c].uid /\ claim[c].uid # 0
<1>1. c # None /\ claim[c].uid # 0
  BY DEF TypeOK, PassOK, None, Functional, Claimed
<1>2. up
  BY EmptyTyped DEF Disciplined, PassShape
<1>3. c \in DOMAIN rows /\ rows[c].uid = claim[c].uid
  BY <1>2 DEF Disciplined, ClaimDiscipline, Dispatching
<1>4. log[rows[i].uid].refUid # 0 /\ c = log[log[rows[i].uid].refUid].id
  BY <1>1 DEF Refers
<1>5. rows[c].uid = log[rows[i].uid].refUid
  BY <1>3, <1>4 DEF ParentsHeld
<1> QED BY <1>1, <1>3, <1>5

\* The walk binds a row's reference to the mailbox of the create it names.
LEMMA RewriteFits ==
  ASSUME TypeOK, Disciplined, Resolved, RowsFit, ClaimsFit, PassFits,
         NEW c \in Least(Undecided), c \in DOMAIN claim, phase = "resolve", NEW i \in DOMAIN rows
  PROVE  /\ RewriteRef(rows[i].pay, c) \in Payload
         /\ Fits(log, boxes, nextSid, rows[i].uid, RewriteRef(rows[i].pay, c))
<1> DEFINE pay == rows[i].pay
           u == rows[i].uid
           pay1 == RewriteRef(pay, c)
<1>1. pay \in Payload /\ u \in DOMAIN log /\ newSid \in Nat /\ claim[c].pay \in Payload
  BY DEF TypeOK, TableOK, PassOK, Functional, Row, Claimed
<1>2. Refers(log, u, pay) /\ Fits(log, boxes, nextSid, u, pay)
      /\ Fits(log, boxes, nextSid, claim[c].uid, claim[c].pay)
  BY DEF Resolved, References, RowsFit, ClaimsFit
<1>3. Bears(boxes, nextSid, newSid, claim[c].pay.name) /\ c # None
  BY DEF PassFits, TypeOK, PassOK, None
<1>4. ASSUME pay.ref = c, ~log[u].late
      PROVE  Bears(boxes, nextSid, newSid, log[log[u].refUid].pay.name)
  <2>1. log[u].refUid = claim[c].uid
    BY <1>2, <1>4, ParentClaimed DEF Resolved
  <2> QED BY <1>2, <1>3, <2>1 DEF Fits
<1>5. pay1 \in Payload
  BY <1>1 DEF RewriteRef, Payload, None
<1>6. /\ pay1.kind = pay.kind /\ pay1.name = pay.name /\ pay1.box = pay.box
      /\ pay1.msgs = pay.msgs /\ pay1.resolvedSid = pay.resolvedSid
      /\ \/ pay1.ref = pay.ref /\ pay1.refSid = pay.refSid
         \/ pay.ref = c /\ pay1.ref = None /\ pay1.refSid = newSid
  BY <1>1, RewriteKeeps
<1> HIDE DEF pay, u, pay1
<1>7. Fits(log, boxes, nextSid, u, pay1)
  BY <1>2, <1>3, <1>4, <1>6 DEF Fits
<1> QED BY <1>5, <1>7 DEF pay, u, pay1

LEMMA AskedFits ==
  ASSUME TypeOK, CallFits, NEW i, Asked(i)
  PROVE  Fits(log', boxes', nextSid', rows'[i].uid, rows'[i].pay)
<1>1. \E req, msgs, refUid :
        /\ Enqueued(req, msgs, refUid) /\ i = NextId
        /\ refUid # 0 /\ req.kind = "move" => req.box = None
  BY DEF Asked, EnqueueSingle, CallFits
<1>2. PICK req, msgs, refUid :
        /\ Enqueued(req, msgs, refUid) /\ i = NextId
        /\ refUid # 0 /\ req.kind = "move" => req.box = None
  BY <1>1
<1>3. /\ rows'[i].uid = Len(log) + 1 /\ log'[Len(log) + 1].refUid = refUid
      /\ log'[Len(log) + 1].pay = rows'[i].pay
      /\ rows'[i].pay = PayloadOf(req, msgs, IF refUid = 0 THEN None ELSE log[refUid].id)
  BY <1>2 DEF Enqueued
<1>4. /\ rows'[i].pay.kind = req.kind /\ rows'[i].pay.box = req.box
      /\ rows'[i].pay.refSid = None /\ rows'[i].pay.resolvedSid = None
      /\ refUid = 0 => rows'[i].pay.ref = None
  BY <1>3 DEF PayloadOf
<1> QED BY <1>2, <1>3, <1>4 DEF Fits

LEMMA NextFitsRows ==
  ASSUME TypeOK, Disciplined, Resolved, NamesKept, RowsFit, ClaimsFit, PassFits, CallFits,
         [Next]_vars
  PROVE  RowsFit'
<1>1. EntriesKept
  BY NextKeepsEntries
<1>2. /\ \A i \in DOMAIN rows : rows[i].uid \in DOMAIN log /\ rows[i].pay \in Payload
      /\ \A i \in DOMAIN claim : claim[i].uid \in DOMAIN log /\ claim[i].pay \in Payload
      /\ newSid \in Nat
  BY DEF TypeOK, TableOK, PassOK, Functional, Row, Claimed
<1> SUFFICES ASSUME NEW i \in DOMAIN rows'
             PROVE  Fits(log', boxes', nextSid', rows'[i].uid, rows'[i].pay)
  BY DEF RowsFit
<1>3. CASE SamePay(i)
  BY <1>1, <1>2, <1>3, FitsKept DEF SamePay, RowsFit
<1>4. CASE Persisted(i)
  <2> DEFINE pay1 == [claim[i].pay EXCEPT !.resolvedSid = newSid]
  <2>1. /\ i \in Least(Undecided) /\ i \in DOMAIN claim /\ phase = "persist"
        /\ rows'[i].uid = claim[i].uid /\ rows'[i].pay = pay1
    BY <1>4 DEF Persisted
  <2>2. Fits(log, boxes, nextSid, claim[i].uid, claim[i].pay)
        /\ Bears(boxes, nextSid, newSid, claim[i].pay.name)
    BY <2>1 DEF ClaimsFit, PassFits
  <2>3. /\ pay1 \in Payload /\ pay1.kind = claim[i].pay.kind /\ pay1.name = claim[i].pay.name
        /\ pay1.box = claim[i].pay.box /\ pay1.ref = claim[i].pay.ref
        /\ pay1.msgs = claim[i].pay.msgs
        /\ pay1.refSid = claim[i].pay.refSid /\ pay1.resolvedSid = newSid
    BY <1>2, <2>1 DEF Payload
  <2> HIDE DEF pay1
  <2>4. Fits(log, boxes, nextSid, claim[i].uid, pay1)
    BY <2>2, <2>3 DEF Fits
  <2> QED BY <1>1, <1>2, <2>1, <2>3, <2>4, FitsKept
<1>5. CASE Rewritten(i)
  <2>1. PICK c \in Least(Undecided) :
          /\ phase = "resolve" /\ c \in DOMAIN claim
          /\ rows'[i].pay = RewriteRef(rows[i].pay, c)
    BY <1>5 DEF Rewritten
  <2>2. i \in DOMAIN rows /\ rows'[i].uid = rows[i].uid
    BY <1>5 DEF Rewritten
  <2> QED BY <1>1, <1>2, <2>1, <2>2, RewriteFits, FitsKept
<1>6. CASE Asked(i)
  BY <1>6, AskedFits
<1> QED BY <1>3, <1>4, <1>5, <1>6, NextPays

LEMMA NextFitsClaims ==
  ASSUME TypeOK, NamesKept, RowsFit, ClaimsFit, [Next]_vars
  PROVE  ClaimsFit'
<1>1. EntriesKept
  BY NextKeepsEntries
<1>2. /\ \A i \in DOMAIN rows : rows[i].uid \in DOMAIN log /\ rows[i].pay \in Payload
      /\ \A i \in DOMAIN claim : claim[i].uid \in DOMAIN log /\ claim[i].pay \in Payload
  BY DEF TypeOK, TableOK, PassOK, Functional, Row, Claimed
<1>3. CASE claim' = claim
  BY <1>1, <1>2, <1>3, FitsKept DEF ClaimsFit
<1>4. CASE claim' = Empty
  BY <1>4, EmptyTyped DEF ClaimsFit
<1>5. CASE Claim
  <2> SUFFICES ASSUME NEW i \in DOMAIN claim'
               PROVE  /\ Fits(log', boxes', nextSid', claim'[i].uid, claim'[i].pay)
                      /\ claim'[i].target = IF claim'[i].pay.refSid # None
                                            THEN claim'[i].pay.refSid ELSE claim'[i].pay.box
    BY DEF ClaimsFit
  <2>1. i \in DOMAIN rows /\ claim'[i] = ResolveClaim(rows[i])
    BY <1>5, ClaimReads
  <2>2. /\ claim'[i].uid = rows[i].uid /\ claim'[i].pay = rows[i].pay
        /\ claim'[i].target = IF rows[i].pay.refSid # None THEN rows[i].pay.refSid
                                                          ELSE rows[i].pay.box
    BY <2>1 DEF ResolveClaim
  <2> QED BY <1>1, <1>2, <2>1, <2>2, FitsKept DEF RowsFit
<1> QED BY <1>3, <1>4, <1>5, NextClaims

\* The mailboxes the pass has in hand, after a step that settles or goes on.
LEMMA PassFitsKept ==
  ASSUME TypeOK, NamesKept, PassFits, UNCHANGED claim, phase \notin {"idle", "claim"},
         \A c \in DOMAIN resolved' :
           \/ c \in DOMAIN resolved /\ resolved'[c] = resolved[c]
           \/ c \in DOMAIN claim /\ Bears(boxes', nextSid', resolved'[c], claim[c].pay.name),
         phase' \in {"refile", "persist", "resolve"} =>
           /\ UNCHANGED decided
           /\ \A c \in Least(Undecided) : Bears(boxes', nextSid', newSid', claim[c].pay.name)
  PROVE  PassFits'
<1>1. \A c \in DOMAIN resolved : resolved[c] \in Nat
  BY DEF TypeOK, PassOK, Functional
<1>2. ASSUME NEW c \in DOMAIN resolved'
      PROVE  c \in DOMAIN claim /\ Bears(boxes', nextSid', resolved'[c], claim[c].pay.name)
  BY <1>1 DEF PassFits, NamesKept
<1>3. UNCHANGED decided => Undecided' = Undecided
  BY DEF Undecided
<1> QED BY <1>2, <1>3 DEF PassFits, Least

LEMMA AttemptFits ==
  ASSUME TypeOK, NamesKept, ClaimsFit, PassFits,
         \/ Abandon \/ FailUnsent \/ CallFails \/ MoveCall \/ CreateCall \/ CreateRefused
         \/ Adopt \/ Refile \/ RenameCall \/ DeleteCall \/ Replay \/ ResolveEnd \/ RecordFails
  PROVE  PassFits'
<1>1. UNCHANGED claim /\ phase \notin {"idle", "claim"}
  BY DEF Abandon, FailUnsent, CallFails, MoveCall, CreateCall, CreateRefused,
     Adopt, Refile, RenameCall, DeleteCall, Replay, ResolveEnd, RecordFails, Turn, Calling
<1>2. \A c : c \in Least(Undecided) => c \in DOMAIN claim
  BY DEF Least, Undecided
<1>3. \A d : Decide(d) => phase' = "dispatch"
  BY DEF Decide
<1>4. CASE Abandon \/ FailUnsent \/ CallFails \/ MoveCall \/ RenameCall \/ DeleteCall \/ RecordFails
  <2>1. UNCHANGED resolved
    BY <1>4 DEF Abandon, FailUnsent, CallFails, MoveCall, RenameCall, DeleteCall, RecordFails
  <2>2. phase' = "dispatch"
    BY <1>3, <1>4 DEF Abandon, FailUnsent, CallFails, MoveCall, RenameCall, DeleteCall,
       RecordFails, DecideAll
  <2> QED BY <1>1, <2>1, <2>2, PassFitsKept
<1>5. CASE CreateCall
  <2>1. PICK c \in Undecided :
          /\ c \in Least(Undecided) /\ boxes' = Made(c) /\ nextSid' = nextSid + 1
          /\ \/ /\ newSid' = nextSid /\ phase' = "persist" /\ UNCHANGED decided
                /\ \/ UNCHANGED resolved
                   \/ resolved' = Put(resolved, c, nextSid)
             \/ /\ \E S, x : DecideAll(S, x)
                /\ UNCHANGED resolved
    BY <1>5, Zenon DEF CreateCall, Calling, Turn
  <2>2. Bears(boxes', nextSid', nextSid, claim[c].pay.name)
    <3>1. nextSid \in Nat
      BY DEF TypeOK, ServerOK
    <3> QED BY <2>1, <3>1 DEF Made, Put, Bears
  <2>3. CASE (\E S, x : DecideAll(S, x)) /\ UNCHANGED resolved
    BY <1>1, <1>3, <2>3, PassFitsKept DEF DecideAll
  <2>4. CASE /\ newSid' = nextSid /\ phase' = "persist" /\ UNCHANGED decided
             /\ \/ UNCHANGED resolved
                \/ resolved' = Put(resolved, c, nextSid)
    <3>1. \A d \in DOMAIN resolved' :
             \/ d \in DOMAIN resolved /\ resolved'[d] = resolved[d]
             \/ d = c /\ resolved'[d] = nextSid
      BY <2>4 DEF Put
    <3>2. \A d \in Least(Undecided) : d = c
      BY <2>1, OneLeast
    <3> QED BY <1>1, <1>2, <2>1, <2>2, <2>4, <3>1, <3>2, PassFitsKept
  <2> QED BY <2>1, <2>3, <2>4
<1>6. CASE CreateRefused
  <2>1. UNCHANGED resolved /\ phase' \in {"dispatch", "adopt"}
    BY <1>3, <1>6 DEF CreateRefused, DecideAll
  <2> QED BY <1>1, <2>1, PassFitsKept
<1>7. CASE Adopt
  <2>1. UNCHANGED <<resolved, boxes, nextSid>>
    BY <1>7 DEF Adopt
  <2>2. PICK c \in Undecided :
          /\ c \in Least(Undecided)
          /\ \/ /\ newSid' \in FindMailboxes(claim[c].pay.name, Target(c)) /\ UNCHANGED decided
                /\ phase' \in {"persist", "refile"}
             \/ \E S, x : DecideAll(S, x)
    BY <1>7 DEF Adopt, Turn
  <2>3. CASE \E S, x : DecideAll(S, x)
    BY <1>1, <1>3, <2>1, <2>3, PassFitsKept DEF DecideAll
  <2>4. CASE /\ newSid' \in FindMailboxes(claim[c].pay.name, Target(c)) /\ UNCHANGED decided
             /\ phase' \in {"persist", "refile"}
    <3>1. newSid' \in DOMAIN boxes /\ boxes[newSid'].name = claim[c].pay.name
      BY <2>4 DEF FindMailboxes
    <3>2. Bears(boxes', nextSid', newSid', claim[c].pay.name)
      BY <2>1, <3>1 DEF Bears, TypeOK, ServerOK
    <3>3. \A d \in Least(Undecided) : d = c
      BY <2>2, OneLeast
    <3> QED BY <1>1, <2>1, <2>4, <3>2, <3>3, PassFitsKept
  <2> QED BY <2>2, <2>3, <2>4
<1>8. CASE Refile
  <2>1. UNCHANGED <<boxes, nextSid, newSid>>
    BY <1>8 DEF Refile
  <2>2. PICK c \in Undecided :
          /\ c \in Least(Undecided) /\ phase = "refile"
          /\ \/ /\ resolved' = Put(resolved, c, newSid) /\ UNCHANGED decided
                /\ phase' = "persist"
             \/ (\E S, x : DecideAll(S, x)) /\ UNCHANGED resolved
    BY <1>8, Zenon DEF Refile, Turn
  <2>3. CASE (\E S, x : DecideAll(S, x)) /\ UNCHANGED resolved
    BY <1>1, <1>3, <2>3, PassFitsKept DEF DecideAll
  <2>4. CASE /\ resolved' = Put(resolved, c, newSid) /\ UNCHANGED decided /\ phase' = "persist"
    <3>1. Bears(boxes', nextSid', newSid', claim[c].pay.name) /\ UNCHANGED newSid
      BY <2>1, <2>2 DEF PassFits
    <3>2. \A d \in DOMAIN resolved' :
             \/ d \in DOMAIN resolved /\ resolved'[d] = resolved[d]
             \/ d = c /\ resolved'[d] = newSid
      BY <2>4 DEF Put
    <3>3. \A d \in Least(Undecided) : d = c
      BY <2>2, OneLeast
    <3> QED BY <1>1, <1>2, <2>2, <2>4, <3>1, <3>2, <3>3, PassFitsKept
  <2> QED BY <2>2, <2>3, <2>4
<1>9. CASE Replay
  <2>1. UNCHANGED <<resolved, decided, boxes, nextSid>> /\ phase' = "resolve"
    BY <1>9 DEF Replay, server
  <2>2. PICK c \in Undecided :
          /\ c \in Least(Undecided) /\ claim[c].pay.resolvedSid # None
          /\ newSid' = claim[c].pay.resolvedSid
    BY <1>9 DEF Replay, Turn
  <2>3. Bears(boxes, nextSid, newSid', claim[c].pay.name)
    BY <1>2, <2>2 DEF ClaimsFit, Fits
  <2>4. \A d \in Least(Undecided) : d = c
    BY <2>2, OneLeast
  <2> QED BY <1>1, <2>1, <2>3, <2>4, PassFitsKept
<1>10. CASE ResolveEnd
  <2>1. UNCHANGED <<boxes, nextSid, newSid>>
    BY <1>10 DEF ResolveEnd, server
  <2>2. PICK c \in Undecided :
          /\ c \in Least(Undecided) /\ phase = "resolve" /\ phase' = "dispatch"
          /\ resolved' = Put(resolved, c, newSid)
    BY <1>3, <1>10 DEF ResolveEnd, Turn
  <2>3. Bears(boxes', nextSid', newSid, claim[c].pay.name)
    BY <2>1, <2>2 DEF PassFits
  <2>4. \A d \in DOMAIN resolved' :
           \/ d \in DOMAIN resolved /\ resolved'[d] = resolved[d]
           \/ d = c /\ resolved'[d] = newSid
    BY <2>2 DEF Put
  <2> QED BY <1>1, <1>2, <2>2, <2>3, <2>4, PassFitsKept
<1> QED BY <1>4, <1>5, <1>6, <1>7, <1>8, <1>9, <1>10

LEMMA NextFitsPass ==
  ASSUME TypeOK, NamesKept, ClaimsFit, PassFits, [Next]_vars
  PROVE  PassFits'
<1>1. CASE \/ Abandon \/ FailUnsent \/ CallFails \/ MoveCall \/ CreateCall \/ CreateRefused
           \/ Adopt \/ Refile \/ RenameCall \/ DeleteCall \/ Replay \/ ResolveEnd \/ RecordFails
  BY <1>1, AttemptFits
<1>2. CASE Probe \/ ClaimFails \/ Finalize \/ Recover \/ RecoverFails \/ Crash
  <2>1. phase' \in {"idle", "claim"}
    BY <1>2 DEF Probe, ClaimFails, Finalize, Recover, RecoverFails, Crash
  <2> QED BY <2>1 DEF PassFits
<1>3. CASE Claim
  <2>1. phase' \in {"idle", "dispatch"} /\ DOMAIN resolved' = {}
    BY <1>3, EmptyTyped DEF Claim
  <2> QED BY <2>1 DEF PassFits
<1>4. CASE Persist \/ ResolvePage \/ FinalizeFails
  <2>1. /\ UNCHANGED <<claim, decided, resolved, newSid>>
        /\ phase \in {"persist", "resolve", "dispatch"}
        /\ phase' \in {"resolve", "recover"} /\ (phase' = "resolve" => phase # "dispatch")
    BY <1>4 DEF Persist, ResolvePage, FinalizeFails, Deciding, Turn
  <2>2. newSid \in Nat
    BY DEF TypeOK, PassOK
  <2>3. phase' = "resolve" =>
          \A c \in Least(Undecided) : Bears(boxes', nextSid', newSid', claim[c].pay.name)
    BY <2>1, <2>2 DEF PassFits, NamesKept
  <2> QED BY <2>1, <2>3, PassFitsKept
<1>5. CASE \/ Callers \/ Tick \/ Restart \/ SyncPull \/ OtherClient \/ UNCHANGED vars
  <2>1. UNCHANGED <<phase, claim, decided, resolved, newSid>>
    BY <1>5 DEF Callers, EnqueueSingle, BulkStart, BulkChunk, BulkFails, Compensate, Undo,
       Tick, Restart, SyncPull, OtherClient, vars, pass
  <2>2. newSid \in Nat /\ \A c \in DOMAIN resolved : resolved[c] \in Nat
    BY DEF TypeOK, PassOK, Functional
  <2>3. Undecided' = Undecided
    BY <2>1 DEF Undecided
  <2> QED BY <2>1, <2>2, <2>3 DEF PassFits, NamesKept, Least
<1> QED BY <1>1, <1>2, <1>3, <1>4, <1>5 DEF Next, Dispatch

LEMMA NextFitsCall ==
  ASSUME TypeOK, CallFits, [Next]_vars
  PROVE  CallFits'
<1> SUFFICES ASSUME NEW p \in Caller, bulk'[p].refUid # 0
             PROVE  bulk'[p].req.box = None
  BY DEF CallFits
<1>1. bulk'[p] # NoBulk
  BY DEF NoBulk
<1>2. bulk[p].refUid # 0 => bulk[p].req.box = None
  BY DEF CallFits
<1> QED BY <1>1, <1>2, NextBulk

\* The mailbox a move goes to suits it, and so does the one the create it
\* rides with has made or adopted.
LEMMA TargetSuits ==
  ASSUME TypeOK, Disciplined, Resolved, ClaimsFit, PassFits, phase = "dispatch",
         NEW i \in DOMAIN claim, claim[i].pay.kind = "move", Target(i) # None
  PROVE  Suits(log, boxes, nextSid, claim[i].uid, Target(i))
<1> DEFINE u == claim[i].uid
           pay == claim[i].pay
<1>1. Fits(log, boxes, nextSid, u, pay) /\ Refers(log, u, pay)
      /\ claim[i].target = IF pay.refSid # None THEN pay.refSid ELSE pay.box
  BY DEF ClaimsFit, Resolved, References
<1>2. i \in DOMAIN rows /\ rows[i].uid = u
  <2>1. up
    BY DEF Disciplined, PassShape
  <2> QED BY <2>1 DEF Disciplined, ClaimDiscipline, Dispatching
<1>3. CASE claim[i].target = None /\ pay.ref # None /\ pay.ref \in DOMAIN resolved
  <2> DEFINE c == pay.ref
  <2>1. Target(i) = resolved[c] /\ log[u].refUid # 0
    BY <1>1, <1>3 DEF Target, Refers
  <2>2. c \in DOMAIN claim /\ Bears(boxes, nextSid, resolved[c], claim[c].pay.name)
    BY <1>3 DEF PassFits
  <2>3. claim[c].pay.name = log[claim[c].uid].pay.name
    BY <2>2 DEF ClaimsFit, Fits
  <2>4. ~log[u].late => log[u].refUid = claim[c].uid
    BY <1>1, <1>2, <2>2, ParentClaimed DEF Resolved
  <2> QED BY <2>1, <2>2, <2>3, <2>4 DEF Suits
<1>4. CASE ~(claim[i].target = None /\ pay.ref # None /\ pay.ref \in DOMAIN resolved)
  <2>1. Target(i) = claim[i].target
    BY <1>4 DEF Target
  <2> HIDE DEF u, pay
  <2>2. CASE log[u].refUid = 0
    BY <1>1, <2>1, <2>2 DEF Fits, Suits, u, pay
  <2>3. CASE log[u].refUid # 0
    <3>1. pay.box = None
      BY <1>1, <2>3 DEF Fits, pay
    <3>2. pay.refSid # None /\ claim[i].target = pay.refSid
      BY <1>1, <2>1, <3>1
    <3>3. ~log[u].late => Bears(boxes, nextSid, pay.refSid, log[log[u].refUid].pay.name)
      BY <1>1, <3>2 DEF Fits
    <3> QED BY <2>1, <2>3, <3>2, <3>3 DEF Suits, u
  <2> QED BY <2>2, <2>3
<1> QED BY <1>3, <1>4

LEMMA GroupSuits ==
  ASSUME TypeOK, Disciplined, Resolved, ClaimsFit, NEW c \in DOMAIN claim, NEW i \in Group(c),
         NEW mailboxes, NEW next, NEW sid, Bears(mailboxes, next, sid, claim[c].pay.name)
  PROVE  Suits(log, mailboxes, next, claim[i].uid, sid)
<1>1. i \in DOMAIN claim /\ claim[i].pay.ref = c
  BY DEF Group
<1>2. Refers(log, claim[i].uid, claim[i].pay) /\ c # None
  BY <1>1 DEF Resolved, References, TypeOK, PassOK, None
<1>3. log[claim[i].uid].refUid # 0
  BY <1>1, <1>2 DEF Refers
<1>4. i \in DOMAIN rows /\ rows[i].uid = claim[i].uid
  <2>1. up
    BY EmptyTyped DEF Disciplined, PassShape
  <2> QED BY <1>1, <2>1 DEF Disciplined, ClaimDiscipline, Dispatching
<1>5. ~log[claim[i].uid].late => log[claim[i].uid].refUid = claim[c].uid
  BY <1>1, <1>2, <1>4, ParentClaimed DEF Resolved
<1>6. claim[c].pay.name = log[claim[c].uid].pay.name
  BY DEF ClaimsFit, Fits
<1> QED BY <1>3, <1>5, <1>6 DEF Suits

\* A request files its moves in a mailbox that suits each.
LEMMA FileFits ==
  ASSUME TypeOK, EntriesKept, NamesKept, FilesFit, UNCHANGED log,
         NEW S \in SUBSET DOMAIN claim, NEW sid, NEW refused, NEW mailboxes,
         File(S, sid, refused, mailboxes),
         \A i \in S : Suits(log, boxes', nextSid', claim[i].uid, sid)
  PROVE  FilesFit'
<1> DEFINE movers(m) == {claim[i].uid :
                           i \in {j \in S : m \in Movable(j, sid, refused, mailboxes)}}
<1>1. /\ at' = [m \in Msg |-> IF movers(m) # {} THEN sid ELSE at[m]]
      /\ mover' = [m \in Msg |-> IF movers(m) # {} THEN Max(movers(m)) ELSE mover[m]]
  BY DEF File
<1>2. Len(log) \in Nat /\ DOMAIN log = 1..Len(log)
  BY LenProperties DEF TypeOK, TableOK
<1>3. \A m \in Msg : movers(m) \subseteq 1..Len(log)
  BY <1>2 DEF TypeOK, PassOK
<1>4. \A m \in Msg : \A u \in movers(m) : Suits(log, boxes', nextSid', u, sid)
  OBVIOUS
<1> HIDE DEF movers
<1>5. ASSUME NEW m \in Msg, movers(m) # {} PROVE Max(movers(m)) \in movers(m)
  <2>1. movers(m) \in SUBSET Nat /\ \A x \in movers(m) : x <= Len(log)
    BY <1>2, <1>3
  <2> QED BY <1>2, <1>5, <2>1, GreatestNatural
<1>6. at \in [Msg -> Nat] /\ mover \in [Msg -> 0..Len(log)]
  BY DEF TypeOK, ServerOK
<1>7. ASSUME NEW m \in Msg, mover'[m] # 0, at'[m] # None
      PROVE  Suits(log', boxes', nextSid', mover'[m], at'[m])
  <2>1. CASE movers(m) # {}
    BY <1>1, <1>4, <1>5, <2>1
  <2>2. CASE movers(m) = {}
    <3>1. at'[m] = at[m] /\ mover'[m] = mover[m]
      BY <1>1, <2>2
    <3>2. mover[m] \in DOMAIN log /\ at[m] \in Nat
      BY <1>2, <1>6, <1>7, <3>1
    <3> QED BY <1>7, <3>1, <3>2, SuitsKept DEF FilesFit
  <2> QED BY <2>1, <2>2
<1> QED BY <1>7 DEF FilesFit

\* Nobody but a move puts a message anywhere.
LEMMA FilesKept ==
  ASSUME TypeOK, EntriesKept, NamesKept, FilesFit, UNCHANGED mover,
         \A m \in Msg : at'[m] = at[m] \/ at'[m] = None
  PROVE  FilesFit'
<1>1. at \in [Msg -> Nat] /\ mover \in [Msg -> 0..Len(log)]
      /\ Len(log) \in Nat /\ DOMAIN log = 1..Len(log)
  BY LenProperties DEF TypeOK, TableOK, ServerOK
<1> SUFFICES ASSUME NEW m \in Msg, mover'[m] # 0, at'[m] # None
             PROVE  Suits(log', boxes', nextSid', mover'[m], at'[m])
  BY DEF FilesFit
<1>2. at'[m] = at[m] /\ mover[m] \in DOMAIN log /\ at[m] \in Nat
  BY <1>1
<1> QED BY <1>2, SuitsKept DEF FilesFit

LEMMA NextFitsFiles ==
  ASSUME TypeOK, Disciplined, Resolved, NamesKept, ClaimsFit, PassFits, FilesFit, [Next]_vars
  PROVE  FilesFit'
<1>1. EntriesKept
  BY NextKeepsEntries
<1>2. CASE MoveCall
  <2>1. UNCHANGED <<log, boxes, nextSid>>
    BY <1>2 DEF MoveCall, table
  <2>2. PICK c \in Undecided :
          /\ phase = "dispatch" /\ claim[c].pay.kind = "move" /\ Target(c) # None
          /\ \E refused : File({c}, Target(c), refused, boxes)
    BY <1>2 DEF MoveCall, Calling, Turn
  <2>3. c \in DOMAIN claim
    BY DEF Undecided
  <2>4. Suits(log, boxes', nextSid', claim[c].uid, Target(c))
    BY <2>1, <2>2, <2>3, TargetSuits
  <2>5. {c} \in SUBSET DOMAIN claim /\ \A i \in {c} : Suits(log, boxes', nextSid', claim[i].uid, Target(c))
    BY <2>3, <2>4
  <2> QED BY <1>1, <2>1, <2>2, <2>5, FileFits
<1>3. CASE CreateCall
  <2>1. UNCHANGED log
    BY <1>3 DEF CreateCall, table
  <2>2. PICK c \in Undecided :
          /\ boxes' = Made(c) /\ nextSid' = nextSid + 1
          /\ \E S \in {{}, Group(c)} : \E refused : File(S, nextSid, refused, Made(c))
    BY <1>3, Zenon DEF CreateCall
  <2>3. c \in DOMAIN claim
    BY DEF Undecided
  <2>4. Bears(boxes', nextSid', nextSid, claim[c].pay.name)
    <3>1. nextSid \in Nat
      BY DEF TypeOK, ServerOK
    <3> QED BY <2>2, <3>1 DEF Made, Put, Bears
  <2>5. \A S \in {{}, Group(c)} :
          S \in SUBSET DOMAIN claim /\ \A i \in S : Suits(log, boxes', nextSid', claim[i].uid, nextSid)
    BY <2>3, <2>4, GroupClaimed, GroupSuits
  <2> QED BY <1>1, <2>1, <2>2, <2>5, FileFits
<1>4. CASE Refile
  <2>1. UNCHANGED <<log, boxes, nextSid>>
    BY <1>4 DEF Refile, table
  <2>2. PICK c \in Undecided :
          /\ c \in Least(Undecided) /\ phase = "refile"
          /\ \E refused : File(Group(c), newSid, refused, boxes)
    BY <1>4, Zenon DEF Refile, Turn
  <2>3. c \in DOMAIN claim /\ Bears(boxes', nextSid', newSid, claim[c].pay.name)
    BY <2>1, <2>2 DEF Undecided, PassFits
  <2>4. Group(c) \in SUBSET DOMAIN claim
        /\ \A i \in Group(c) : Suits(log, boxes', nextSid', claim[i].uid, newSid)
    BY <2>3, GroupClaimed, GroupSuits
  <2> QED BY <1>1, <2>1, <2>2, <2>4, FileFits
<1>5. CASE OtherClient
  <2>1. UNCHANGED mover
    BY <1>5 DEF OtherClient
  <2>2. at' = at \/ \E m \in Msg : at' = [at EXCEPT ![m] = None]
    BY <1>5 DEF OtherClient
  <2>3. \A m \in Msg : at'[m] = at[m] \/ at'[m] = None
    <3>1. at \in [Msg -> Nat]
      BY DEF TypeOK, ServerOK
    <3> QED BY <2>2, <3>1
  <2> QED BY <1>1, <2>1, <2>3, FilesKept
<1>6. CASE ~(MoveCall \/ CreateCall \/ Refile \/ OtherClient)
  <2>1. UNCHANGED <<at, mover>>
    BY <1>6 DEF Next, Callers, EnqueueSingle, BulkStart, BulkChunk, BulkFails, Compensate, Undo,
       Dispatch, Probe, Claim, ClaimFails, Abandon, FailUnsent, CallFails,
       CreateRefused, Adopt, RenameCall, DeleteCall,
       Replay, Persist, ResolvePage, ResolveEnd, RecordFails, Finalize, FinalizeFails, Recover,
       RecoverFails, Tick, Crash, Restart, SyncPull, vars, server
  <2> QED BY <1>1, <2>1, FilesKept
<1> QED BY <1>2, <1>3, <1>4, <1>5, <1>6

\* Only a caller's request says what an intent asks for.
LEMMA NextUnrenamed ==
  ASSUME \A req \in Requests : req.kind # "rename", TypeOK, Unrenamed, [Next]_vars
  PROVE  Unrenamed'
<1>1. CASE DOMAIN log' = DOMAIN log
  BY <1>1, NextKeepsEntries DEF Unrenamed, EntriesKept
<1>2. CASE DOMAIN log' # DOMAIN log
  <2>1. PICK req, msgs, refUid : Enqueued(req, msgs, refUid) /\ req \in Requests
    BY <1>2, CallTyped, NextTable DEF Shrinks
  <2>2. log'[Len(log) + 1].pay.kind = req.kind
    BY <2>1 DEF Enqueued, PayloadOf
  <2> QED BY <2>1, <2>2 DEF Enqueued, Unrenamed
<1> QED BY <1>1, <1>2

\* FiledAsAsked and what it rests on.
Fitting == Unrenamed /\ RowsFit /\ ClaimsFit /\ PassFits /\ CallFits /\ FilesFit

LEMMA FittingAlways ==
  ASSUME \A req \in Requests : req.kind # "rename" PROVE Spec => []Fitting
<1>1. Init => Fitting
  <2> SUFFICES ASSUME Init PROVE Fitting
    OBVIOUS
  <2>1. /\ DOMAIN rows = {} /\ DOMAIN claim = {} /\ DOMAIN log = {}
        /\ phase = "idle" /\ mover = [m \in Msg |-> 0]
        /\ \A p \in Caller : bulk[p].refUid = 0
    <3>1. log = <<>> /\ rows = Empty /\ claim = Empty
      BY DEF Init
    <3> QED BY <3>1, EmptySeq, LenProperties, EmptyTyped DEF Init, NoBulk
  <2> QED BY <2>1 DEF Fitting, Unrenamed, RowsFit, ClaimsFit, PassFits, CallFits, FilesFit
<1>2. ASSUME TypeOK, Disciplined, Resolved, Fitting, [Next]_vars PROVE Fitting'
  <2>1. NamesKept
    BY <1>2, NextKeepsNames DEF Fitting, Resolved
  <2>2. Unrenamed'
    BY <1>2, NextUnrenamed DEF Fitting
  <2>3. RowsFit' /\ ClaimsFit'
    BY <1>2, <2>1, NextFitsRows, NextFitsClaims DEF Fitting
  <2>4. PassFits' /\ CallFits'
    BY <1>2, <2>1, NextFitsPass, NextFitsCall DEF Fitting
  <2>5. FilesFit'
    BY <1>2, <2>1, NextFitsFiles DEF Fitting
  <2> QED BY <2>2, <2>3, <2>4, <2>5 DEF Fitting
<1> QED BY <1>1, <1>2, TypeCorrect, DisciplinedAlways, ResolvedAlways, PTL DEF Spec

\* While no caller renames a mailbox, a message the outbox has moved is in the
\* mailbox its move asked for, or in one of the name the create it refers to
\* asked for, provided that create was still queued under its id when the move's
\* chunk was enqueued: whether the move rode with its create, found the server id
\* the pass resolved, or was rewritten to it pages and passes later, and whether
\* the mailbox was made or adopted, whatever other callers enqueue or undo between
\* two chunks.  Nothing is said of a chunk enqueued later than that, which can be
\* filed into another create's mailbox; nor of renames, which give the mailbox
\* another name.
THEOREM MessagesAreFiledAsAsked ==
  ASSUME \A req \in Requests : req.kind # "rename" PROVE Spec => []FiledAsAsked
<1>1. Fitting => FiledAsAsked
  BY DEF Fitting, FilesFit, Suits, Bears, FiledAsAsked
<1> QED BY <1>1, FittingAlways, PTL

-----------------------------------------------------------------------------
(* A create that has landed is not given up. *)

\* Callers only create mailboxes in mailboxes of the store and move messages,
\* the server knows the objects it is asked about, and nobody else changes it.
Undisturbed ==
  /\ \A req \in Requests : /\ req.kind \in {"create", "move"}
                           /\ req.kind = "create" => ~req.ref
  /\ "not_found" \notin Refusals /\ "other" \notin FaultKinds

\* The intents are then of these two kinds, and a create is never refused
\* before it is sent.
Plain ==
  /\ \A u \in DOMAIN log :
       /\ log[u].pay.kind \in {"create", "move"}
       /\ log[u].pay.kind = "create" => /\ log[u].refUid = 0 /\ log[u].pay.msgs = {}
                                        /\ log[u].pay.box \in known \cup {None}
  /\ \A p \in Caller : bulk[p].left # {} => bulk[p].req.kind = "move"
  /\ known \subseteq DOMAIN boxes
  /\ \A c \in DOMAIN claim : IsCreate(c) => ~claim[c].preFailed

LEMMA ClaimedKinds ==
  ASSUME TypeOK, References, Plain, NEW c \in DOMAIN claim
  PROVE  /\ claim[c].uid \in DOMAIN log /\ claim[c].pay.kind \in {"create", "move"}
         /\ claim[c].pay.kind = log[claim[c].uid].pay.kind
  BY DEF TypeOK, PassOK, References, Refers, Plain

LEMMA PlainSteps ==
  ASSUME TypeOK, References, Plain, Undisturbed, [Next]_vars
  PROVE  /\ ~RenameCall /\ ~DeleteCall /\ ~OtherClient
         /\ UNCHANGED boxes \/ CreateCall
         /\ UNCHANGED known \/ (known' = DOMAIN boxes /\ UNCHANGED boxes)
<1>1. ~RenameCall /\ ~DeleteCall
  BY ClaimedKinds DEF RenameCall, DeleteCall, Undecided
<1>2. ~OtherClient
  BY DEF OtherClient, Fault, Undisturbed
<1>3. UNCHANGED boxes \/ CreateCall
  BY <1>1, <1>2 DEF Next, Callers, EnqueueSingle, BulkStart, BulkChunk, BulkFails, Compensate,
     Undo, Dispatch, Probe, Claim, ClaimFails, Abandon, FailUnsent, CallFails,
     MoveCall, CreateRefused, Adopt, Refile,
     Replay, Persist, ResolvePage, ResolveEnd, RecordFails, Finalize, FinalizeFails, Recover,
     RecoverFails, Tick, Crash, Restart, SyncPull, vars, server
<1>4. CASE SyncPull
  BY <1>1, <1>2, <1>3, <1>4 DEF SyncPull, server
<1>5. CASE ~SyncPull
  <2>1. UNCHANGED known
    BY <1>1, <1>2, <1>5 DEF Next, Callers, EnqueueSingle, BulkStart, BulkChunk, BulkFails,
       Compensate, Undo, Dispatch, Probe, Claim, ClaimFails, Abandon, FailUnsent, CallFails,
       MoveCall, CreateCall, CreateRefused, Adopt, Refile,
       Replay, Persist, ResolvePage, ResolveEnd, RecordFails, Finalize, FinalizeFails, Recover,
       RecoverFails, Tick, Crash, Restart, vars, localcopy
  <2> QED BY <1>1, <1>2, <1>3, <2>1
<1> QED BY <1>4, <1>5

\* The server only gains mailboxes.
LEMMA BoxesGrow ==
  ASSUME TypeOK, References, Plain, Undisturbed, [Next]_vars
  PROVE  DOMAIN boxes \subseteq DOMAIN boxes' /\ \A s \in DOMAIN boxes : boxes'[s] = boxes[s]
<1>1. CASE UNCHANGED boxes
  BY <1>1
<1>2. CASE CreateCall
  <2>1. \E c : boxes' = Made(c)
    BY <1>2, Zenon DEF CreateCall
  <2>2. nextSid \notin DOMAIN boxes
    BY DEF TypeOK, ServerOK
  <2> QED BY <2>1, <2>2 DEF Made, Put
<1> QED BY <1>1, <1>2, PlainSteps

LEMMA NextPlain ==
  ASSUME TypeOK, References, Plain, RowsFit, Undisturbed, [Next]_vars
  PROVE  Plain'
<1>1. known \subseteq known' /\ known' \subseteq DOMAIN boxes'
  BY PlainSteps, BoxesGrow DEF Plain
<1>2. \A p \in Caller : bulk'[p].left # {} => bulk'[p].req.kind = "move"
  <2>1. NoBulk.left = {}
    BY DEF NoBulk
  <2> QED BY <2>1, NextBulk DEF Plain
<1>3. \A u \in DOMAIN log' :
        /\ log'[u].pay.kind \in {"create", "move"}
        /\ log'[u].pay.kind = "create" => /\ log'[u].refUid = 0 /\ log'[u].pay.msgs = {}
                                          /\ log'[u].pay.box \in known' \cup {None}
  <2>1. ASSUME NEW u \in DOMAIN log
        PROVE  /\ log'[u].pay.kind \in {"create", "move"}
               /\ log'[u].pay.kind = "create" => /\ log'[u].refUid = 0 /\ log'[u].pay.msgs = {}
                                                 /\ log'[u].pay.box \in known' \cup {None}
    BY <1>1, NextKeepsEntries DEF Plain, EntriesKept
  <2>2. CASE DOMAIN log' = DOMAIN log
    BY <2>1, <2>2
  <2>3. CASE DOMAIN log' # DOMAIN log
    <3>1. PICK req, msgs, refUid :
            /\ Enqueued(req, msgs, refUid)
            /\ \/ req.kind = "move"
               \/ /\ req \in Requests /\ req.kind # "move" /\ Nameable(req, refUid) /\ msgs = {}
                  /\ UNCHANGED known
      <4>1. \A p \in Caller : BulkChunk(p) => bulk[p].req.kind = "move"
        BY DEF BulkChunk, Plain
      <4>2. \A req : EnqueueSingle(req) => req.kind # "move" /\ UNCHANGED known
        BY DEF EnqueueSingle, localcopy
      <4> QED BY <2>3, <4>1, <4>2, NextTable DEF Shrinks
    <3>2. /\ log'[Len(log) + 1].pay = PayloadOf(req, msgs, IF refUid = 0 THEN None ELSE log[refUid].id)
          /\ log'[Len(log) + 1].refUid = refUid /\ DOMAIN log' = DOMAIN log \cup {Len(log) + 1}
      BY <3>1 DEF Enqueued
    <3>3. /\ log'[Len(log) + 1].pay.kind = req.kind /\ log'[Len(log) + 1].pay.msgs = msgs
          /\ log'[Len(log) + 1].pay.box = req.box
      BY <3>2 DEF PayloadOf
    <3>4. req.kind # "move" => /\ req.kind = "create" /\ refUid = 0 /\ msgs = {}
                               /\ req.box \in known' \cup {None}
      <4> SUFFICES ASSUME req.kind # "move"
                   PROVE  /\ req.kind = "create" /\ refUid = 0 /\ msgs = {}
                          /\ req.box \in known' \cup {None}
        OBVIOUS
      <4>1. /\ req \in Requests /\ Nameable(req, refUid) /\ msgs = {} /\ UNCHANGED known
        BY <3>1
      <4>2. req.kind = "create" /\ ~req.ref
        BY <4>1 DEF Undisturbed
      <4>3. refUid = 0 /\ req.box \in known \cup {None}
        BY <4>1, <4>2 DEF Nameable
      <4> QED BY <4>1, <4>2, <4>3
    <3> QED BY <2>1, <3>2, <3>3, <3>4
  <2> QED BY <2>2, <2>3
<1>4. \A c \in DOMAIN claim' : claim'[c].pay.kind = "create" => ~claim'[c].preFailed
  <2>1. CASE claim' = claim
    BY <2>1 DEF Plain, IsCreate
  <2>2. CASE Claim
    <3> SUFFICES ASSUME NEW c \in DOMAIN claim', claim'[c].pay.kind = "create"
                 PROVE  ~claim'[c].preFailed
      OBVIOUS
    <3>1. c \in DOMAIN rows /\ claim'[c] = ResolveClaim(rows[c])
      BY <2>2, ClaimReads
    <3>2. /\ claim'[c].pay = rows[c].pay
          /\ claim'[c].preFailed = (\/ ~(rows[c].pay.msgs \subseteq knownMsgs)
                                    \/ rows[c].pay.refSid = None
                                       /\ rows[c].pay.box \notin known \cup {None})
      BY <3>1 DEF ResolveClaim
    <3>3. rows[c].uid \in DOMAIN log /\ log[rows[c].uid].pay.kind = "create"
      BY <3>1, <3>2 DEF TypeOK, TableOK, References, Refers
    <3>4. Fits(log, boxes, nextSid, rows[c].uid, rows[c].pay)
      BY <3>1 DEF RowsFit
    <3>5. rows[c].pay.msgs = {} /\ rows[c].pay.box \in known \cup {None}
      BY <3>3, <3>4 DEF Fits, Plain
    <3> QED BY <3>2, <3>5
  <2> QED BY <2>1, <2>2, NextClaims, EmptyTyped
<1> QED BY <1>1, <1>2, <1>3, <1>4 DEF Plain, IsCreate

\* The server holds exactly one mailbox of that name and parent: `s`.
Sole(mailboxes, name, parent, s) ==
  /\ s \in DOMAIN mailboxes /\ mailboxes[s].name = name /\ mailboxes[s].parent = parent
  /\ \A t \in DOMAIN mailboxes :
       mailboxes[t].name = name /\ mailboxes[t].parent = parent => t = s

\* What a create that has landed made or adopted is the one mailbox a replay
\* finds by its name and parent.
Landed ==
  \A u \in applied :
    log[u].pay.kind = "create" => \E s : Sole(boxes, log[u].pay.name, log[u].pay.box, s)

\* The pass gives up no create that has landed.
GivenUp(d, effects) ==
  \A c \in DOMAIN d :
    IsCreate(c) /\ d[c].verb = "delete" /\ d[c].why # "delivered" => claim[c].uid \notin effects
PlanKeeps == phase \notin {"idle", "claim"} => GivenUp(decided, applied)

\* Where a create of this pass is asked for.
LEMMA CreateTarget ==
  ASSUME TypeOK, Resolved, Plain, ClaimsFit, NEW c \in DOMAIN claim, IsCreate(c)
  PROVE  /\ claim[c].uid \in DOMAIN log /\ log[claim[c].uid].pay.kind = "create"
         /\ claim[c].pay.name = log[claim[c].uid].pay.name
         /\ Target(c) = log[claim[c].uid].pay.box
<1>1. /\ claim[c].uid \in DOMAIN log /\ log[claim[c].uid].pay.kind = "create"
  BY ClaimedKinds DEF Resolved, IsCreate
<1>2. log[claim[c].uid].refUid = 0
  BY <1>1 DEF Plain
<1>3. /\ claim[c].pay.name = log[claim[c].uid].pay.name
      /\ claim[c].pay.ref = None /\ claim[c].pay.refSid = None
      /\ claim[c].pay.box = log[claim[c].uid].pay.box
      /\ claim[c].target = claim[c].pay.box
  BY <1>2 DEF ClaimsFit, Fits
<1> QED BY <1>1, <1>3 DEF Target

\* The moves of a request are moves in the history too.
LEMMA FiledMoves ==
  ASSUME TypeOK, References, Plain, NEW S \in SUBSET DOMAIN claim,
         \A i \in S : claim[i].pay.kind = "move",
         NEW sid, NEW refused, NEW mailboxes, NEW u \in Filed(S, sid, refused, mailboxes)
  PROVE  log[u].pay.kind # "create"
<1>1. PICK i \in S : u = claim[i].uid
  BY DEF Filed
<1> QED BY <1>1, ClaimedKinds

\* A create lands by the request of its turn: the server has none of its name
\* and parent and makes it, or has exactly one and the pass adopts it.
LEMMA Lands ==
  ASSUME TypeOK, References, Plain, Undisturbed, [Next]_vars,
         NEW u \in applied', u \notin applied, log[u].pay.kind = "create"
  PROVE  \E c \in Least(Undecided) :
           /\ c \in DOMAIN claim /\ claim[c].uid = u /\ IsCreate(c) /\ up /\ UNCHANGED log
           /\ \/ boxes' = Made(c) /\ Refusers(claim[c].pay.name, Target(c)) = {}
              \/ /\ UNCHANGED boxes
                 /\ Cardinality(FindMailboxes(claim[c].pay.name, Target(c))) = 1
<1>1. \A c : Group(c) \in SUBSET DOMAIN claim /\ \A i \in Group(c) : claim[i].pay.kind = "move"
  BY DEF Group
<1>2. \A c, sid, refused, mailboxes : u \notin Filed(Group(c), sid, refused, mailboxes)
  BY <1>1, FiledMoves
<1>3. \A c, sid, refused, mailboxes, S : S \in {{}, Group(c)} => u \notin Filed(S, sid, refused, mailboxes)
  BY <1>2 DEF Filed
<1>4. CASE MoveCall
  <2>1. PICK c \in Undecided :
          /\ claim[c].pay.kind = "move"
          /\ \E sid, refused, mailboxes :
               applied' = applied \cup Filed({c}, sid, refused, mailboxes)
    BY <1>4 DEF MoveCall
  <2>2. {c} \in SUBSET DOMAIN claim /\ \A i \in {c} : claim[i].pay.kind = "move"
    BY <2>1 DEF Undecided
  <2> QED BY <2>1, <2>2, FiledMoves
<1>5. CASE Refile
  <2>1. \E c, sid, refused, mailboxes :
          applied' = applied \cup Filed(Group(c), sid, refused, mailboxes)
    BY <1>5, Zenon DEF Refile
  <2> QED BY <1>2, <2>1
<1>6. CASE CreateCall
  <2>1. PICK c \in Undecided :
          /\ c \in Least(Undecided) /\ IsCreate(c) /\ up /\ boxes' = Made(c)
          /\ Refusers(claim[c].pay.name, Target(c)) = {}
          /\ \E S \in {{}, Group(c)} : \E sid, refused, mailboxes :
               applied' = applied \cup {claim[c].uid} \cup Filed(S, sid, refused, mailboxes)
    BY <1>6, Zenon DEF CreateCall, Calling, Turn
  <2>2. UNCHANGED log /\ c \in DOMAIN claim
    BY <1>6 DEF CreateCall, table, Undecided
  <2>3. u = claim[c].uid
    BY <1>3, <2>1
  <2> QED BY <2>1, <2>2, <2>3
<1>7. CASE Adopt
  <2>1. PICK c \in Undecided :
          /\ c \in Least(Undecided) /\ up /\ phase = "adopt"
          /\ Cardinality(FindMailboxes(claim[c].pay.name, Target(c))) = 1
          /\ applied' = applied \cup {claim[c].uid}
    BY <1>7 DEF Adopt, Turn
  <2>2. UNCHANGED <<log, boxes>> /\ c \in DOMAIN claim
    BY <1>7 DEF Adopt, table, Undecided
  <2>3. u = claim[c].uid
    BY <2>1
  <2>4. IsCreate(c)
    BY <2>2, <2>3 DEF References, Refers, IsCreate
  <2> QED BY <2>1, <2>2, <2>3, <2>4
<1>8. CASE ~(MoveCall \/ Refile \/ CreateCall \/ Adopt)
  <2>1. UNCHANGED applied
    BY <1>8, PlainSteps DEF Next, Callers, EnqueueSingle, BulkStart, BulkChunk, BulkFails,
       Compensate, Undo, Dispatch, Probe, Claim, ClaimFails, Abandon, FailUnsent, CallFails,
       CreateRefused, Replay, Persist, ResolvePage, ResolveEnd, RecordFails, Finalize,
       FinalizeFails, Recover, RecoverFails, Tick, Crash, Restart, SyncPull, vars, server
  <2> QED BY <2>1
<1> QED BY <1>4, <1>5, <1>6, <1>7, <1>8

\* The two counts of FindMailboxes' answer that matter.
LEMMA FoundOne ==
  ASSUME TypeOK, NEW name, NEW parent
  PROVE  Cardinality(FindMailboxes(name, parent)) = 1 <=> \E s : Sole(boxes, name, parent, s)
<1> DEFINE found == FindMailboxes(name, parent)
<1>1. IsFiniteSet(found)
  <2>1. nextSid - 1 \in Int /\ DOMAIN boxes \subseteq 1..(nextSid - 1)
    BY DEF TypeOK, ServerOK
  <2>2. IsFiniteSet(1..(nextSid - 1))
    BY <2>1, FS_Interval
  <2>3. found \in SUBSET (1..(nextSid - 1))
    BY <2>1 DEF FindMailboxes
  <2> QED BY <2>2, <2>3, FS_Subset
<1>2. \A s : found = {s} <=> Sole(boxes, name, parent, s)
  BY DEF FindMailboxes, Sole
<1>3. Cardinality(found) = 1 <=> \E s : found = {s}
  <2> HIDE DEF found
  <2> QED BY <1>1, FS_Singleton
<1> QED BY <1>2, <1>3

\* The server makes no second mailbox of a name and parent it holds.
LEMMA SoleKept ==
  ASSUME TypeOK, References, Plain, Undisturbed, [Next]_vars, NEW name, NEW parent, NEW s,
         Sole(boxes, name, parent, s)
  PROVE  Sole(boxes', name, parent, s)
<1>1. CASE UNCHANGED boxes
  BY <1>1
<1>2. CASE CreateCall
  <2>1. PICK c : /\ boxes' = Made(c)
                 /\ Refusers(claim[c].pay.name, Target(c)) = {}
    BY <1>2, Zenon DEF CreateCall
  <2>2. nextSid \notin DOMAIN boxes
    BY DEF TypeOK, ServerOK
  <2>3. /\ DOMAIN boxes' = DOMAIN boxes \cup {nextSid}
        /\ \A t \in DOMAIN boxes : boxes'[t] = boxes[t]
        /\ boxes'[nextSid].name = claim[c].pay.name /\ boxes'[nextSid].parent = Target(c)
    BY <2>1, <2>2 DEF Made, Put
  <2>4. ~(claim[c].pay.name = name /\ Target(c) = parent)
    BY <2>1 DEF Refusers, Sole
  <2> QED BY <2>3, <2>4 DEF Sole
<1> QED BY <1>1, <1>2, PlainSteps

LEMMA NextLanded ==
  ASSUME TypeOK, Resolved, Plain, ClaimsFit, Landed, Undisturbed, [Next]_vars
  PROVE  Landed'
<1> SUFFICES ASSUME NEW u \in applied', log'[u].pay.kind = "create"
             PROVE  \E s : Sole(boxes', log'[u].pay.name, log'[u].pay.box, s)
  BY DEF Landed
<1>1. CASE u \in applied
  <2>1. u \in DOMAIN log /\ log'[u].pay = log[u].pay
    BY <1>1, NextKeepsEntries DEF TypeOK, ServerOK, EntriesKept
  <2>2. PICK s : Sole(boxes, log[u].pay.name, log[u].pay.box, s)
    BY <1>1, <2>1 DEF Landed
  <2>3. Sole(boxes', log[u].pay.name, log[u].pay.box, s)
    BY <2>2, SoleKept DEF Resolved
  <2> QED BY <2>1, <2>3
<1>2. CASE u \notin applied
  <2>1. log[u].pay.kind = "create" /\ log'[u].pay = log[u].pay
    <3>1. UNCHANGED log \/ UNCHANGED applied
      BY DEF Next, Callers, EnqueueSingle, BulkStart, BulkChunk, BulkFails, Compensate, Undo,
         Dispatch, Probe, Claim, ClaimFails, Abandon, FailUnsent, CallFails,
         MoveCall, CreateCall, CreateRefused, Adopt, Refile, RenameCall, DeleteCall,
         Replay, Persist, ResolvePage, ResolveEnd, RecordFails, Finalize, FinalizeFails, Recover,
         RecoverFails, Tick, Crash, Restart, SyncPull, OtherClient, vars, server, table
    <3> QED BY <1>2, <3>1
  <2>2. PICK c \in Least(Undecided) :
           /\ c \in DOMAIN claim /\ claim[c].uid = u /\ IsCreate(c)
           /\ \/ boxes' = Made(c) /\ Refusers(claim[c].pay.name, Target(c)) = {}
              \/ /\ UNCHANGED boxes
                 /\ Cardinality(FindMailboxes(claim[c].pay.name, Target(c))) = 1
    BY <1>2, <2>1, Lands DEF Resolved
  <2>3. claim[c].pay.name = log[u].pay.name /\ Target(c) = log[u].pay.box
    BY <2>2, CreateTarget
  <2>4. CASE /\ UNCHANGED boxes
             /\ Cardinality(FindMailboxes(claim[c].pay.name, Target(c))) = 1
    BY <2>1, <2>3, <2>4, FoundOne
  <2>5. CASE boxes' = Made(c) /\ Refusers(claim[c].pay.name, Target(c)) = {}
    <3>1. nextSid \notin DOMAIN boxes
      BY DEF TypeOK, ServerOK
    <3>2. /\ DOMAIN boxes' = DOMAIN boxes \cup {nextSid}
          /\ \A t \in DOMAIN boxes : boxes'[t] = boxes[t]
          /\ boxes'[nextSid].name = claim[c].pay.name /\ boxes'[nextSid].parent = Target(c)
      BY <2>5, <3>1 DEF Made, Put
    <3>3. \A t \in DOMAIN boxes : ~(boxes[t].name = claim[c].pay.name /\ boxes[t].parent = Target(c))
      BY <2>5 DEF Refusers
    <3>4. Sole(boxes', claim[c].pay.name, Target(c), nextSid)
      BY <3>2, <3>3 DEF Sole
    <3> QED BY <2>1, <2>3, <3>4
  <2> QED BY <2>2, <2>4, <2>5
<1> QED BY <1>1, <1>2

\* What the pass has decided is out of the server's reach: the only create a
\* request can make is the one whose turn it is.
LEMMA DecidedStays ==
  ASSUME TypeOK, Disciplined, NothingLost, References, Plain, Undisturbed, [Next]_vars,
         phase \notin {"idle", "claim"},
         NEW c \in DOMAIN decided, IsCreate(c), claim[c].uid \in applied'
  PROVE  claim[c].uid \in applied
<1> SUFFICES ASSUME claim[c].uid \notin applied PROVE FALSE
  OBVIOUS
<1>1. c \in DOMAIN claim
  BY DEF Disciplined, PassShape
<1>2. log[claim[c].uid].pay.kind = "create"
  BY <1>1, ClaimedKinds DEF IsCreate
<1>3. PICK d \in Least(Undecided) : d \in DOMAIN claim /\ claim[d].uid = claim[c].uid /\ up
  BY <1>2, Lands
<1>4. rows[c].uid = rows[d].uid /\ c \in DOMAIN rows /\ d \in DOMAIN rows
  BY <1>1, <1>3 DEF Disciplined, ClaimDiscipline, Dispatching
<1>5. c = d
  BY <1>4 DEF NothingLost
<1> QED BY <1>3, <1>5 DEF Least, Undecided

\* The pass settles on d, which gives up no create that has landed.
LEMMA DecideKeepsPlan ==
  ASSUME PlanKeeps, UNCHANGED claim, phase \notin {"idle", "claim"},
         \A c \in DOMAIN decided :
           IsCreate(c) /\ claim[c].uid \in applied' => claim[c].uid \in applied,
         NEW d, Decide(d), GivenUp(d, applied')
  PROVE  PlanKeeps'
<1>1. /\ DOMAIN decided' = DOMAIN decided \cup DOMAIN d
      /\ \A i \in DOMAIN decided' : decided'[i] = IF i \in DOMAIN d THEN d[i] ELSE decided[i]
  BY DEF Decide, Over
<1> QED BY <1>1 DEF PlanKeeps, GivenUp, IsCreate

\* It settles on one decision that keeps the rows, or is about no create.
LEMMA DecideAllKeepsPlan ==
  ASSUME PlanKeeps, UNCHANGED claim, phase \notin {"idle", "claim"},
         \A c \in DOMAIN decided :
           IsCreate(c) /\ claim[c].uid \in applied' => claim[c].uid \in applied,
         NEW S, NEW x, DecideAll(S, x), x.verb # "delete" \/ \A c \in S : ~IsCreate(c)
  PROVE  PlanKeeps'
<1>1. GivenUp([i \in S |-> x], applied')
  BY DEF GivenUp
<1> HIDE DEF PlanKeeps
<1> QED BY <1>1, DecideKeepsPlan DEF DecideAll

LEMMA PlanStays ==
  ASSUME PlanKeeps, UNCHANGED <<claim, decided>>, phase \notin {"idle", "claim"},
         \A c \in DOMAIN decided :
           IsCreate(c) /\ claim[c].uid \in applied' => claim[c].uid \in applied
  PROVE  PlanKeeps'
  BY DEF PlanKeeps, GivenUp, IsCreate

LEMMA KeepingVerbs ==
  /\ Reverted.verb # "delete"
  /\ \A class : class # "not_found" => Failed(class).verb # "delete"
  BY DEF Reverted, Failed

LEMMA AttemptKeepsPlan ==
  ASSUME TypeOK, Disciplined, NothingLost, Resolved, Plain, ClaimsFit, Landed, PlanKeeps,
         Undisturbed,
         \/ Abandon \/ FailUnsent \/ CallFails \/ MoveCall \/ CreateCall \/ CreateRefused
         \/ Adopt \/ Refile \/ RenameCall \/ DeleteCall \/ Replay \/ ResolveEnd \/ RecordFails
  PROVE  PlanKeeps'
<1>1. UNCHANGED <<rows, log, claim>>
  BY DEF Abandon, FailUnsent, CallFails, MoveCall, CreateCall, CreateRefused,
     Adopt, Refile, RenameCall, DeleteCall, Replay, ResolveEnd, RecordFails, table
<1>2. phase \notin {"idle", "claim"} /\ [Next]_vars
  BY DEF Abandon, FailUnsent, CallFails, MoveCall, CreateCall, CreateRefused,
     Adopt, Refile, RenameCall, DeleteCall, Replay, ResolveEnd, RecordFails, Turn, Calling,
     Next, Dispatch
<1>3. References /\ Underway
  BY DEF Resolved, Resolving
<1>4. \A c \in DOMAIN decided :
         IsCreate(c) /\ claim[c].uid \in applied' => claim[c].uid \in applied
  BY <1>2, <1>3, DecidedStays
<1>5. \A c : \A i \in Group(c) : ~IsCreate(i)
  BY DEF Group, IsCreate
<1>6. CASE Abandon
  BY <1>1, <1>2, <1>4, <1>6, KeepingVerbs, DecideAllKeepsPlan DEF Abandon
<1>7. CASE FailUnsent
  <2>1. PICK c \in Undecided : /\ claim[c].preFailed \/ claim[c].pay.kind = "move"
                               /\ DecideAll({c}, Failed("not_found"))
    BY <1>7 DEF FailUnsent
  <2>2. ~IsCreate(c)
    BY <2>1 DEF Plain, IsCreate, Undecided
  <2> QED BY <1>1, <1>2, <1>4, <2>1, <2>2, DecideAllKeepsPlan
<1>8. CASE CallFails \/ RecordFails
  <2>1. \E c, class : DecideAll(Members(c), Failed(class)) /\ class # "not_found"
    <3>1. CASE CallFails
      <4>1. PICK c \in Undecided, class \in Refusals : DecideAll(Members(c), Failed(class))
        BY <3>1, Zenon DEF CallFails
      <4> QED BY <4>1 DEF Undisturbed
    <3>2. CASE RecordFails
      <4>1. PICK c \in Undecided : DecideAll(Members(c), Failed("store_local"))
        BY <3>2, Zenon DEF RecordFails
      <4>2. "store_local" # "not_found"
        OBVIOUS
      <4> QED BY <4>1, <4>2
    <3> QED BY <1>8, <3>1, <3>2
  <2> QED BY <1>1, <1>2, <1>4, <2>1, KeepingVerbs, DecideAllKeepsPlan
<1>9. CASE MoveCall
  <2>1. PICK c \in Undecided : 
          /\ ~IsCreate(c)
          /\ \/ \E refused : \E d \in Results({c}, Target(c), refused, boxes) : Decide(d)
             \/ DecideAll({c}, Failed("connection"))
    BY <1>9 DEF MoveCall, IsCreate
  <2>2. CASE DecideAll({c}, Failed("connection"))
    BY <1>1, <1>2, <1>4, <2>1, <2>2, DecideAllKeepsPlan
  <2>3. CASE \E refused : \E d \in Results({c}, Target(c), refused, boxes) : Decide(d)
    <3>1. PICK d : Decide(d) /\ DOMAIN d = {c}
      BY <2>3, ResultsTyped
    <3>2. GivenUp(d, applied')
      BY <2>1, <3>1 DEF GivenUp
    <3> QED BY <1>1, <1>2, <1>4, <3>1, <3>2, DecideKeepsPlan
  <2> QED BY <2>1, <2>2, <2>3
<1>10. CASE CreateCall \/ Refile
  <2>1. PICK c \in Undecided :
          DecideAll(Members(c), Failed("connection")) \/ UNCHANGED decided
    BY <1>10, Zenon DEF CreateCall, Refile
  <2> QED BY <1>1, <1>2, <1>4, <2>1, KeepingVerbs, DecideAllKeepsPlan, PlanStays
<1>11. CASE CreateRefused
  <2>1. PICK c \in Undecided :
          DecideAll(Members(c), Failed("server")) \/ UNCHANGED decided
    BY <1>11 DEF CreateRefused
  <2> QED BY <1>1, <1>2, <1>4, <2>1, KeepingVerbs, DecideAllKeepsPlan, PlanStays
<1>12. CASE Adopt
  <2>1. PICK c \in Undecided :
          /\ c \in Least(Undecided) /\ phase = "adopt"
          /\ \/ UNCHANGED decided
             \/ /\ Cardinality(FindMailboxes(claim[c].pay.name, Target(c))) # 1
                /\ DecideAll(Members(c), Refused("server")) /\ UNCHANGED applied
    BY <1>12 DEF Adopt, Turn
  <2>2. CASE UNCHANGED decided
    BY <1>1, <1>2, <1>4, <2>2, PlanStays
  <2>3. CASE /\ Cardinality(FindMailboxes(claim[c].pay.name, Target(c))) # 1
             /\ DecideAll(Members(c), Refused("server")) /\ UNCHANGED applied
    <3>1. IsCreate(c) /\ c \in DOMAIN claim
      BY <1>3, <2>1 DEF Underway, Undecided
    <3>2. claim[c].uid \notin applied
      BY <2>3, <3>1, CreateTarget, FoundOne DEF Landed
    <3>3. GivenUp([i \in Members(c) |-> Refused("server")], applied')
      BY <1>5, <2>3, <3>2 DEF GivenUp, Members
    <3> QED BY <1>1, <1>2, <1>4, <2>3, <3>3, DecideKeepsPlan DEF DecideAll
  <2> QED BY <2>1, <2>2, <2>3
<1>13. CASE Replay
  BY <1>1, <1>2, <1>4, <1>13, PlanStays DEF Replay
<1>14. CASE ResolveEnd
  <2>1. PICK c \in Undecided : phase = "resolve" /\ Decide(Put(out, c, Delivered))
    BY <1>14 DEF ResolveEnd, Turn
  <2>2. \A i \in DOMAIN out : ~IsCreate(i)
    BY <1>3, <2>1 DEF Underway
  <2>3. GivenUp(Put(out, c, Delivered), applied')
    BY <2>2 DEF GivenUp, Put, Delivered
  <2> QED BY <1>1, <1>2, <1>4, <2>1, <2>3, DecideKeepsPlan
<1>15. ~RenameCall /\ ~DeleteCall
  BY <1>2, <1>3, PlainSteps
<1> QED BY <1>6, <1>7, <1>8, <1>9, <1>10, <1>11, <1>12, <1>13, <1>14, <1>15

LEMMA NextKeepsPlan ==
  ASSUME TypeOK, Disciplined, NothingLost, Resolved, Plain, ClaimsFit, Landed, PlanKeeps,
         Undisturbed, [Next]_vars
  PROVE  PlanKeeps'
<1>1. CASE \/ Abandon \/ FailUnsent \/ CallFails \/ MoveCall \/ CreateCall \/ CreateRefused
           \/ Adopt \/ Refile \/ RenameCall \/ DeleteCall \/ Replay \/ ResolveEnd \/ RecordFails
  BY <1>1, AttemptKeepsPlan
<1>2. CASE \/ Callers \/ Persist \/ ResolvePage \/ FinalizeFails \/ Tick \/ Restart \/ SyncPull
           \/ OtherClient \/ UNCHANGED vars
  <2>1. /\ UNCHANGED <<claim, decided, applied>>
        /\ phase' \in {"idle", "claim"} \/ phase \notin {"idle", "claim"}
    BY <1>2 DEF Callers, EnqueueSingle, BulkStart, BulkChunk, BulkFails, Compensate, Undo,
       Persist, ResolvePage, FinalizeFails, Deciding, Turn,
       Tick, Restart, SyncPull, OtherClient, vars, pass, server
  <2> QED BY <2>1, PlanStays DEF PlanKeeps
<1>3. CASE Probe \/ ClaimFails \/ Finalize \/ Recover \/ RecoverFails \/ Crash
  <2>1. phase' \in {"idle", "claim"}
    BY <1>3 DEF Probe, ClaimFails, Finalize, Recover, RecoverFails, Crash
  <2> QED BY <2>1 DEF PlanKeeps
<1>4. CASE Claim
  <2>1. DOMAIN decided' = {}
    BY <1>4, EmptyTyped DEF Claim
  <2> QED BY <2>1 DEF PlanKeeps, GivenUp
<1> QED BY <1>1, <1>2, <1>3, <1>4 DEF Next, Dispatch

\* A create fails for good by the finalize of a pass that gave it up, and one
\* that has failed is in no pass.
LEMMA NextSucceeds ==
  ASSUME TypeOK, Disciplined, NothingLost, Resolved, Plain, PlanKeeps, LandedCreateSucceeds,
         Undisturbed, [Next]_vars
  PROVE  LandedCreateSucceeds'
<1> SUFFICES ASSUME NEW u \in DOMAIN log', log'[u].pay.kind = "create",
                    log'[u].fate = "failed", u \in applied'
             PROVE  FALSE
  BY DEF LandedCreateSucceeds
<1>1. References
  BY DEF Resolved
<1>2. CASE Finalize
  <2>1. /\ UNCHANGED applied /\ up /\ phase = "dispatch" /\ Undecided = {}
        /\ DOMAIN log' = DOMAIN log
    BY <1>2, FinalizeFates DEF Finalize, Deciding, server
  <2>2. log[u].pay.kind = "create" /\ log[u].fate # "failed"
    <3>1. log'[u].pay = log[u].pay
      BY <2>1, NextKeepsEntries DEF EntriesKept
    <3> QED BY <2>1, <3>1 DEF LandedCreateSucceeds
  <2>3. PICK i \in Leaving \cap DOMAIN rows : rows[i].uid = u /\ decided[i].why # "delivered"
    BY <1>2, <2>1, <2>2, FinalizeFates
  <2>4. i \in DOMAIN decided /\ decided[i].verb = "delete" /\ i \in DOMAIN claim
    BY <2>1, <2>3 DEF Leaving, Disciplined, PassShape
  <2>5. claim[i].uid = u
    BY <2>1, <2>3, <2>4 DEF Disciplined, ClaimDiscipline
  <2>6. IsCreate(i)
    BY <1>1, <2>2, <2>4, <2>5, ClaimedKinds DEF IsCreate
  <2> QED BY <2>1, <2>3, <2>4, <2>5, <2>6 DEF PlanKeeps, GivenUp
<1>3. CASE ~Finalize
  <2>1. u \in DOMAIN log /\ log[u].fate = "failed"
    BY <1>3, NextDelivers
  <2>2. log[u].pay.kind = "create"
    BY <2>1, NextKeepsEntries DEF EntriesKept
  <2>3. u \notin applied
    BY <2>1, <2>2 DEF LandedCreateSucceeds
  <2>4. PICK c \in DOMAIN claim : claim[c].uid = u /\ up
    BY <1>1, <2>2, <2>3, Lands
  <2>5. c \in DOMAIN rows /\ rows[c].uid = u
    BY <2>4 DEF Disciplined, ClaimDiscipline, Dispatching
  <2> QED BY <2>1, <2>5 DEF NothingLost
<1> QED BY <1>2, <1>3

Succeeding == Plain /\ Landed /\ PlanKeeps /\ LandedCreateSucceeds

\* A create whose mailbox the server has made is never given up, where callers
\* only create mailboxes in mailboxes of the store and move messages into them,
\* no other client changes the server, and it never answers that an object it
\* holds is missing: whatever answers are lost, transactions fail and processes
\* die, the replay finds the one mailbox of that name and parent and adopts it.
\* Each hypothesis is needed: a rename, a delete or another client can take the
\* mailbox away from the replay, a create under one not yet made is replayed
\* under another parent, and a "not found" ends an intent whatever it did.
THEOREM LandedCreatesSucceed ==
  ASSUME Undisturbed
  PROVE  Spec => []LandedCreateSucceeds
<1>1. Init => Succeeding
  <2> SUFFICES ASSUME Init PROVE Succeeding
    OBVIOUS
  <2>1. /\ DOMAIN claim = {} /\ DOMAIN log = {} /\ applied = {}
        /\ \A p \in Caller : bulk[p].left = {}
        /\ phase = "idle" /\ known = DOMAIN boxes
    <3>1. log = <<>> /\ claim = Empty
      BY DEF Init
    <3> QED BY <3>1, EmptySeq, LenProperties, EmptyTyped DEF Init, NoBulk
  <2> QED BY <2>1 DEF Succeeding, Plain, Landed, PlanKeeps, LandedCreateSucceeds
<1>2. TypeOK /\ Disciplined /\ NothingLost /\ Resolved /\ Fitting /\ Succeeding /\ [Next]_vars
        => Succeeding'
  BY NextPlain, NextLanded, NextKeepsPlan, NextSucceeds DEF Resolved, Fitting, Succeeding
<1>3. Spec => []Fitting
  BY FittingAlways DEF Undisturbed
<1>4. Succeeding => LandedCreateSucceeds
  BY DEF Succeeding
<1> QED BY <1>1, <1>2, <1>3, <1>4, TypeCorrect, DisciplinedAlways, NothingIsLost,
           ResolvedAlways, PTL DEF Spec
=============================================================================
