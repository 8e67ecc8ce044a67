---------------------------- MODULE OutboxProofs ----------------------------
(***************************************************************************)
(* Theorems about Outbox, for every value of its constants: its variables  *)
(* are well typed, no intent is lost or doubled, and a running pass and    *)
(* the rows in dispatching agree.                                          *)
(***************************************************************************)
EXTENDS Outbox, SequenceTheorems, WellFoundedInduction, TLAPS

-----------------------------------------------------------------------------
(* Numbers, functions and sequences. *)

\* A non-empty set of naturals has a least element, and Min is it.
LEMMA LeastNatural ==
  ASSUME NEW T \in SUBSET Nat, T # {}
  PROVE  Min(T) \in T /\ \A y \in T : Min(T) <= y
<1> DEFINE R == OpToRel(<, Nat)
<1>1. IsWellFoundedOn(R, Nat)
  BY NatLessThanWellFounded
<1>2. PICK x \in T : \A y \in T : ~(<<y, x>> \in R)
  <2> HIDE DEF R
  <2> QED BY <1>1, WFMin
<1>3. \A y \in T : <<y, x>> \in R <=> y < x
  BY DEF OpToRel
<1>4. ASSUME NEW y \in T PROVE x <= y
  <2>1. ~(y < x)
    <3> HIDE DEF R
    <3> QED BY <1>2, <1>3
  <2>2. x \in Nat /\ y \in Nat
    OBVIOUS
  <2> QED BY <2>1, <2>2
<1> QED BY <1>4 DEF Min

\* A bounded one has a greatest, and Max is it.
LEMMA GreatestNatural ==
  ASSUME NEW T \in SUBSET Nat, T # {}, NEW b \in Nat, \A x \in T : x <= b
  PROVE  Max(T) \in T /\ \A y \in T : y <= Max(T)
<1> DEFINE D == {b - x : x \in T}
<1>1. D \subseteq Nat
  <2> SUFFICES ASSUME NEW x \in T PROVE b - x \in Nat
    OBVIOUS
  <2> x \in Nat /\ x <= b
    OBVIOUS
  <2> QED OBVIOUS
<1>2. D # {}
  OBVIOUS
<1>3. PICK d \in D : \A e \in D : d <= e
  <2> HIDE DEF D
  <2> QED BY <1>1, <1>2, LeastNatural
<1>4. PICK x \in T : d = b - x
  OBVIOUS
<1>5. ASSUME NEW y \in T PROVE y <= x
  <2>1. b - y \in D
    OBVIOUS
  <2>2. b - x <= b - y
    BY <1>3, <1>4, <2>1
  <2>3. x \in Nat /\ y \in Nat
    OBVIOUS
  <2> QED BY <2>2, <2>3
<1> QED BY <1>5 DEF Max

LEMMA PutTyped ==
  ASSUME NEW S, NEW f, Functional(f, S), NEW x, NEW v \in S
  PROVE  Functional(Put(f, x, v), S)
  BY DEF Functional, Put

LEMMA PutDomain ==
  ASSUME NEW f, NEW x, NEW v
  PROVE  DOMAIN Put(f, x, v) = DOMAIN f \cup {x}
  BY DEF Put

LEMMA OverTyped ==
  ASSUME NEW S, NEW f, Functional(f, S), NEW g, Functional(g, S)
  PROVE  Functional(Over(f, g), S)
  BY DEF Functional, Over

LEMMA OverDomain ==
  ASSUME NEW f, NEW g
  PROVE  DOMAIN Over(f, g) = DOMAIN f \cup DOMAIN g
  BY DEF Over

LEMMA EmptyTyped ==
  ASSUME NEW S
  PROVE  Functional(Empty, S) /\ DOMAIN Empty = {}
  BY DEF Functional, Empty

\* A sequence rewritten in place is a sequence of the same length.
LEMMA MapSeq ==
  ASSUME NEW S, NEW s \in Seq(S), NEW t, t \in [DOMAIN s -> S]
  PROVE  t \in Seq(S) /\ Len(t) = Len(s) /\ DOMAIN t = DOMAIN s
<1>1. Len(s) \in Nat /\ DOMAIN s = 1..Len(s)
  BY LenProperties
<1>2. t \in [1..Len(s) -> S]
  BY <1>1
<1> QED BY <1>1, <1>2, IsASeq, LenProperties

\* The id the table gives next belongs to no row of it.
LEMMA NextIdFresh ==
  ASSUME TableOK
  PROVE  NextId \in 1..(Len(log) + 1) /\ NextId \notin DOMAIN rows
<1>1. Len(log) \in Nat
  BY LenProperties DEF TableOK
<1>2. CASE rows = Empty
  BY <1>1, <1>2, EmptyTyped DEF NextId
<1>3. CASE rows # Empty
  <2>1. DOMAIN rows # {}
    BY <1>3 DEF TableOK, Functional, Empty
  <2>2. DOMAIN rows \in SUBSET Nat /\ \A i \in DOMAIN rows : i <= Len(log)
    BY <1>1 DEF TableOK
  <2>3. Max(DOMAIN rows) \in DOMAIN rows /\ \A i \in DOMAIN rows : i <= Max(DOMAIN rows)
    BY <1>1, <2>1, <2>2, GreatestNatural
  <2>4. Max(DOMAIN rows) \in 1..Len(log)
    BY <2>3 DEF TableOK
  <2> QED BY <1>1, <1>3, <2>3, <2>4 DEF NextId
<1> QED BY <1>2, <1>3

-----------------------------------------------------------------------------
(* Types: what the parts of a step build. *)

\* The history of intents only grows.
LogGrows ==
  /\ Len(log) \in Nat /\ Len(log') \in Nat /\ Len(log) <= Len(log')
  /\ DOMAIN log = 1..Len(log) /\ DOMAIN log' = 1..Len(log')

LEMMA SameLog ==
  ASSUME TableOK, UNCHANGED log
  PROVE  LogGrows
  BY LenProperties DEF TableOK, LogGrows

\* A part of the state that a step leaves alone keeps its types.
LEMMA TableFrame == ASSUME TableOK, UNCHANGED table PROVE TableOK' /\ LogGrows
  BY SameLog DEF TableOK, table, Functional
LEMMA CallGrows == ASSUME LogGrows PROVE Call \subseteq Call'
  BY DEF Call, LogGrows
LEMMA CallerFrame == ASSUME CallerOK, LogGrows, UNCHANGED caller PROVE CallerOK'
<1>1. DOMAIN log \subseteq DOMAIN log'
  BY DEF LogGrows
<1> QED BY <1>1, CallGrows DEF CallerOK, caller
LEMMA PassFrame == ASSUME PassOK, LogGrows, UNCHANGED pass PROVE PassOK'
<1>1. DOMAIN log \subseteq DOMAIN log'
  BY DEF LogGrows
<1> QED BY <1>1 DEF PassOK, pass, Functional
LEMMA ServerFrame == ASSUME ServerOK, LogGrows, UNCHANGED server PROVE ServerOK'
<1>1. 0..Len(log) \subseteq 0..Len(log') /\ DOMAIN log \subseteq DOMAIN log'
  BY DEF LogGrows
<1> QED BY <1>1 DEF ServerOK, server, Functional
LEMMA LocalFrame == ASSUME LocalOK, UNCHANGED localcopy PROVE LocalOK'
  BY DEF LocalOK, localcopy
LEMMA LoopFrame == ASSUME LoopOK, UNCHANGED loop, faults' \in Nat PROVE LoopOK'
  BY DEF LoopOK, loop

LEMMA FaultCounted == ASSUME LoopOK, NEW k, Fault(k) PROVE faults' \in Nat
  BY DEF LoopOK, Fault

\* An action of a pass that leaves the table, the callers and the local copy
\* alone.
LEMMA PassActionTyped ==
  ASSUME TypeOK, UNCHANGED <<table, caller, localcopy>>, PassOK', ServerOK', LoopOK'
  PROVE  TypeOK'
<1>1. TableOK' /\ LogGrows
  BY TableFrame DEF TypeOK, table
<1>2. CallerOK' /\ LocalOK'
  BY <1>1, CallerFrame, LocalFrame DEF TypeOK
<1> QED BY <1>1, <1>2 DEF TypeOK

LEMMA FailedTyped ==
  ASSUME NEW class \in Classes
  PROVE  Failed(class) \in Decision /\ Refused(class) \in Decision
  BY DEF Failed, Refused, Decision, Classes

LEMMA FixedDecisions ==
  /\ Delivered \in Decision /\ Reverted \in Decision
  /\ Failed("not_found") \in Decision /\ Failed("server") \in Decision
  /\ Failed("connection") \in Decision /\ Failed("store_local") \in Decision
  /\ Refused("server") \in Decision
  BY FailedTyped DEF Delivered, Reverted, Decision, Classes

LEMMA DecideTyped ==
  ASSUME PassOK, NEW d, Functional(d, Decision), Decide(d)
  PROVE  Functional(decided', Decision) /\ stopped' \in BOOLEAN /\ phase' = "dispatch"
<1>1. Functional(decided', Decision)
  BY OverTyped DEF PassOK, Decide
<1>2. stopped' \in BOOLEAN
  BY Zenon DEF PassOK, Decide
<1> QED BY <1>1, <1>2 DEF Decide

LEMMA DecideAllTyped ==
  ASSUME PassOK, NEW S, NEW x \in Decision, DecideAll(S, x)
  PROVE  Functional(decided', Decision) /\ stopped' \in BOOLEAN /\ phase' = "dispatch"
<1>1. Functional([i \in S |-> x], Decision)
  BY DEF Functional
<1> QED BY <1>1, DecideTyped DEF DecideAll

\* The row and the entry an enqueue appends.
LEMMA InsertAppends ==
  ASSUME TypeOK, NEW req \in Requests, NEW msgs \in SUBSET Msg,
         NEW refUid \in 0..Len(log), NEW group \in Nat, NEW wait \in Nat,
         Insert(req, msgs, refUid, group, wait)
  PROVE  \E r \in Row, e \in Entry :
           /\ rows' = Put(rows, NextId, r) /\ r.uid = Len(log) + 1 /\ r.state = "queued"
           /\ log' = Append(log, e) /\ e.fate = "live" /\ e.refUid = refUid
<1> DEFINE refId == IF refUid = 0 THEN None ELSE log[refUid].id
           pay   == PayloadOf(req, msgs, refId)
           r == [uid |-> Len(log) + 1, pay |-> pay, state |-> "queued",
                 wait |-> wait, attempt |-> 1, class |-> "none"]
           e == [id |-> NextId, group |-> IF group = 0 THEN Len(log) + 1 ELSE group,
                 pay |-> pay, refUid |-> refUid, fate |-> "live",
                 late |-> refUid # 0 /\ ~(IsQueued(refId) /\ rows[refId].uid = refUid)]
<1>1. rows' = Put(rows, NextId, r) /\ log' = Append(log, e)
  BY DEF Insert
<1>2. Len(log) \in Nat /\ DOMAIN log = 1..Len(log) /\ NextId \in Nat
  BY LenProperties, NextIdFresh DEF TypeOK, TableOK
<1>3. refId \in Nat
  <2>1. CASE refUid = 0
    BY <2>1 DEF None
  <2>2. CASE refUid # 0
    <3>1. log[refUid] \in Entry
      BY <1>2, <2>2, ElementOfSeq DEF TypeOK, TableOK
    <3> QED BY <2>2, <3>1 DEF Entry
  <2> QED BY <2>1, <2>2
<1>4. pay \in Payload
  <2>1. req.kind \in Kinds /\ req.name \in Name /\ req.box \in Nat
    BY RequestsAssumption
  <2> HIDE DEF refId
  <2> QED BY <1>3, <2>1 DEF PayloadOf, Payload, None
<1>5. r \in Row
  <2>1. 1 \in 1..Len(Delays)
    BY DelaysAssumption, LenProperties
  <2> HIDE DEF pay
  <2> QED BY <1>2, <1>4, <2>1 DEF Row
<1>6. e \in Entry
  <2>1. (refUid # 0 /\ ~(IsQueued(refId) /\ rows[refId].uid = refUid)) \in BOOLEAN
    OBVIOUS
  <2> HIDE DEF pay, refId
  <2> QED BY <1>2, <1>4, <2>1 DEF Entry, Fates
<1> QED BY <1>1, <1>5, <1>6

LEMMA InsertTyped ==
  ASSUME TypeOK, NEW req \in Requests, NEW msgs \in SUBSET Msg,
         NEW refUid \in 0..Len(log), NEW group \in Nat, NEW wait \in Nat,
         Insert(req, msgs, refUid, group, wait)
  PROVE  TableOK' /\ LogGrows /\ Len(log') = Len(log) + 1
<1>1. PICK r \in Row, e \in Entry :
        /\ rows' = Put(rows, NextId, r) /\ r.uid = Len(log) + 1
        /\ log' = Append(log, e) /\ e.refUid = refUid
  BY InsertAppends
<1>2. /\ log' \in Seq(Entry) /\ Len(log') = Len(log) + 1
      /\ \A u \in 1..Len(log) : log'[u] = log[u]
      /\ log'[Len(log) + 1] = e
  BY <1>1, AppendProperties DEF TypeOK, TableOK
<1>3. Len(log) \in Nat /\ DOMAIN log = 1..Len(log) /\ DOMAIN log' = 1..(Len(log) + 1)
  BY <1>2, LenProperties DEF TypeOK, TableOK
<1>4. Functional(rows', Row) /\ DOMAIN rows' = DOMAIN rows \cup {NextId}
  <2>1. Functional(rows, Row)
    BY DEF TypeOK, TableOK
  <2>2. Functional(Put(rows, NextId, r), Row)
    BY <2>1, PutTyped
  <2>3. DOMAIN Put(rows, NextId, r) = DOMAIN rows \cup {NextId}
    BY PutDomain
  <2> QED BY <1>1, <2>2, <2>3 DEF Functional
<1>5. DOMAIN rows' \subseteq 1..Len(log')
  BY <1>2, <1>3, <1>4, NextIdFresh DEF TypeOK, TableOK
<1>6. \A i \in DOMAIN rows' : rows'[i].uid \in DOMAIN log'
  BY <1>1, <1>3, <1>4 DEF TypeOK, TableOK, Put
<1>7. \A u \in DOMAIN log' : log'[u].refUid \in 0..Len(log')
  BY <1>1, <1>2, <1>3 DEF TypeOK, TableOK
<1> QED BY <1>2, <1>3, <1>4, <1>5, <1>6, <1>7 DEF TableOK, LogGrows

\* A step that drops and rewrites rows, and rewrites entries of the history in
\* place, keeps the table well typed.
LEMMA TableRewritten ==
  ASSUME TableOK,
         Functional(rows', Row), DOMAIN rows' \subseteq DOMAIN rows,
         \A i \in DOMAIN rows' : rows'[i].uid = rows[i].uid,
         log' \in [DOMAIN log -> Entry],
         \A u \in DOMAIN log : log'[u].refUid = log[u].refUid
  PROVE  TableOK' /\ LogGrows
<1>1. Len(log) \in Nat /\ DOMAIN log = 1..Len(log)
  BY LenProperties DEF TableOK
<1>2. log' \in Seq(Entry) /\ Len(log') = Len(log) /\ DOMAIN log' = DOMAIN log
  BY MapSeq DEF TableOK
<1>3. \A i \in DOMAIN rows' : rows'[i].uid \in DOMAIN log'
  BY <1>2 DEF TableOK
<1>4. \A u \in DOMAIN log' : log'[u].refUid \in 0..Len(log')
  BY <1>2 DEF TableOK
<1>5. DOMAIN rows' \subseteq 1..Len(log')
  BY <1>2 DEF TableOK
<1> QED BY <1>1, <1>2, <1>3, <1>4, <1>5 DEF TableOK, LogGrows

LEMMA RowsRewritten ==
  ASSUME TableOK, UNCHANGED log,
         Functional(rows', Row), DOMAIN rows' \subseteq DOMAIN rows,
         \A i \in DOMAIN rows' : rows'[i].uid = rows[i].uid
  PROVE  TableOK' /\ LogGrows
<1>1. log \in [DOMAIN log -> Entry]
  BY LenProperties DEF TableOK
<1> QED BY <1>1, TableRewritten

-----------------------------------------------------------------------------
(* Types: callers. *)

LEMMA CallerActionTyped ==
  ASSUME TypeOK, TableOK', LogGrows, CallerOK', faults' \in Nat,
         UNCHANGED <<pass, loop, server, localcopy>>
  PROVE  TypeOK'
<1>1. PassOK' /\ ServerOK'
  BY PassFrame, ServerFrame DEF TypeOK
<1>2. LoopOK' /\ LocalOK'
  BY LoopFrame, LocalFrame DEF TypeOK
<1> QED BY <1>1, <1>2 DEF TypeOK

LEMMA EnqueueSingleTyped ==
  ASSUME TypeOK, NEW req \in Requests, EnqueueSingle(req)
  PROVE  TypeOK'
<1>1. PICK refUid \in 0..Len(log) : Insert(req, {}, refUid, 0, 0)
  BY DEF EnqueueSingle
<1>2. TableOK' /\ LogGrows /\ Len(log') = Len(log) + 1
  BY <1>1, InsertTyped
<1>3. CallerOK'
  <2>1. handle' \subseteq DOMAIN log'
    BY <1>2 DEF EnqueueSingle, TypeOK, CallerOK, LogGrows
  <2>2. Call \subseteq Call'
    BY <1>2, CallGrows
  <2> QED BY <2>1, <2>2 DEF EnqueueSingle, TypeOK, CallerOK
<1>4. faults' \in Nat
  BY DEF EnqueueSingle, TypeOK, LoopOK
<1> QED BY <1>2, <1>3, <1>4, CallerActionTyped DEF EnqueueSingle

LEMMA NoBulkTyped ==
  ASSUME TypeOK
  PROVE  NoBulk \in Call
<1>1. (CHOOSE req \in Requests : TRUE) \in Requests
  BY RequestsAssumption
<1>2. 0 \in 0..Len(log)
  BY LenProperties DEF TypeOK, TableOK
<1> QED BY <1>1, <1>2 DEF NoBulk, Call

\* A longer history leaves every call what it was.
LEMMA CallsKept ==
  ASSUME TypeOK, LogGrows, NEW p \in Caller, NEW call \in Call',
         bulk' = [bulk EXCEPT ![p] = call]
  PROVE  bulk' \in [Caller -> Call']
<1>1. bulk \in [Caller -> Call']
  BY CallGrows DEF TypeOK, CallerOK
<1> QED BY <1>1

LEMMA BulkStartTyped ==
  ASSUME TypeOK, NEW p \in Caller, NEW req \in Requests, BulkStart(p, req)
  PROVE  TypeOK'
<1>1. TableOK' /\ LogGrows
  BY TableFrame DEF TypeOK, BulkStart
<1>2. CallerOK'
  <2>1. PICK refUid \in 0..Len(log) :
          bulk' = [bulk EXCEPT ![p] =
                    [req |-> req, left |-> req.msgs, refUid |-> refUid, got |-> {}]]
    BY DEF BulkStart
  <2>2. req.msgs \subseteq Msg
    BY RequestsAssumption
  <2>3. log' = log /\ handle' = handle
    BY DEF BulkStart, table
  <2>4. [req |-> req, left |-> req.msgs, refUid |-> refUid, got |-> {}] \in Call'
    BY <2>1, <2>2, <2>3 DEF Call
  <2>5. bulk' \in [Caller -> Call']
    BY <1>1, <2>1, <2>4, CallsKept
  <2> QED BY <2>3, <2>5 DEF TypeOK, CallerOK
<1>3. faults' \in Nat
  BY DEF BulkStart, TypeOK, LoopOK
<1> QED BY <1>1, <1>2, <1>3, CallerActionTyped DEF BulkStart

LEMMA BulkChunkTyped ==
  ASSUME TypeOK, NEW p \in Caller, BulkChunk(p)
  PROVE  TypeOK'
<1> DEFINE call  == bulk[p]
           group == IF call.got = {} THEN 0 ELSE Min(call.got)
           wait  == IF call.req.undoable THEN Hold ELSE 0
<1>1. call \in Call
  BY DEF TypeOK, CallerOK
<1>a. /\ call.req \in Requests /\ call.left \subseteq Msg
      /\ call.refUid \in 0..Len(log) /\ call.got \subseteq DOMAIN log
  <2> HIDE DEF call
  <2> QED BY <1>1 DEF Call
<1>2. Len(log) \in Nat /\ DOMAIN log = 1..Len(log)
  BY LenProperties DEF TypeOK, TableOK
<1>3. group \in Nat /\ wait \in Nat
  <2>1. CASE call.got # {}
    <3>1. Min(call.got) \in call.got
      <4> HIDE DEF call
      <4> QED BY <1>a, <1>2, <2>1, LeastNatural
    <3> QED BY <1>a, <1>2, <3>1, DelaysAssumption
  <2> QED BY <2>1, DelaysAssumption
<1>4. PICK chunk \in SUBSET call.left :
        /\ Insert(call.req, chunk, call.refUid, group, wait)
        /\ \/ /\ bulk' = [bulk EXCEPT ![p] = NoBulk]
              /\ handle' = handle \cup call.got \cup {Len(log) + 1}
           \/ /\ bulk' = [bulk EXCEPT ![p] =
                           [call EXCEPT !.left = call.left \ chunk,
                                        !.got = call.got \cup {Len(log) + 1}]]
              /\ UNCHANGED handle
  BY DEF BulkChunk
<1>5. TableOK' /\ LogGrows /\ Len(log') = Len(log) + 1
  <2> HIDE DEF call, group, wait
  <2> QED BY <1>a, <1>3, <1>4, InsertTyped
<1>6. CallerOK'
  <2>1. DOMAIN log' = DOMAIN log \cup {Len(log) + 1} /\ 0..Len(log) \subseteq 0..Len(log')
    BY <1>2, <1>5 DEF LogGrows
  <2>2. handle' \subseteq DOMAIN log'
    <3> HIDE DEF call
    <3> QED BY <1>a, <1>4, <2>1 DEF TypeOK, CallerOK
  <2>3. NoBulk \in Call'
    BY <2>1, NoBulkTyped DEF Call
  <2>4. [call EXCEPT !.left = call.left \ chunk, !.got = call.got \cup {Len(log) + 1}] \in Call'
    <3> HIDE DEF call
    <3> QED BY <1>1, <1>a, <1>4, <2>1 DEF Call
  <2>5. bulk' \in [Caller -> Call']
    <3>1. PICK new \in Call' : bulk' = [bulk EXCEPT ![p] = new]
      BY <1>4, <2>3, <2>4
    <3> QED BY <1>5, <3>1, CallsKept
  <2> QED BY <2>2, <2>5 DEF CallerOK
<1>7. faults' \in Nat
  BY DEF BulkChunk, TypeOK, LoopOK
<1> QED BY <1>5, <1>6, <1>7, CallerActionTyped DEF BulkChunk

LEMMA BulkFailsTyped ==
  ASSUME TypeOK, NEW p \in Caller, BulkFails(p)
  PROVE  TypeOK'
<1>1. TableOK' /\ LogGrows
  BY TableFrame DEF TypeOK, BulkFails
<1>2. log' = log /\ handle' = handle
  BY DEF BulkFails, table
<1>3. CallerOK'
  <2>1. bulk[p] \in Call
    BY DEF TypeOK, CallerOK
  <2>2. NoBulk \in Call /\ [bulk[p] EXCEPT !.left = {}] \in Call
    BY <2>1, NoBulkTyped DEF Call
  <2>3. PICK new \in Call : bulk' = [bulk EXCEPT ![p] = new]
    BY <2>2 DEF BulkFails
  <2>4. Call' = Call
    BY <1>2 DEF Call
  <2>5. bulk' \in [Caller -> Call']
    BY <1>1, <2>3, <2>4, CallsKept
  <2> QED BY <1>2, <2>5 DEF TypeOK, CallerOK
<1>4. faults' \in Nat
  BY FaultCounted DEF BulkFails, TypeOK
<1> QED BY <1>1, <1>3, <1>4, CallerActionTyped DEF BulkFails

\* What an annihilating transaction does to the table and the history.
LEMMA AnnihilateTyped ==
  ASSUME TableOK, NEW ids, NEW meant, Annihilate(ids, meant)
  PROVE  TableOK' /\ LogGrows /\ DOMAIN log' = DOMAIN log
<1> DEFINE gone == {rows[i].uid : i \in Caught(ids)}
           fate(u) == IF u \in meant THEN "undone" ELSE "stray"
<1>1. rows' = [i \in DOMAIN rows \ Caught(ids) |-> rows[i]]
  BY DEF Annihilate, Restrict
<1>2. log' = [u \in DOMAIN log |-> IF u \notin gone THEN log[u]
                                   ELSE [log[u] EXCEPT !.fate = fate(u)]]
  BY DEF Annihilate
<1>3. \A u \in DOMAIN log : log[u] \in Entry
  BY LenProperties DEF TableOK
<1>4. log' \in [DOMAIN log -> Entry] /\ \A u \in DOMAIN log : log'[u].refUid = log[u].refUid
  <2>1. \A u : fate(u) \in Fates
    BY DEF Fates
  <2> HIDE DEF gone, fate
  <2>2. \A u \in DOMAIN log : /\ log'[u] \in Entry
                              /\ log'[u].refUid = log[u].refUid
    BY <1>2, <1>3, <2>1 DEF Entry
  <2> QED BY <1>2, <2>2
<1>5. /\ Functional(rows', Row) /\ DOMAIN rows' \subseteq DOMAIN rows
      /\ \A i \in DOMAIN rows' : rows'[i].uid = rows[i].uid
  BY <1>1 DEF TableOK, Functional
<1>6. TableOK' /\ LogGrows
  BY <1>4, <1>5, TableRewritten
<1> QED BY <1>2, <1>6

LEMMA CompensateTyped ==
  ASSUME TypeOK, NEW p \in Caller, Compensate(p)
  PROVE  TypeOK'
<1> DEFINE got == bulk[p].got
           ids == {log[u].id : u \in got}
<1>1. got \subseteq DOMAIN log /\ handle \subseteq DOMAIN log
  BY DEF TypeOK, CallerOK, Call
<1>2. /\ TableOK' /\ LogGrows /\ DOMAIN log' = DOMAIN log
      /\ handle' \subseteq DOMAIN log /\ faults' \in Nat
  <2>1. CASE Annihilate(ids, got) /\ handle' = handle \cup Escaped(got) /\ UNCHANGED faults
    <3>1. TableOK' /\ LogGrows /\ DOMAIN log' = DOMAIN log
      <4> HIDE DEF ids, got
      <4> QED BY <2>1, AnnihilateTyped DEF TypeOK
    <3> HIDE DEF got
    <3> QED BY <1>1, <2>1, <3>1 DEF Escaped, TypeOK, LoopOK
  <2>2. CASE Fault("tx") /\ handle' = handle \cup got /\ UNCHANGED table
    <3>1. TableOK' /\ LogGrows /\ faults' \in Nat
      BY <2>2, TableFrame, FaultCounted DEF TypeOK
    <3> QED BY <1>1, <2>2, <3>1 DEF table
  <2> QED BY <2>1, <2>2 DEF Compensate
<1>3. CallerOK'
  <2>1. NoBulk \in Call'
    BY <1>2, NoBulkTyped, CallGrows
  <2>2. bulk' = [bulk EXCEPT ![p] = NoBulk]
    BY DEF Compensate
  <2>3. bulk' \in [Caller -> Call']
    BY <1>2, <2>1, <2>2, CallsKept
  <2> QED BY <1>2, <2>3 DEF CallerOK
<1> QED BY <1>2, <1>3, CallerActionTyped DEF Compensate

LEMMA UndoTyped ==
  ASSUME TypeOK, NEW group, Undo(group)
  PROVE  TypeOK'
<1> DEFINE meant == {u \in handle : log[u].group = group}
           ids   == {log[u].id : u \in meant}
<1>1. Annihilate(ids, meant) /\ handle' \subseteq handle
  BY DEF Undo
<1>2. TableOK' /\ LogGrows /\ DOMAIN log' = DOMAIN log
  <2> HIDE DEF ids, meant
  <2> QED BY <1>1, AnnihilateTyped DEF TypeOK
<1>3. CallerOK'
  <2> QED BY <1>1, <1>2, CallGrows DEF Undo, TypeOK, CallerOK
<1>4. faults' \in Nat
  BY DEF Undo, TypeOK, LoopOK
<1> QED BY <1>2, <1>3, <1>4, CallerActionTyped DEF Undo

-----------------------------------------------------------------------------
(* Types: what a pass decides, and what its requests do to the server. *)

\* The moves that ride with a create are claimed.
LEMMA GroupClaimed ==
  ASSUME NEW c
  PROVE  Group(c) \subseteq DOMAIN claim
  BY DEF Group

LEMMA TargetTyped ==
  ASSUME PassOK, NEW c \in DOMAIN claim
  PROVE  Target(c) \in Nat
<1>1. claim[c] \in Claimed
  BY DEF PassOK, Functional
<1>2. claim[c].target \in Nat
  BY <1>1 DEF Claimed
<1>3. ASSUME NEW ref \in DOMAIN resolved PROVE resolved[ref] \in Nat
  BY DEF PassOK, Functional
<1> QED BY <1>2, <1>3 DEF Target

LEMMA FileTyped ==
  ASSUME TypeOK, NEW S \in SUBSET DOMAIN claim, NEW sid \in Nat, NEW refused,
         NEW mailboxes, File(S, sid, refused, mailboxes)
  PROVE  at' \in [Msg -> Nat] /\ mover' \in [Msg -> 0..Len(log)]
<1> DEFINE movers(m) == {claim[i].uid :
                           i \in {j \in S : m \in Movable(j, sid, refused, mailboxes)}}
<1>1. /\ at' = [m \in Msg |-> IF movers(m) # {} THEN sid ELSE at[m]]
      /\ mover' = [m \in Msg |-> IF movers(m) # {} THEN Max(movers(m)) ELSE mover[m]]
  BY DEF File
<1>2. Len(log) \in Nat /\ DOMAIN log = 1..Len(log)
  BY LenProperties DEF TypeOK, TableOK
<1>3. \A m \in Msg : movers(m) \subseteq 1..Len(log)
  BY <1>2 DEF TypeOK, PassOK
<1> HIDE DEF movers
<1>4. ASSUME NEW m \in Msg, movers(m) # {} PROVE Max(movers(m)) \in 0..Len(log)
  <2>1. movers(m) \in SUBSET Nat /\ \A x \in movers(m) : x <= Len(log)
    BY <1>2, <1>3
  <2>2. Max(movers(m)) \in movers(m)
    BY <1>2, <1>4, <2>1, GreatestNatural
  <2> QED BY <1>2, <1>3, <2>2
<1>5. at \in [Msg -> Nat] /\ mover \in [Msg -> 0..Len(log)]
  BY DEF TypeOK, ServerOK
<1> QED BY <1>1, <1>4, <1>5

LEMMA FiledTyped ==
  ASSUME TypeOK, NEW S \in SUBSET DOMAIN claim, NEW sid, NEW refused, NEW mailboxes
  PROVE  Filed(S, sid, refused, mailboxes) \subseteq DOMAIN log
  BY DEF Filed, TypeOK, PassOK

LEMMA ResultsTyped ==
  ASSUME NEW S, NEW sid, NEW refused, NEW mailboxes,
         NEW d \in Results(S, sid, refused, mailboxes)
  PROVE  Functional(d, Decision) /\ DOMAIN d = S
<1>1. \A m : Classify(m, refused) \in Classes
  BY DEF Classify, Classes
<1>2. ASSUME NEW i PROVE Outcomes(i, sid, refused, mailboxes) \subseteq Decision
  <2>1. \A m : Failed(Classify(m, refused)) \in Decision
    BY <1>1, FailedTyped
  <2> QED BY <2>1, FixedDecisions DEF Outcomes
<1>3. DOMAIN d = S /\ \A i \in S : d[i] \in Outcomes(i, sid, refused, mailboxes)
  BY DEF Results
<1>4. d = [i \in DOMAIN d |-> d[i]]
  BY DEF Results
<1> QED BY <1>2, <1>3, <1>4 DEF Functional

\* A mailbox the server makes, and those it loses.
LEMMA MadeTyped ==
  ASSUME TypeOK, NEW c \in DOMAIN claim, boxes' = Made(c), nextSid' = nextSid + 1
  PROVE  /\ nextSid' \in Nat \ {0} /\ DOMAIN boxes' \subseteq 1..(nextSid' - 1)
         /\ Functional(boxes', [name : Name, parent : Nat, by : Nat])
<1> DEFINE box == [name |-> claim[c].pay.name, parent |-> Target(c), by |-> claim[c].uid]
<1>1. claim[c] \in Claimed
  BY DEF TypeOK, PassOK, Functional
<1>2. claim[c].pay.name \in Name /\ claim[c].uid \in Nat
  BY <1>1 DEF Claimed, Payload
<1>3. box \in [name : Name, parent : Nat, by : Nat]
  BY <1>2, TargetTyped DEF TypeOK
<1> HIDE DEF box
<1>4. boxes' = Put(boxes, nextSid, box)
  BY DEF Made, box
<1>5. Functional(boxes', [name : Name, parent : Nat, by : Nat])
  <2>1. Functional(boxes, [name : Name, parent : Nat, by : Nat])
    BY DEF TypeOK, ServerOK
  <2> QED BY <1>3, <1>4, <2>1 DEF Functional, Put
<1>6. DOMAIN boxes' = DOMAIN boxes \cup {nextSid}
  BY <1>4, PutDomain
<1> QED BY <1>5, <1>6 DEF TypeOK, ServerOK

LEMMA LostTyped ==
  ASSUME ServerOK, NEW s, boxes' = Restrict(boxes, DOMAIN boxes \ {s})
  PROVE  /\ DOMAIN boxes' \subseteq DOMAIN boxes
         /\ Functional(boxes', [name : Name, parent : Nat, by : Nat])
  BY DEF ServerOK, Functional, Restrict

-----------------------------------------------------------------------------
(* Types: the dispatcher. *)

LEMMA ProbeTyped ==
  ASSUME TypeOK, Probe
  PROVE  TypeOK'
<1>1. LogGrows
  BY SameLog DEF TypeOK, Probe, table
<1>2. PassOK'
  BY DEF Probe, TypeOK, PassOK, table, Functional
<1>3. LoopOK' /\ ServerOK'
  BY <1>1, ServerFrame DEF Probe, TypeOK, LoopOK
<1> QED BY <1>2, <1>3, PassActionTyped DEF Probe

LEMMA ClaimTyped ==
  ASSUME TypeOK, Claim
  PROVE  TypeOK'
<1>1. Claimable \subseteq DOMAIN rows
  BY DEF Claimable, Eligible
<1>2. \A i \in DOMAIN rows : rows[i] \in Row
  BY DEF TypeOK, TableOK, Functional
<1>3. TableOK' /\ LogGrows
  <2>1. rows' = [i \in DOMAIN rows |->
                   IF i \in Claimable THEN [rows[i] EXCEPT !.state = "dispatching"]
                                      ELSE rows[i]]
    BY DEF Claim
  <2>2. \A i \in DOMAIN rows : rows'[i] \in Row /\ rows'[i].uid = rows[i].uid
    BY <1>2, <2>1 DEF Row
  <2>3. Functional(rows', Row) /\ DOMAIN rows' = DOMAIN rows
    BY <2>1, <2>2 DEF Functional
  <2> QED BY <2>2, <2>3, RowsRewritten DEF TypeOK, Claim
<1>4. PassOK'
  <2>1. claim' = [i \in Claimable |-> ResolveClaim(rows[i])]
    BY DEF Claim
  <2>2. \A r \in Row : ResolveClaim(r) \in Claimed /\ ResolveClaim(r).uid = r.uid
    BY DEF ResolveClaim, Row, Claimed, Payload
  <2>3. Functional(claim', Claimed) /\ DOMAIN claim' = Claimable
    BY <1>1, <1>2, <2>1, <2>2 DEF Functional
  <2>4. \A i \in DOMAIN claim' : claim'[i].uid \in DOMAIN log'
    BY <1>1, <1>2, <2>1, <2>2 DEF TypeOK, TableOK, Claim
  <2>5. Functional(Empty, Decision) /\ Functional(Empty, Nat)
    BY EmptyTyped
  <2>6. DOMAIN claim' \subseteq Nat \ {0}
    BY <1>1, <2>3 DEF TypeOK, TableOK
  <2>7. /\ decided' = Empty /\ resolved' = Empty /\ stopped' = FALSE
        /\ phase' \in {"idle", "dispatch"} /\ UNCHANGED <<newSid, out, after>>
    BY DEF Claim
  <2> QED BY <2>3, <2>4, <2>5, <2>6, <2>7 DEF TypeOK, PassOK, Functional
<1>5. CallerOK' /\ ServerOK' /\ LoopOK' /\ LocalOK'
  <2>1. UNCHANGED <<caller, loop, server, localcopy, faults>>
    BY DEF Claim
  <2> QED BY <1>3, <2>1, CallerFrame, ServerFrame, LoopFrame, LocalFrame DEF TypeOK, LoopOK
<1> QED BY <1>3, <1>4, <1>5 DEF TypeOK

LEMMA ClaimFailsTyped ==
  ASSUME TypeOK, ClaimFails
  PROVE  TypeOK'
<1>1. LogGrows
  BY SameLog DEF TypeOK, ClaimFails, table
<1>2. PassOK'
  BY DEF ClaimFails, TypeOK, PassOK, table, Functional
<1>3. LoopOK' /\ ServerOK'
  BY <1>1, FaultCounted, LoopFrame, ServerFrame DEF ClaimFails, TypeOK
<1> QED BY <1>2, <1>3, PassActionTyped DEF ClaimFails

\* A step of a pass that changes no more of it than what is decided, resolved
\* and the mailbox at hand.
LEMMA PassStepTyped ==
  ASSUME TypeOK, UNCHANGED <<table, claim>>,
         phase' \in {"dispatch", "adopt", "refile", "persist", "resolve"},
         Functional(decided', Decision), Functional(resolved', Nat),
         Functional(out', Decision), stopped' \in BOOLEAN, newSid' \in Nat, after' \in Nat
  PROVE  PassOK'
  BY DEF TypeOK, PassOK, table, Functional

\* A decision over claimed intents, with the rest of the pass left alone.
LEMMA DecidingTyped ==
  ASSUME TypeOK, NEW S, NEW x \in Decision, DecideAll(S, x),
         UNCHANGED <<table, claim, resolved, newSid, out, after>>
  PROVE  PassOK'
<1>1. Functional(decided', Decision) /\ stopped' \in BOOLEAN /\ phase' = "dispatch"
  BY DecideAllTyped DEF TypeOK
<1>2. /\ Functional(resolved', Nat) /\ Functional(out', Decision)
      /\ newSid' \in Nat /\ after' \in Nat
  BY DEF TypeOK, PassOK, Functional
<1> QED BY <1>1, <1>2, PassStepTyped

LEMMA AbandonTyped ==
  ASSUME TypeOK, Abandon
  PROVE  TypeOK'
<1>1. PassOK'
  BY DecidingTyped, FixedDecisions DEF Abandon
<1>2. LogGrows
  BY SameLog DEF TypeOK, Abandon, table
<1>3. ServerOK' /\ LoopOK'
  BY <1>2, ServerFrame, LoopFrame DEF Abandon, TypeOK, LoopOK
<1> QED BY <1>1, <1>3, PassActionTyped DEF Abandon

LEMMA FailUnsentTyped ==
  ASSUME TypeOK, FailUnsent
  PROVE  TypeOK'
<1>1. PICK c \in Undecided : DecideAll({c}, Failed("not_found"))
  BY DEF FailUnsent
<1>2. PassOK'
  BY <1>1, DecidingTyped, FixedDecisions DEF FailUnsent
<1>3. LogGrows
  BY SameLog DEF TypeOK, FailUnsent, table
<1>4. ServerOK' /\ LoopOK'
  BY <1>3, ServerFrame, LoopFrame DEF FailUnsent, TypeOK, LoopOK
<1> QED BY <1>2, <1>4, PassActionTyped DEF FailUnsent

LEMMA CallFailsTyped ==
  ASSUME TypeOK, CallFails
  PROVE  TypeOK'
<1>1. PICK c \in Undecided, class \in Refusals : DecideAll(Members(c), Failed(class))
  BY DEF CallFails
<1>2. Failed(class) \in Decision
  BY FaultsAssumption, FailedTyped
<1>3. PassOK'
  BY <1>1, <1>2, DecidingTyped DEF CallFails
<1>4. LogGrows
  BY SameLog DEF TypeOK, CallFails, table
<1>5. ServerOK' /\ LoopOK'
  BY <1>4, FaultCounted, ServerFrame, LoopFrame DEF CallFails, TypeOK
<1> QED BY <1>3, <1>5, PassActionTyped DEF CallFails

\* A request that files moves: what it does to the messages is well typed.
LEMMA FilingTyped ==
  ASSUME TypeOK, UNCHANGED log, NEW S \in SUBSET DOMAIN claim, NEW sid \in Nat,
         NEW refused, NEW mailboxes, NEW more \in SUBSET DOMAIN log,
         File(S, sid, refused, mailboxes),
         applied' = applied \cup more \cup Filed(S, sid, refused, mailboxes),
         nextSid' \in Nat \ {0}, DOMAIN boxes' \subseteq 1..(nextSid' - 1),
         Functional(boxes', [name : Name, parent : Nat, by : Nat])
  PROVE  ServerOK'
<1>1. at' \in [Msg -> Nat] /\ mover' \in [Msg -> 0..Len(log)]
  BY FileTyped
<1>2. Filed(S, sid, refused, mailboxes) \subseteq DOMAIN log
  BY FiledTyped
<1> QED BY <1>1, <1>2 DEF TypeOK, ServerOK

LEMMA FaultsTyped ==
  ASSUME TypeOK, NEW S, NEW refused, Refusing(S, refused)
  PROVE  faults' \in Nat
  BY FaultCounted DEF Refusing, TypeOK, LoopOK

LEMMA MoveCallTyped ==
  ASSUME TypeOK, MoveCall
  PROVE  TypeOK'
<1>1. PICK c \in Undecided :
        \/ \E refused \in SUBSET claim[c].pay.msgs :
             /\ Refusing({c}, refused)
             /\ File({c}, Target(c), refused, boxes)
             /\ \E d \in Results({c}, Target(c), refused, boxes) : Decide(d)
             /\ applied' = applied \cup Filed({c}, Target(c), refused, boxes)
        \/ /\ Fault("lost")
           /\ File({c}, Target(c), {}, boxes)
           /\ applied' = applied \cup Filed({c}, Target(c), {}, boxes)
           /\ DecideAll({c}, Failed("connection"))
  BY DEF MoveCall
<1>2. c \in DOMAIN claim /\ Target(c) \in Nat
  BY TargetTyped DEF Undecided, TypeOK
<1>3. UNCHANGED <<table, claim, resolved, newSid, out, after>> /\ UNCHANGED log
  BY DEF MoveCall, table
<1>4. /\ nextSid' \in Nat \ {0} /\ DOMAIN boxes' \subseteq 1..(nextSid' - 1)
      /\ Functional(boxes', [name : Name, parent : Nat, by : Nat])
  BY DEF MoveCall, TypeOK, ServerOK, Functional
<1>5. PICK S \in SUBSET DOMAIN claim, more \in SUBSET DOMAIN log : \E refused :
        /\ File(S, Target(c), refused, boxes)
        /\ applied' = applied \cup more \cup Filed(S, Target(c), refused, boxes)
  <2>1. {c} \in SUBSET DOMAIN claim /\ {} \in SUBSET DOMAIN log
    BY <1>2
  <2>2. \E refused : /\ File({c}, Target(c), refused, boxes)
                     /\ applied' = applied \cup {} \cup Filed({c}, Target(c), refused, boxes)
    BY <1>1
  <2> QED BY <2>1, <2>2
<1>6. ServerOK'
  BY <1>2, <1>3, <1>4, <1>5, FilingTyped
<1>7. faults' \in Nat
  BY <1>1, FaultsTyped, FaultCounted DEF TypeOK
<1>8. PassOK'
  <2>1. CASE DecideAll({c}, Failed("connection"))
    BY <1>3, <2>1, DecidingTyped, FixedDecisions
  <2>2. ASSUME NEW refused, NEW d \in Results({c}, Target(c), refused, boxes), Decide(d)
        PROVE  PassOK'
    <3>1. Functional(d, Decision)
      BY ResultsTyped
    <3>2. Functional(decided', Decision) /\ stopped' \in BOOLEAN /\ phase' = "dispatch"
      BY <2>2, <3>1, DecideTyped DEF TypeOK
    <3>3. /\ Functional(resolved', Nat) /\ Functional(out', Decision)
          /\ newSid' \in Nat /\ after' \in Nat
      BY <1>3 DEF TypeOK, PassOK, Functional
    <3> QED BY <1>3, <3>2, <3>3, PassStepTyped
  <2> QED BY <1>1, <2>1, <2>2
<1> QED BY <1>6, <1>7, <1>8, LoopFrame, PassActionTyped DEF MoveCall, TypeOK

LEMMA CreateCallTyped ==
  ASSUME TypeOK, CreateCall
  PROVE  TypeOK'
<1> DEFINE Answered(c) ==
             \E refused \in SUBSET UNION {claim[i].pay.msgs : i \in Group(c)} :
               /\ Refusing(Group(c), refused)
               /\ File(Group(c), nextSid, refused, Made(c))
               /\ out' \in Results(Group(c), nextSid, refused, Made(c))
               /\ applied' = applied \cup {claim[c].uid}
                               \cup Filed(Group(c), nextSid, refused, Made(c))
               /\ newSid' = nextSid /\ phase' = "persist"
               /\ resolved' = IF Group(c) = {} THEN resolved
                                               ELSE Put(resolved, c, nextSid)
               /\ UNCHANGED <<decided, stopped>>
           Lost(c) ==
             /\ Fault("lost")
             /\ \E S \in {{}, Group(c)} :
                  /\ File(S, nextSid, {}, Made(c))
                  /\ applied' = applied \cup {claim[c].uid}
                                  \cup Filed(S, nextSid, {}, Made(c))
             /\ DecideAll(Members(c), Failed("connection"))
             /\ UNCHANGED <<out, newSid, resolved>>
<1>1. PICK c \in Undecided :
        boxes' = Made(c) /\ nextSid' = nextSid + 1 /\ (Answered(c) \/ Lost(c))
  BY DEF CreateCall
<1>2. c \in DOMAIN claim /\ claim[c].uid \in DOMAIN log
  BY DEF Undecided, TypeOK, PassOK
<1>3. UNCHANGED <<table, claim, after>> /\ UNCHANGED log
  BY DEF CreateCall, table
<1>4. /\ nextSid' \in Nat \ {0} /\ DOMAIN boxes' \subseteq 1..(nextSid' - 1)
      /\ Functional(boxes', [name : Name, parent : Nat, by : Nat])
  BY <1>1, <1>2, MadeTyped
<1>5. nextSid \in Nat
  BY DEF TypeOK, ServerOK
<1>6. ServerOK'
  <2>1. PICK S \in SUBSET DOMAIN claim : \E refused :
          /\ File(S, nextSid, refused, Made(c))
          /\ applied' = applied \cup {claim[c].uid} \cup Filed(S, nextSid, refused, Made(c))
    BY <1>1, GroupClaimed
  <2>2. {claim[c].uid} \in SUBSET DOMAIN log
    BY <1>2
  <2> QED BY <1>3, <1>4, <1>5, <2>1, <2>2, FilingTyped
<1>7. CASE Answered(c)
  <2>1. PICK refused :
          /\ Refusing(Group(c), refused)
          /\ out' \in Results(Group(c), nextSid, refused, Made(c))
          /\ newSid' = nextSid /\ phase' = "persist"
          /\ resolved' = IF Group(c) = {} THEN resolved ELSE Put(resolved, c, nextSid)
          /\ UNCHANGED <<decided, stopped>>
    BY <1>7
  <2>2. faults' \in Nat
    BY <2>1, FaultsTyped
  <2>3. Functional(out', Decision)
    BY <2>1, ResultsTyped
  <2>4. Functional(resolved', Nat)
    BY <1>5, <2>1 DEF TypeOK, PassOK, Functional, Put
  <2>5. Functional(decided', Decision) /\ stopped' \in BOOLEAN /\ after' \in Nat
    BY <1>3, <2>1 DEF TypeOK, PassOK, Functional
  <2>6. PassOK'
    BY <1>3, <1>5, <2>1, <2>3, <2>4, <2>5, PassStepTyped
  <2> QED BY <1>6, <2>2, <2>6, LoopFrame, PassActionTyped DEF CreateCall, TypeOK
<1>8. CASE Lost(c)
  <2>1. PassOK'
    BY <1>3, <1>8, DecidingTyped, FixedDecisions
  <2>2. faults' \in Nat
    BY <1>8, FaultCounted DEF TypeOK
  <2> QED BY <1>6, <2>1, <2>2, LoopFrame, PassActionTyped DEF CreateCall, TypeOK
<1> QED BY <1>1, <1>7, <1>8

LEMMA CreateRefusedTyped ==
  ASSUME TypeOK, CreateRefused
  PROVE  TypeOK'
<1>1. PICK c \in Undecided :
        \/ DecideAll(Members(c), Failed("server"))
        \/ phase' = "adopt" /\ UNCHANGED <<decided, stopped>>
  BY DEF CreateRefused
<1>2. UNCHANGED <<table, claim, resolved, newSid, out, after>>
  BY DEF CreateRefused
<1>3. PassOK'
  <2>1. CASE DecideAll(Members(c), Failed("server"))
    BY <1>2, <2>1, DecidingTyped, FixedDecisions
  <2>2. CASE phase' = "adopt" /\ UNCHANGED <<decided, stopped>>
    BY <1>2, <2>2 DEF TypeOK, PassOK, table, Functional
  <2> QED BY <1>1, <2>1, <2>2
<1>4. LogGrows
  BY SameLog DEF TypeOK, CreateRefused, table
<1>5. ServerOK' /\ LoopOK'
  BY <1>4, ServerFrame, LoopFrame DEF CreateRefused, TypeOK, LoopOK
<1> QED BY <1>3, <1>5, PassActionTyped DEF CreateRefused

LEMMA AdoptTyped ==
  ASSUME TypeOK, Adopt
  PROVE  TypeOK'
<1>1. PICK c \in Undecided :
        \/ /\ newSid' \in FindMailboxes(claim[c].pay.name, Target(c))
           /\ phase' \in {"persist", "refile"}
           /\ applied' = applied \cup {claim[c].uid} /\ UNCHANGED <<decided, stopped>>
        \/ /\ DecideAll(Members(c), Refused("server"))
           /\ UNCHANGED <<newSid, applied>>
  BY DEF Adopt
<1>2. UNCHANGED <<table, claim, resolved, after, boxes, nextSid, at, mover, loop, faults>>
      /\ UNCHANGED log /\ out' = Empty
  BY DEF Adopt, table
<1>3. c \in DOMAIN claim /\ claim[c].uid \in DOMAIN log
  BY DEF Undecided, TypeOK, PassOK
<1>4. newSid' \in Nat /\ Functional(decided', Decision) /\ stopped' \in BOOLEAN
      /\ phase' \in {"dispatch", "persist", "refile"}
  <2>1. CASE /\ newSid' \in FindMailboxes(claim[c].pay.name, Target(c))
             /\ phase' \in {"persist", "refile"} /\ UNCHANGED <<decided, stopped>>
    <3>1. newSid' \in DOMAIN boxes
      BY <2>1 DEF FindMailboxes
    <3> QED BY <2>1, <3>1 DEF TypeOK, PassOK, ServerOK, Functional
  <2>2. CASE DecideAll(Members(c), Refused("server")) /\ UNCHANGED newSid
    BY <2>2, DecideAllTyped, FixedDecisions DEF TypeOK, PassOK
  <2> QED BY <1>1, <2>1, <2>2
<1>5. PassOK'
  <2>1. Functional(out', Decision) /\ Functional(resolved', Nat) /\ after' \in Nat
    BY <1>2, EmptyTyped DEF TypeOK, PassOK, Functional
  <2> QED BY <1>2, <1>4, <2>1, PassStepTyped
<1>6. ServerOK'
  BY <1>1, <1>2, <1>3 DEF TypeOK, ServerOK, Functional
<1>7. LoopOK'
  BY <1>2, LoopFrame DEF TypeOK, LoopOK
<1> QED BY <1>5, <1>6, <1>7, PassActionTyped DEF Adopt

LEMMA RefileTyped ==
  ASSUME TypeOK, Refile
  PROVE  TypeOK'
<1> DEFINE Answered(c) ==
             \E refused \in SUBSET UNION {claim[i].pay.msgs : i \in Group(c)} :
               /\ Refusing(Group(c), refused)
               /\ File(Group(c), newSid, refused, boxes)
               /\ out' \in Results(Group(c), newSid, refused, boxes)
               /\ applied' = applied \cup Filed(Group(c), newSid, refused, boxes)
               /\ resolved' = Put(resolved, c, newSid)
               /\ phase' = "persist" /\ UNCHANGED <<decided, stopped>>
           Lost(c) ==
             /\ Fault("lost")
             /\ File(Group(c), newSid, {}, boxes)
             /\ applied' = applied \cup Filed(Group(c), newSid, {}, boxes)
             /\ DecideAll(Members(c), Failed("connection"))
             /\ UNCHANGED <<out, resolved>>
<1>1. PICK c \in Undecided : Answered(c) \/ Lost(c)
  BY DEF Refile
<1>2. UNCHANGED <<table, claim, newSid, after>> /\ UNCHANGED log /\ newSid \in Nat
  BY DEF Refile, table, TypeOK, PassOK
<1>3. /\ nextSid' \in Nat \ {0} /\ DOMAIN boxes' \subseteq 1..(nextSid' - 1)
      /\ Functional(boxes', [name : Name, parent : Nat, by : Nat])
  BY DEF Refile, TypeOK, ServerOK, Functional
<1>4. ServerOK'
  <2>1. PICK S \in SUBSET DOMAIN claim, more \in SUBSET DOMAIN log : \E refused :
          /\ File(S, newSid, refused, boxes)
          /\ applied' = applied \cup more \cup Filed(S, newSid, refused, boxes)
    <3>1. Group(c) \in SUBSET DOMAIN claim /\ {} \in SUBSET DOMAIN log
      BY GroupClaimed
    <3>2. \E refused : /\ File(Group(c), newSid, refused, boxes)
                       /\ applied' = applied \cup {} \cup Filed(Group(c), newSid, refused, boxes)
      BY <1>1
    <3> QED BY <3>1, <3>2
  <2> QED BY <1>2, <1>3, <2>1, FilingTyped
<1>5. CASE Answered(c)
  <2>1. PICK refused :
          /\ Refusing(Group(c), refused)
          /\ out' \in Results(Group(c), newSid, refused, boxes)
          /\ resolved' = Put(resolved, c, newSid)
          /\ phase' = "persist" /\ UNCHANGED <<decided, stopped>>
    BY <1>5
  <2>2. faults' \in Nat
    BY <2>1, FaultsTyped
  <2>3. Functional(out', Decision)
    BY <2>1, ResultsTyped
  <2>4. Functional(resolved', Nat)
    BY <1>2, <2>1 DEF TypeOK, PassOK, Functional, Put
  <2>5. /\ Functional(decided', Decision) /\ stopped' \in BOOLEAN
        /\ newSid' \in Nat /\ after' \in Nat
    BY <1>2, <2>1 DEF TypeOK, PassOK, Functional
  <2>6. PassOK'
    BY <1>2, <2>1, <2>3, <2>4, <2>5, PassStepTyped
  <2> QED BY <1>4, <2>2, <2>6, LoopFrame, PassActionTyped DEF Refile, TypeOK
<1>6. CASE Lost(c)
  <2>1. PassOK'
    BY <1>2, <1>6, DecidingTyped, FixedDecisions
  <2>2. faults' \in Nat
    BY <1>6, FaultCounted DEF TypeOK
  <2> QED BY <1>4, <2>1, <2>2, LoopFrame, PassActionTyped DEF Refile, TypeOK
<1> QED BY <1>1, <1>5, <1>6

LEMMA RenameCallTyped ==
  ASSUME TypeOK, RenameCall
  PROVE  TypeOK'
<1>1. PICK c \in Undecided :
        /\ \/ DecideAll({c}, Delivered) /\ UNCHANGED faults
           \/ DecideAll({c}, Failed("connection")) /\ Fault("lost")
           \/ DecideAll({c}, Failed("server")) /\ UNCHANGED faults
        /\ \/ /\ Target(c) \in DOMAIN boxes
              /\ boxes' = [boxes EXCEPT ![Target(c)].name = claim[c].pay.name]
              /\ applied' = applied \cup {claim[c].uid}
           \/ UNCHANGED <<boxes, applied>>
  BY DEF RenameCall
<1>2. UNCHANGED <<table, claim, resolved, newSid, out, after>> /\ UNCHANGED log
  BY DEF RenameCall, table
<1>3. c \in DOMAIN claim /\ claim[c].uid \in DOMAIN log /\ claim[c].pay.name \in Name
  BY DEF Undecided, TypeOK, PassOK, Functional, Claimed, Payload
<1>4. PassOK'
  BY <1>1, <1>2, DecidingTyped, FixedDecisions
<1>5. faults' \in Nat
  BY <1>1, FaultCounted DEF TypeOK, LoopOK
<1>6. /\ DOMAIN boxes' = DOMAIN boxes
      /\ Functional(boxes', [name : Name, parent : Nat, by : Nat])
  BY <1>1, <1>3 DEF TypeOK, ServerOK, Functional
<1>7. ServerOK'
  BY <1>1, <1>2, <1>3, <1>6 DEF RenameCall, TypeOK, ServerOK
<1> QED BY <1>4, <1>5, <1>7, LoopFrame, PassActionTyped DEF RenameCall, TypeOK

LEMMA DeleteCallTyped ==
  ASSUME TypeOK, DeleteCall
  PROVE  TypeOK'
<1>1. PICK c \in Undecided :
        /\ \/ DecideAll({c}, Delivered) /\ UNCHANGED faults
           \/ DecideAll({c}, Failed("connection")) /\ Fault("lost")
           \/ DecideAll({c}, Failed("server")) /\ UNCHANGED faults
        /\ \/ /\ boxes' = Restrict(boxes, DOMAIN boxes \ {Target(c)})
              /\ applied' = applied \cup {claim[c].uid}
           \/ UNCHANGED <<boxes, applied>>
  BY DEF DeleteCall
<1>2. UNCHANGED <<table, claim, resolved, newSid, out, after>> /\ UNCHANGED log
  BY DEF DeleteCall, table
<1>3. c \in DOMAIN claim /\ claim[c].uid \in DOMAIN log
  BY DEF Undecided, TypeOK, PassOK
<1>4. PassOK'
  BY <1>1, <1>2, DecidingTyped, FixedDecisions
<1>5. faults' \in Nat
  BY <1>1, FaultCounted DEF TypeOK, LoopOK
<1>6. /\ DOMAIN boxes' \subseteq DOMAIN boxes
      /\ Functional(boxes', [name : Name, parent : Nat, by : Nat])
  BY <1>1, LostTyped DEF TypeOK, ServerOK, Functional
<1>7. ServerOK'
  BY <1>1, <1>2, <1>3, <1>6 DEF DeleteCall, TypeOK, ServerOK
<1> QED BY <1>4, <1>5, <1>7, LoopFrame, PassActionTyped DEF DeleteCall, TypeOK

LEMMA ReplayTyped ==
  ASSUME TypeOK, Replay
  PROVE  TypeOK'
<1>1. PICK c \in DOMAIN claim : newSid' = claim[c].pay.resolvedSid
  BY DEF Replay, Undecided
<1>2. newSid' \in Nat
  BY <1>1 DEF TypeOK, PassOK, Functional, Claimed, Payload
<1>3. PassOK'
  <2>1. Functional(out', Decision)
    BY EmptyTyped DEF Replay
  <2>2. /\ UNCHANGED <<table, claim>> /\ phase' = "resolve" /\ after' = 0
        /\ UNCHANGED <<decided, resolved, stopped>>
    BY DEF Replay
  <2>3. Functional(decided', Decision) /\ Functional(resolved', Nat) /\ stopped' \in BOOLEAN
    BY <2>2 DEF TypeOK, PassOK, Functional
  <2> QED BY <1>2, <2>1, <2>2, <2>3, PassStepTyped
<1>4. LogGrows
  BY SameLog DEF TypeOK, Replay, table
<1>5. ServerOK' /\ LoopOK'
  BY <1>4, ServerFrame, LoopFrame DEF Replay, TypeOK, LoopOK
<1> QED BY <1>3, <1>5, PassActionTyped DEF Replay

-----------------------------------------------------------------------------
(* Types: the transactions of a pass. *)

\* An action of a pass that rewrites rows.
LEMMA RecordingTyped ==
  ASSUME TypeOK, TableOK', LogGrows, PassOK', UNCHANGED <<caller, loop, server, localcopy, faults>>
  PROVE  TypeOK'
<1>1. CallerOK' /\ ServerOK' /\ LoopOK' /\ LocalOK'
  BY CallerFrame, ServerFrame, LoopFrame, LocalFrame DEF TypeOK, LoopOK
<1> QED BY <1>1 DEF TypeOK

LEMMA PersistTyped ==
  ASSUME TypeOK, Persist
  PROVE  TypeOK'
<1>1. PICK c \in DOMAIN claim :
        rows' = [i \in DOMAIN rows |->
                   IF i = c THEN [rows[i] EXCEPT !.pay =
                                    [claim[c].pay EXCEPT !.resolvedSid = newSid]]
                            ELSE rows[i]]
  BY DEF Persist, Undecided
<1>2. newSid \in Nat /\ claim[c].pay \in Payload
  BY DEF TypeOK, PassOK, Functional, Claimed
<1>3. [claim[c].pay EXCEPT !.resolvedSid = newSid] \in Payload
  BY <1>2 DEF Payload
<1>4. \A i \in DOMAIN rows : rows'[i] \in Row /\ rows'[i].uid = rows[i].uid
  <2>1. \A i \in DOMAIN rows : rows[i] \in Row
    BY DEF TypeOK, TableOK, Functional
  <2> DEFINE pay == [claim[c].pay EXCEPT !.resolvedSid = newSid]
  <2>2. \A i \in DOMAIN rows : rows'[i] = IF i = c THEN [rows[i] EXCEPT !.pay = pay] ELSE rows[i]
    BY <1>1
  <2>3. pay \in Payload
    BY <1>3
  <2> HIDE DEF pay
  <2> QED BY <2>1, <2>2, <2>3 DEF Row
<1>5. TableOK' /\ LogGrows
  <2>1. Functional(rows', Row) /\ DOMAIN rows' = DOMAIN rows
    BY <1>1, <1>4 DEF Functional
  <2> QED BY <1>4, <2>1, RowsRewritten DEF TypeOK, Persist
<1>6. PassOK'
  BY DEF Persist, TypeOK, PassOK, Functional
<1> QED BY <1>5, <1>6, RecordingTyped DEF Persist

LEMMA ResolvePageTyped ==
  ASSUME TypeOK, ResolvePage
  PROVE  TypeOK'
<1>1. PICK c :
        rows' = [i \in DOMAIN rows |->
                   IF i \in Page \ {c}
                   THEN [rows[i] EXCEPT !.pay = RewriteRef(rows[i].pay, c)]
                   ELSE rows[i]]
  BY DEF ResolvePage
<1>2. newSid \in Nat
  BY DEF TypeOK, PassOK
<1>3. \A pay \in Payload : RewriteRef(pay, c) \in Payload
  BY <1>2 DEF RewriteRef, Payload, None
<1>4. \A i \in DOMAIN rows : rows'[i] \in Row /\ rows'[i].uid = rows[i].uid
  <2>1. \A i \in DOMAIN rows : rows[i] \in Row
    BY DEF TypeOK, TableOK, Functional
  <2> QED BY <1>1, <1>3, <2>1 DEF Row
<1>5. TableOK' /\ LogGrows
  <2>1. Functional(rows', Row) /\ DOMAIN rows' = DOMAIN rows
    BY <1>1, <1>4 DEF Functional
  <2> QED BY <1>4, <2>1, RowsRewritten DEF TypeOK, ResolvePage
<1>6. after' \in Nat
  <2>1. Page # {} /\ after' = Max(Page)
    BY DEF ResolvePage
  <2>2. Page \in SUBSET Nat /\ (\A i \in Page : i <= Len(log)) /\ Len(log) \in Nat
    BY LenProperties DEF Page, TypeOK, TableOK
  <2>3. Max(Page) \in Page
    BY <2>1, <2>2, GreatestNatural
  <2> QED BY <2>1, <2>2, <2>3
<1>7. PassOK'
  BY <1>6 DEF ResolvePage, TypeOK, PassOK, Functional
<1> QED BY <1>5, <1>7, RecordingTyped DEF ResolvePage

LEMMA ResolveEndTyped ==
  ASSUME TypeOK, ResolveEnd
  PROVE  TypeOK'
<1>1. PICK c \in DOMAIN claim :
        Decide(Put(out, c, Delivered)) /\ resolved' = Put(resolved, c, newSid)
  BY DEF ResolveEnd, Undecided
<1>2. UNCHANGED <<table, claim, newSid, out, after>>
  BY DEF ResolveEnd
<1>3. Functional(Put(out, c, Delivered), Decision)
  BY FixedDecisions, PutTyped DEF TypeOK, PassOK
<1>4. Functional(decided', Decision) /\ stopped' \in BOOLEAN /\ phase' = "dispatch"
  BY <1>1, <1>3, DecideTyped DEF TypeOK
<1>5. /\ Functional(resolved', Nat) /\ Functional(out', Decision)
      /\ newSid' \in Nat /\ after' \in Nat
  BY <1>1, <1>2 DEF TypeOK, PassOK, Functional, Put
<1>6. PassOK'
  BY <1>2, <1>4, <1>5, PassStepTyped
<1>7. LogGrows
  BY SameLog DEF TypeOK, ResolveEnd, table
<1>8. ServerOK' /\ LoopOK'
  BY <1>7, ServerFrame, LoopFrame DEF ResolveEnd, TypeOK, LoopOK
<1> QED BY <1>6, <1>8, PassActionTyped DEF ResolveEnd

LEMMA RecordFailsTyped ==
  ASSUME TypeOK, RecordFails
  PROVE  TypeOK'
<1>1. PICK c : DecideAll(Members(c), Failed("store_local"))
  BY DEF RecordFails
<1>2. PassOK'
  BY <1>1, DecidingTyped, FixedDecisions DEF RecordFails
<1>3. LogGrows
  BY SameLog DEF TypeOK, RecordFails, table
<1>4. ServerOK' /\ LoopOK'
  BY <1>3, FaultCounted, ServerFrame, LoopFrame DEF RecordFails, TypeOK
<1> QED BY <1>2, <1>4, PassActionTyped DEF RecordFails

\* A row that goes back to queued stays a row, of the same intent.
LEMMA RequeueTyped ==
  ASSUME NEW r \in Row, NEW d \in Decision
  PROVE  /\ Requeue(r, d.class) \in Row /\ Requeue(r, d.class).uid = r.uid
         /\ Revert(r) \in Row /\ Revert(r).uid = r.uid
<1>1. d.class \in Classes \cup {"none"}
  BY DEF Decision
<1>2. r.attempt \in 1..Len(Delays) /\ Len(Delays) \in Nat
  BY DelaysAssumption, LenProperties DEF Row
<1>3. Delays[r.attempt] \in Nat
  BY <1>2, DelaysAssumption, ElementOfSeq
<1>4. (IF r.attempt < Len(Delays) THEN r.attempt + 1 ELSE r.attempt) \in 1..Len(Delays)
  BY <1>2
<1>5. Requeue(r, d.class) \in Row /\ Requeue(r, d.class).uid = r.uid
  <2> DEFINE attempt == IF r.attempt < Len(Delays) THEN r.attempt + 1 ELSE r.attempt
             wait == Delays[r.attempt]
             class == d.class
  <2>1. attempt \in 1..Len(Delays) /\ wait \in Nat /\ class \in Classes \cup {"none"}
    BY <1>1, <1>3, <1>4
  <2>2. Requeue(r, d.class) = [r EXCEPT !.state = "queued", !.wait = wait, !.class = class,
                                        !.attempt = attempt]
    BY DEF Requeue
  <2> HIDE DEF attempt, wait, class
  <2> QED BY <2>1, <2>2 DEF Row
<1>6. Revert(r) \in Row /\ Revert(r).uid = r.uid
  BY DEF Revert, Row
<1> QED BY <1>5, <1>6

\* The rows of a pass put back, whichever of them are kept.
LEMMA PutBackTyped ==
  ASSUME TypeOK, NEW D \in SUBSET DOMAIN rows,
         rows' = [i \in D |->
                    IF i \in Pausing THEN Requeue(rows[i], decided[i].class)
                    ELSE IF i \in DOMAIN decided THEN Revert(rows[i]) ELSE rows[i]]
  PROVE  /\ Functional(rows', Row) /\ DOMAIN rows' = D
         /\ \A i \in D : rows'[i].uid = rows[i].uid
<1>1. ASSUME NEW i \in D PROVE rows'[i] \in Row /\ rows'[i].uid = rows[i].uid
  <2>1. rows[i] \in Row
    BY DEF TypeOK, TableOK, Functional
  <2>2. CASE i \in DOMAIN decided
    <3>1. decided[i] \in Decision
      BY <2>2 DEF TypeOK, PassOK, Functional
    <3> QED BY <2>1, <2>2, <3>1, RequeueTyped
  <2>3. CASE i \notin DOMAIN decided
    BY <2>1, <2>3 DEF Pausing
  <2> QED BY <2>2, <2>3
<1> QED BY <1>1 DEF Functional

LEMMA FinalizeTyped ==
  ASSUME TypeOK, Finalize
  PROVE  TypeOK'
<1> DEFINE left(u) == \E i \in Leaving \cap DOMAIN rows : rows[i].uid = u
           fate(u) == IF \E i \in Leaving \cap DOMAIN rows :
                           rows[i].uid = u /\ decided[i].why = "delivered"
                      THEN "delivered" ELSE "failed"
<1>1. /\ Functional(rows', Row) /\ DOMAIN rows' = DOMAIN rows \ Leaving
      /\ \A i \in DOMAIN rows \ Leaving : rows'[i].uid = rows[i].uid
  BY PutBackTyped DEF Finalize
<1>2. log' = [u \in DOMAIN log |-> IF left(u) THEN [log[u] EXCEPT !.fate = fate(u)] ELSE log[u]]
  BY DEF Finalize
<1>3. \A u \in DOMAIN log : log[u] \in Entry
  BY LenProperties DEF TypeOK, TableOK
<1>4. log' \in [DOMAIN log -> Entry] /\ \A u \in DOMAIN log : log'[u].refUid = log[u].refUid
  <2>1. \A u : fate(u) \in Fates
    BY DEF Fates
  <2> HIDE DEF left, fate
  <2>2. \A u \in DOMAIN log : log'[u] \in Entry /\ log'[u].refUid = log[u].refUid
    BY <1>2, <1>3, <2>1 DEF Entry
  <2> QED BY <1>2, <2>2
<1>5. TableOK' /\ LogGrows
  BY <1>1, <1>4, TableRewritten DEF TypeOK
<1>6. PassOK'
  <2>1. /\ claim' = Empty /\ phase' = "idle"
        /\ UNCHANGED <<decided, resolved, stopped, newSid, out, after>>
    BY DEF Finalize
  <2>2. Functional(Empty, Claimed) /\ DOMAIN Empty = {}
    BY EmptyTyped
  <2> QED BY <2>1, <2>2 DEF TypeOK, PassOK, Functional
<1> QED BY <1>5, <1>6, RecordingTyped DEF Finalize

LEMMA FinalizeFailsTyped ==
  ASSUME TypeOK, FinalizeFails
  PROVE  TypeOK'
<1>1. LogGrows
  BY SameLog DEF TypeOK, FinalizeFails, table
<1>2. PassOK'
  BY DEF FinalizeFails, TypeOK, PassOK, table, Functional
<1>3. LoopOK' /\ ServerOK'
  BY <1>1, FaultCounted, LoopFrame, ServerFrame DEF FinalizeFails, TypeOK
<1> QED BY <1>2, <1>3, PassActionTyped DEF FinalizeFails

LEMMA RecoverTyped ==
  ASSUME TypeOK, Recover
  PROVE  TypeOK'
<1>1. /\ Functional(rows', Row) /\ DOMAIN rows' = DOMAIN rows
      /\ \A i \in DOMAIN rows : rows'[i].uid = rows[i].uid
  BY PutBackTyped DEF Recover
<1>2. TableOK' /\ LogGrows
  BY <1>1, RowsRewritten DEF TypeOK, Recover
<1>3. PassOK'
  <2>1. /\ claim' = Empty /\ phase' = "idle" /\ log' = log
        /\ UNCHANGED <<decided, resolved, stopped, newSid, out, after>>
    BY DEF Recover
  <2>2. Functional(Empty, Claimed) /\ DOMAIN Empty = {}
    BY EmptyTyped
  <2> QED BY <2>1, <2>2 DEF TypeOK, PassOK, Functional
<1> QED BY <1>2, <1>3, RecordingTyped DEF Recover

LEMMA RecoverFailsTyped ==
  ASSUME TypeOK, RecoverFails
  PROVE  TypeOK'
<1>1. LogGrows
  BY SameLog DEF TypeOK, RecoverFails, table
<1>2. PassOK'
  <2>1. /\ claim' = Empty /\ phase' = "idle"
        /\ UNCHANGED <<decided, resolved, stopped, newSid, out, after>>
    BY DEF RecoverFails
  <2>2. Functional(Empty, Claimed) /\ DOMAIN Empty = {}
    BY EmptyTyped
  <2> QED BY <2>1, <2>2 DEF TypeOK, PassOK, Functional
<1>3. LoopOK'
  <2>1. DOMAIN claim \subseteq Nat
    BY DEF TypeOK, PassOK
  <2> QED BY <2>1, FaultCounted DEF RecoverFails, TypeOK, LoopOK
<1>4. ServerOK'
  BY <1>1, ServerFrame DEF RecoverFails, TypeOK
<1> QED BY <1>2, <1>3, <1>4, PassActionTyped DEF RecoverFails

-----------------------------------------------------------------------------
(* Types: the clock, the process, and what is outside it. *)

LEMMA TickTyped ==
  ASSUME TypeOK, Tick
  PROVE  TypeOK'
<1>1. rows' = [i \in DOMAIN rows |-> [rows[i] EXCEPT !.wait = IF @ > 0 THEN @ - 1 ELSE 0]]
  BY DEF Tick
<1>2. \A i \in DOMAIN rows : rows'[i] \in Row /\ rows'[i].uid = rows[i].uid
  <2>1. \A i \in DOMAIN rows : rows[i] \in Row
    BY DEF TypeOK, TableOK, Functional
  <2>2. \A w \in Nat : (IF w > 0 THEN w - 1 ELSE 0) \in Nat
    OBVIOUS
  <2> QED BY <1>1, <2>1, <2>2 DEF Row
<1>3. TableOK' /\ LogGrows
  <2>1. Functional(rows', Row) /\ DOMAIN rows' = DOMAIN rows
    BY <1>1, <1>2 DEF Functional
  <2> QED BY <1>2, <2>1, RowsRewritten DEF TypeOK, Tick
<1>4. CallerOK' /\ PassOK' /\ ServerOK' /\ LocalOK'
  BY <1>3, CallerFrame, PassFrame, ServerFrame, LocalFrame DEF Tick, TypeOK
<1>5. LoopOK'
  BY DEF Tick, TypeOK, LoopOK
<1> QED BY <1>3, <1>4, <1>5 DEF TypeOK

LEMMA CrashTyped ==
  ASSUME TypeOK, Crash
  PROVE  TypeOK'
<1>1. TableOK' /\ LogGrows /\ UNCHANGED log
  BY TableFrame DEF TypeOK, Crash, table
<1>2. CallerOK'
  <2>1. NoBulk \in Call'
    BY <1>1, NoBulkTyped, CallGrows
  <2>2. handle' = {} /\ bulk' = [p \in Caller |-> NoBulk]
    BY DEF Crash
  <2> QED BY <2>1, <2>2 DEF CallerOK
<1>3. PassOK'
  <2>1. \A S : Functional(Empty, S) /\ DOMAIN Empty = {}
    BY EmptyTyped
  <2>2. /\ phase' = "idle" /\ claim' = Empty /\ decided' = Empty /\ resolved' = Empty
        /\ stopped' = FALSE /\ newSid' = None /\ out' = Empty /\ after' = 0
    BY DEF Crash
  <2> QED BY <2>1, <2>2 DEF PassOK, None, Functional
<1>4. ServerOK' /\ LocalOK'
  BY <1>1, ServerFrame, LocalFrame DEF Crash, TypeOK
<1>5. LoopOK'
  BY FaultCounted DEF Crash, TypeOK, LoopOK
<1> QED BY <1>1, <1>2, <1>3, <1>4, <1>5 DEF TypeOK

LEMMA RestartTyped ==
  ASSUME TypeOK, Restart
  PROVE  TypeOK'
<1>1. rows' = [i \in DOMAIN rows |-> [rows[i] EXCEPT !.state = "queued"]]
  BY DEF Restart
<1>2. \A i \in DOMAIN rows : rows'[i] \in Row /\ rows'[i].uid = rows[i].uid
  BY <1>1 DEF Row, TypeOK, TableOK, Functional
<1>3. TableOK' /\ LogGrows
  <2>1. Functional(rows', Row) /\ DOMAIN rows' = DOMAIN rows
    BY <1>1, <1>2 DEF Functional
  <2> QED BY <1>2, <2>1, RowsRewritten DEF TypeOK, Restart
<1>4. CallerOK' /\ PassOK' /\ ServerOK' /\ LocalOK'
  BY <1>3, CallerFrame, PassFrame, ServerFrame, LocalFrame DEF Restart, TypeOK
<1>5. LoopOK'
  BY DEF Restart, TypeOK, LoopOK
<1> QED BY <1>3, <1>4, <1>5 DEF TypeOK

LEMMA SyncPullTyped ==
  ASSUME TypeOK, SyncPull
  PROVE  TypeOK'
<1>1. TableOK' /\ LogGrows
  BY TableFrame DEF TypeOK, SyncPull
<1>2. CallerOK' /\ PassOK' /\ ServerOK' /\ LoopOK'
  BY <1>1, CallerFrame, PassFrame, ServerFrame, LoopFrame DEF SyncPull, TypeOK, LoopOK
<1>3. LocalOK'
  BY DEF SyncPull, TypeOK, ServerOK, LocalOK
<1> QED BY <1>1, <1>2, <1>3 DEF TypeOK

LEMMA OtherClientTyped ==
  ASSUME TypeOK, OtherClient
  PROVE  TypeOK'
<1>1. TableOK' /\ LogGrows /\ UNCHANGED log
  BY TableFrame DEF TypeOK, OtherClient, table
<1>2. faults' \in Nat
  BY FaultCounted DEF OtherClient, TypeOK
<1>3. CallerOK' /\ PassOK' /\ LoopOK' /\ LocalOK'
  BY <1>1, <1>2, CallerFrame, PassFrame, LoopFrame, LocalFrame DEF OtherClient, TypeOK
<1>4. ServerOK'
  <2>1. CASE /\ \E m \in Msg : at[m] # None /\ at' = [at EXCEPT ![m] = None]
             /\ UNCHANGED <<boxes, nextSid>>
    BY <1>1, <2>1 DEF OtherClient, TypeOK, ServerOK, None, Functional
  <2>2. CASE /\ \E s \in DOMAIN boxes : boxes' = Restrict(boxes, DOMAIN boxes \ {s})
             /\ UNCHANGED <<at, nextSid>>
    <3>1. /\ DOMAIN boxes' \subseteq DOMAIN boxes
          /\ Functional(boxes', [name : Name, parent : Nat, by : Nat])
      BY <2>2, LostTyped DEF TypeOK
    <3> QED BY <1>1, <2>2, <3>1 DEF OtherClient, TypeOK, ServerOK
  <2>3. CASE /\ \E name \in Name :
                  boxes' = Put(boxes, nextSid, [name |-> name, parent |-> None, by |-> 0])
             /\ nextSid' = nextSid + 1 /\ UNCHANGED at
    <3>1. PICK name \in Name :
            boxes' = Put(boxes, nextSid, [name |-> name, parent |-> None, by |-> 0])
      BY <2>3
    <3>2. DOMAIN boxes' = DOMAIN boxes \cup {nextSid}
      BY <3>1, PutDomain
    <3>3. Functional(boxes', [name : Name, parent : Nat, by : Nat])
      BY <3>1 DEF TypeOK, ServerOK, Functional, Put, None
    <3> QED BY <1>1, <2>3, <3>2, <3>3 DEF OtherClient, TypeOK, ServerOK
  <2> QED BY <2>1, <2>2, <2>3 DEF OtherClient
<1> QED BY <1>1, <1>3, <1>4 DEF TypeOK

-----------------------------------------------------------------------------
(* The type invariant. *)

LEMMA InitTyped ==
  ASSUME Init
  PROVE  TypeOK
<1>1. Len(log) = 0 /\ log \in Seq(Entry) /\ DOMAIN log = {}
  <2>1. log = <<>>
    BY DEF Init
  <2>2. Len(log) = 0 /\ log \in Seq(Entry)
    BY <2>1, EmptySeq
  <2> QED BY <2>2, LenProperties
<1>2. \A S : Functional(Empty, S) /\ DOMAIN Empty = {}
  BY EmptyTyped
<1>3. TableOK
  BY <1>1, <1>2 DEF Init, TableOK
<1>4. CallerOK
  <2>1. (CHOOSE req \in Requests : TRUE) \in Requests
    BY RequestsAssumption
  <2>2. NoBulk \in Call
    BY <1>1, <2>1 DEF NoBulk, Call
  <2> QED BY <1>1, <2>2 DEF Init, CallerOK
<1>5. PassOK
  BY <1>2 DEF Init, PassOK, None, Functional
<1>6. LoopOK
  BY DEF Init, LoopOK
<1>7. Len(Home) \in Nat /\ DOMAIN Home = 1..Len(Home)
      /\ Home \in [DOMAIN Home -> [name : Name, parent : Nat, by : Nat]]
  BY ServerAssumption, LenProperties
<1>8. ServerOK
  <2>1. nextSid \in Nat \ {0} /\ DOMAIN boxes = 1..(nextSid - 1)
    BY <1>7 DEF Init
  <2>2. Functional(boxes, [name : Name, parent : Nat, by : Nat])
    BY <1>7 DEF Init, Functional
  <2>3. at \in [Msg -> Nat] /\ mover \in [Msg -> 0..Len(log)] /\ applied \subseteq DOMAIN log
    BY <1>1, <1>7 DEF Init
  <2> QED BY <2>1, <2>2, <2>3 DEF ServerOK
<1>9. LocalOK
  BY <1>7 DEF Init, LocalOK
<1> QED BY <1>3, <1>4, <1>5, <1>6, <1>8, <1>9 DEF TypeOK

LEMMA CallersTyped ==
  ASSUME TypeOK, Callers
  PROVE  TypeOK'
<1>1. CASE \E req \in Requests : EnqueueSingle(req)
  BY <1>1, EnqueueSingleTyped
<1>2. CASE \E p \in Caller, req \in Requests : BulkStart(p, req)
  BY <1>2, BulkStartTyped
<1>3. CASE \E p \in Caller : BulkChunk(p)
  BY <1>3, BulkChunkTyped
<1>4. CASE \E p \in Caller : BulkFails(p)
  BY <1>4, BulkFailsTyped
<1>5. CASE \E p \in Caller : Compensate(p)
  BY <1>5, CompensateTyped
<1>6. CASE \E group \in 1..Len(log) : Undo(group)
  BY <1>6, UndoTyped
<1> QED BY <1>1, <1>2, <1>3, <1>4, <1>5, <1>6 DEF Callers

LEMMA DispatchTyped ==
  ASSUME TypeOK, Dispatch
  PROVE  TypeOK'
<1>1. CASE Probe \/ Claim \/ ClaimFails
  BY <1>1, ProbeTyped, ClaimTyped, ClaimFailsTyped
<1>2. CASE Abandon \/ FailUnsent \/ CallFails
  BY <1>2, AbandonTyped, FailUnsentTyped, CallFailsTyped
<1>3. CASE MoveCall \/ CreateCall \/ CreateRefused \/ Adopt \/ Refile
  BY <1>3, MoveCallTyped, CreateCallTyped, CreateRefusedTyped, AdoptTyped, RefileTyped
<1>4. CASE RenameCall \/ DeleteCall
  BY <1>4, RenameCallTyped, DeleteCallTyped
<1>5. CASE Replay \/ Persist \/ ResolvePage \/ ResolveEnd \/ RecordFails
  BY <1>5, ReplayTyped, PersistTyped, ResolvePageTyped, ResolveEndTyped, RecordFailsTyped
<1>6. CASE Finalize \/ FinalizeFails \/ Recover \/ RecoverFails
  BY <1>6, FinalizeTyped, FinalizeFailsTyped, RecoverTyped, RecoverFailsTyped
<1> QED BY <1>1, <1>2, <1>3, <1>4, <1>5, <1>6 DEF Dispatch

LEMMA StutterTyped ==
  ASSUME TypeOK, UNCHANGED vars
  PROVE  TypeOK'
<1>1. UNCHANGED <<table, caller, pass, loop, server, localcopy, faults>>
  BY DEF vars
<1>2. TableOK' /\ LogGrows
  BY <1>1, TableFrame DEF TypeOK
<1>3. CallerOK' /\ PassOK' /\ ServerOK' /\ LoopOK' /\ LocalOK'
  BY <1>1, <1>2, CallerFrame, PassFrame, ServerFrame, LoopFrame, LocalFrame DEF TypeOK, LoopOK
<1> QED BY <1>2, <1>3 DEF TypeOK

LEMMA NextTyped ==
  ASSUME TypeOK, [Next]_vars
  PROVE  TypeOK'
<1>1. CASE Callers
  BY <1>1, CallersTyped
<1>2. CASE Dispatch
  BY <1>2, DispatchTyped
<1>3. CASE Tick \/ Crash \/ Restart \/ SyncPull \/ OtherClient
  BY <1>3, TickTyped, CrashTyped, RestartTyped, SyncPullTyped, OtherClientTyped
<1>4. CASE UNCHANGED vars
  BY <1>4, StutterTyped
<1> QED BY <1>1, <1>2, <1>3, <1>4 DEF Next

\* Type correctness: whatever callers, passes, the server, failures and crashes
\* do, and however many intents, mailboxes and messages there are, every
\* variable keeps its type.  In particular a row always belongs to an intent
\* that was enqueued, and row ids never outgrow the number of intents.
THEOREM TypeCorrect == Spec => []TypeOK
<1>1. Init => TypeOK
  BY InitTyped
<1>2. TypeOK /\ [Next]_vars => TypeOK'
  BY NextTyped
<1> QED BY <1>1, <1>2, PTL DEF Spec
=============================================================================
