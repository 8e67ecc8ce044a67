----------------------------- MODULE SyncWorker -----------------------------
(***************************************************************************)
(* The sync cycle of internal/sync: SyncKind with its changes-since pages, *)
(* its watermark, and the full resync it falls back to, against a server   *)
(* that keeps changing, and over the JMAP source's baseline listing.       *)
(*                                                                         *)
(* A cycle is split at every request and every transaction.  Between any   *)
(* two of them the server may change, forget old states, or be stuck, and  *)
(* the cycle may stop: a request or a transaction fails, the context is    *)
(* cancelled, or the process dies.  All of these leave the same thing, the *)
(* committed rows and watermark, and the next cycle starts from those.     *)
(*                                                                         *)
(* Records are numbered in the order of their received dates, which the    *)
(* baseline listing follows newest first; that is not the order in which   *)
(* they are made.                                                          *)
(*                                                                         *)
(* A definition X_Y is no part of the model: it is X with a plausible slip *)
(* in the code it stands for, kept beside X to show which property notices.*)
(***************************************************************************)
EXTENDS ChangeLog, Functions

CONSTANTS
  NRecords,    \* records there may ever be
  Genesis,     \* the server's changes before the client's first sync
  SyncKinds,   \* kinds a run explores
  Drafts,      \* message rows only this machine knows at the start: 0 or 1
  PageSize,    \* defaultPageSize of a baseline listing
  ChunkSize,   \* bulkChunk
  ScanPage,    \* staleScanPage
  MaxLog,      \* changes the server ever makes, Genesis included
  MaxFaults    \* stops, forgotten states and stuck servers, together

Record == 1..NRecords
None == 0      \* no server id, no version, no cursor

ASSUME SyncSizes ==
  /\ NRecords \in Nat /\ PageSize \in Nat \ {0} /\ ChunkSize \in Nat \ {0}
  /\ ScanPage \in Nat \ {0} /\ MaxLog \in Nat /\ MaxFaults \in Nat
ASSUME SyncInputs ==
  /\ Genesis \in Seq(Entry(Record)) /\ Len(Genesis) <= MaxLog /\ Final(Genesis)
  /\ SyncKinds \subseteq {"message", "mailbox"} /\ Drafts \in {0, 1}

VARIABLES
  kind,    \* the kind SyncKind is called for
  log,     \* the server: every change, in order
  oldest,  \* the server: the oldest state it can still compute changes from
  stuck,   \* the server: answers every changes request with the state it was asked from
  rows,    \* the store: rows by internal id, each with its server id and version
  wm,      \* the store: the watermark's state token
  pc,      \* the cycle: what it does next
  tok,     \* the cycle: the token it asks from
  resync,  \* the cycle: whether it is in fullResync
  page,    \* the cycle: the page at hand, less what is applied
  keep,    \* fullResync: server ids listed so far
  after,   \* deleteStale: the scan's cursor
  stale,   \* deleteStale: internal ids yet to delete of the page scanned
  faults,  \* adverse events so far
  from,    \* history: server state when the listing under way began, -1 if none has
  torn,    \* history: records that changed during the listing the watermark rests on,
           \* or that a stopped cycle made rows of
  buried   \* history: records whose row was deleted

server == <<log, oldest, stuck>>
cycle  == <<pc, tok, resync, page, keep, after, stale>>
vars   == <<kind, server, rows, wm, cycle, faults, from, torn, buried>>

Now == Len(log)
VerNow(r) == Ver(log, r, Now)
AliveNow  == {r \in Record : Alive(log, r, Now)}

\* A state token, the resume marker of a baseline listing (its position and
\* query state), or the empty token.
Token == [k : {"none", "state", "base"}, n : Nat, query : Nat]
NoToken == [k |-> "none", n |-> 0, query |-> 0]
StateToken(i) == [k |-> "state", n |-> i, query |-> 0]
BaseToken(position, query) == [k |-> "base", n |-> position, query |-> query]

\* A ChangeSet; its records carry what they were at server state `at`.
Page == [created : SUBSET Record, updated : SUBSET Record, destroyed : SUBSET Record,
         at : Nat, new : Token, more : BOOLEAN]
NoPage == [created |-> {}, updated |-> {}, destroyed |-> {}, at |-> 0,
           new |-> NoToken, more |-> FALSE]

Row == [sid : Record \cup {None}, ver : Nat]
Draft == [sid |-> None, ver |-> None]
Sids(t) == {t[i].sid : i \in DOMAIN t} \ {None}
RowOf(t, r) == CHOOSE i \in DOMAIN t : t[i].sid = r

\* The n newest of a set of records, the order of every list on a page.
Newest(S, n) == {r \in S : Cardinality({q \in S : q > r}) < n}
-----------------------------------------------------------------------------
(* The JMAP source: what a Changes call answers from token t.              *)

\* Foo/changes: the server may answer up to any later state; what it lists is
\* fetched as it is now, so a record destroyed since is not found.  A record both
\* made and destroyed since state i it may list as destroyed, or leave out.
ChangesUpTo(i, j, brief) ==
  LET touched == {r \in Record : Ver(log, r, j) > i}
  IN [created   |-> {r \in touched \cap AliveNow : Ver(log, r, i) = 0},
      updated   |-> {r \in touched \cap AliveNow : Ver(log, r, i) # 0},
      destroyed |-> {r \in touched : Dead(log, r, j) /\ (Alive(log, r, i) \/ ~brief)},
      at |-> Now, new |-> StateToken(j), more |-> j < Now]

StuckPage(i) == [NoPage EXCEPT !.at = Now, !.new = StateToken(i), !.more = TRUE]

ChangesPages(t) ==
  IF stuck THEN {StuckPage(t.n)}
  ELSE {ChangesUpTo(t.n, j, brief) : j \in (t.n + 1)..Now \cup {Now}, brief \in BOOLEAN}

\* Email/query from a position, newest first, and Email/get of what it lists.
ListFrom(position) ==
  LET listed == Newest(AliveNow, position + PageSize) \ Newest(AliveNow, position)
      next   == position + Cardinality(listed)
      last   == listed = {} \/ next >= Cardinality(AliveNow)
  IN [NoPage EXCEPT !.created = listed, !.at = Now, !.more = ~last,
        !.new = IF last THEN StateToken(Now) ELSE BaseToken(next, Listing(log, Now))]

BaselineMessages_NoRestart(t) == ListFrom(t.n)

\* A resumed listing whose query state has moved on starts over.
BaselineMessages(t) ==
  IF t.k = "base" /\ t.query # Listing(log, Now) THEN ListFrom(0) ELSE ListFrom(t.n)

\* Mailbox/get of all there are.
BaselineMailboxes == [NoPage EXCEPT !.created = AliveNow, !.at = Now, !.new = StateToken(Now)]

Answers(t) ==
  IF t.k = "state" THEN ChangesPages(t)
  ELSE IF kind = "mailbox" THEN {BaselineMailboxes} ELSE {BaselineMessages(t)}

\* cannotCalculateChanges.
StateReset(t) == t.k = "state" /\ t.n < oldest
-----------------------------------------------------------------------------
(* The store: rows by internal id, one more than the greatest for a new one. *)

NextId(t) == Max({0} \cup DOMAIN t) + 1

\* An insert that does not look for the row first.
Upsert_Insert(t, S, at) ==
  [i \in DOMAIN t \cup {NextId(t) + n : n \in 0..(Cardinality(S) - 1)} |->
     IF i \in DOMAIN t THEN t[i]
     ELSE LET r == CHOOSE q \in S : Cardinality({p \in S : p > q}) = i - NextId(t)
          IN [sid |-> r, ver |-> Ver(log, r, at)]]

\* Each record of S updates the row that has its server id, or gets a new one.
Upsert(t, S, at) ==
  LET known == {i \in DOMAIN t : t[i].sid \in S}
      fresh == S \ Sids(t)
      IdOf(r) == NextId(t) + Cardinality({q \in fresh : q > r})
      added == {IdOf(r) : r \in fresh}
  IN [i \in DOMAIN t \cup added |->
        IF i \in known THEN [t[i] EXCEPT !.ver = Ver(log, t[i].sid, at)]
        ELSE IF i \in DOMAIN t THEN t[i]
        ELSE LET r == CHOOSE q \in fresh : IdOf(q) = i
             IN [sid |-> r, ver |-> Ver(log, r, at)]]

Delete(t, ids) == [i \in DOMAIN t \ ids |-> t[i]]
DeleteRecords(t, S) == Delete(t, {i \in DOMAIN t : t[i].sid \in S})

\* The rows one page of the stale scan examines, and those it finds stale: a
\* message row only this machine knows never is.
ScanRows(t, cursor) ==
  {i \in DOMAIN t : i > cursor /\ Cardinality({j \in DOMAIN t : cursor < j /\ j < i}) < ScanPage}

StaleIn_AnyOrigin(t, ids) == {i \in ids : t[i].sid \notin keep}

StaleIn(t, ids) ==
  {i \in ids : IF t[i].sid = None THEN kind # "message" ELSE t[i].sid \notin keep}

\* A cursor drawn from the rows found stale.
Cursor_OfStale(t, cursor) == Max({None} \cup StaleIn(t, ScanRows(t, cursor)))

\* The highest id a page examined, None at the end of the scan.
Cursor(t, cursor) == Max({None} \cup ScanRows(t, cursor))
-----------------------------------------------------------------------------
Init ==
  /\ kind \in SyncKinds
  /\ log = Genesis /\ oldest = 0 /\ stuck = FALSE
  /\ rows = [i \in 1..(IF kind = "message" THEN Drafts ELSE 0) |-> Draft]
  /\ wm = NoToken
  /\ pc = "idle" /\ tok = NoToken /\ resync = FALSE /\ page = NoPage
  /\ keep = {} /\ after = None /\ stale = {}
  /\ faults = 0 /\ from = -1 /\ torn = {} /\ buried = {}

\* The locals of a cycle that is over.
Return ==
  /\ pc' = "idle" /\ tok' = NoToken /\ resync' = FALSE /\ page' = NoPage
  /\ keep' = {} /\ after' = None /\ stale' = {}

\* SyncKind starts: loadWatermark.
Begin ==
  /\ pc = "idle"
  /\ pc' = "fetch" /\ tok' = wm
  /\ UNCHANGED <<kind, server, rows, wm, resync, page, keep, after, stale, faults, from, torn, buried>>

\* What is left of a page, and what follows it.
Left(p) == p.created \cup p.updated \cup p.destroyed

\* A resync that takes its first page for the whole account.
AfterPage_FirstOnly(p) ==
  IF Left(p) # {} THEN "apply" ELSE IF ~resync THEN "save" ELSE "scan"

AfterPage(p) ==
  IF Left(p) # {} THEN "apply"
  ELSE IF ~resync THEN "save" ELSE IF p.more THEN "fetch" ELSE "scan"

Continue(p) ==
  /\ page' = p
  /\ pc' = AfterPage(p)
  /\ tok' = IF resync /\ Left(p) = {} THEN p.new ELSE tok

Advanced_Unchecked(p) == TRUE

\* checkStateAdvanced.
Advanced(p) == ~(p.more /\ p.new = tok)

\* A keep set of the last page only.
Kept_LastPage(p) == IF resync THEN p.created ELSE keep

\* The keep set after page p.
Kept(p) == IF resync THEN keep \cup p.created ELSE keep

\* A Changes call answers with a page.
Fetch ==
  /\ pc = "fetch" /\ ~StateReset(tok)
  /\ \E p \in Answers(tok) :
       /\ Advanced(p)
       /\ keep' = Kept(p)
       /\ Continue(p)
  /\ from' = IF tok.k = "none" /\ (resync \/ from = -1) THEN Now ELSE from
  /\ UNCHANGED <<kind, server, rows, wm, resync, after, stale, faults, torn, buried>>

\* The server has more and did not move: the cycle ends.
FetchRefused ==
  /\ pc = "fetch" /\ ~StateReset(tok)
  /\ \E p \in Answers(tok) : ~Advanced(p)
  /\ Return
  /\ UNCHANGED <<kind, server, rows, wm, faults, from, torn, buried>>

\* The state has expired: fullResync lists the account from the start.
FetchReset ==
  /\ pc = "fetch" /\ StateReset(tok)
  /\ resync' = TRUE /\ tok' = NoToken /\ keep' = {}
  /\ UNCHANGED <<kind, server, rows, wm, pc, page, after, stale, faults, from, torn, buried>>

\* The rows of a transaction, and what it buries.
Commit(t) ==
  /\ rows' = t
  /\ buried' = buried \cup (Sids(rows) \ Sids(t))

\* One chunk of one list of a page.
ApplyCreated ==
  /\ pc = "apply" /\ page.created # {}
  /\ LET chunk == Newest(page.created, ChunkSize)
     IN /\ Commit(Upsert(rows, chunk, page.at))
        /\ Continue([page EXCEPT !.created = @ \ chunk])
  /\ UNCHANGED <<kind, server, wm, resync, keep, after, stale, faults, from, torn>>

ApplyUpdated ==
  /\ pc = "apply" /\ page.created = {} /\ page.updated # {}
  /\ LET chunk == Newest(page.updated, ChunkSize)
     IN /\ Commit(Upsert(rows, chunk, page.at))
        /\ Continue([page EXCEPT !.updated = @ \ chunk])
  /\ UNCHANGED <<kind, server, wm, resync, keep, after, stale, faults, from, torn>>

ApplyDestroyed ==
  /\ pc = "apply" /\ page.created = {} /\ page.updated = {} /\ page.destroyed # {}
  /\ LET chunk == Newest(page.destroyed, ChunkSize)
     IN /\ Commit(DeleteRecords(rows, chunk))
        /\ Continue([page EXCEPT !.destroyed = @ \ chunk])
  /\ UNCHANGED <<kind, server, wm, resync, keep, after, stale, faults, from, torn>>

\* One page of the stale scan; past the last row the watermark follows.
Scan ==
  /\ pc = "scan" /\ stale = {}
  /\ IF Cursor(rows, after) = None
     THEN pc' = "save" /\ UNCHANGED <<after, stale>>
     ELSE /\ after' = Cursor(rows, after)
          /\ stale' = StaleIn(rows, ScanRows(rows, after))
          /\ UNCHANGED pc
  /\ UNCHANGED <<kind, server, rows, wm, tok, resync, page, keep, faults, from, torn, buried>>

\* One chunk of the deletes a scan page led to, in the order of the scan.
DeleteStale ==
  /\ pc = "scan" /\ stale # {}
  /\ LET chunk == {i \in stale : Cardinality({j \in stale : j < i}) < ChunkSize}
     IN Commit(Delete(rows, chunk)) /\ stale' = stale \ chunk
  /\ UNCHANGED <<kind, server, wm, pc, tok, resync, page, keep, after, faults, from, torn>>

\* The records a saved token cannot answer for: those that changed while the
\* listing it ends was under way, until a later page lists them again.
Torn ==
  LET n == page.new.n
  IN IF page.new.k # "state" THEN torn
     ELSE IF resync \/ tok.k # "state" THEN {r \in Record : Ver(log, r, n) > from}
     ELSE {r \in torn : Ver(log, r, n) <= tok.n \/ (Ver(log, r, tok.n) = 0 /\ Dead(log, r, n))}

\* And those a stopped cycle has given a row but not a watermark that has seen them.
Unseen == IF wm.k = "state" THEN {r \in Sids(rows) : Ver(log, r, wm.n) = 0} ELSE {}

\* The watermark's own transaction; a changes cycle goes on while there is more.
Save ==
  /\ pc = "save"
  /\ wm' = page.new /\ torn' = Torn
  /\ IF ~resync /\ page.more
     THEN pc' = "fetch" /\ tok' = page.new /\ UNCHANGED <<resync, page, keep, after, stale>>
     ELSE Return
  /\ UNCHANGED <<kind, server, rows, faults, from, buried>>

\* A request or a transaction fails, or the process ends.
Stop ==
  /\ pc # "idle" /\ faults < MaxFaults /\ faults' = faults + 1
  /\ Return /\ torn' = torn \cup Unseen
  /\ UNCHANGED <<kind, server, rows, wm, from, buried>>
-----------------------------------------------------------------------------
(* The server, external. *)

Change ==
  /\ Now < MaxLog
  /\ \E r \in Record, op \in Ops :
       Legal(log, r, op) /\ log' = Append(log, [rec |-> r, op |-> op])
  /\ UNCHANGED <<kind, oldest, stuck, rows, wm, cycle, faults, from, torn, buried>>

Forget ==
  /\ faults < MaxFaults /\ faults' = faults + 1
  /\ oldest < Now /\ oldest' = Now
  /\ UNCHANGED <<kind, log, stuck, rows, wm, cycle, from, torn, buried>>

Wedge ==
  /\ ~stuck /\ faults < MaxFaults /\ faults' = faults + 1
  /\ stuck' = TRUE
  /\ UNCHANGED <<kind, log, oldest, rows, wm, cycle, from, torn, buried>>

Unwedge ==
  /\ stuck /\ stuck' = FALSE
  /\ UNCHANGED <<kind, log, oldest, rows, wm, cycle, faults, from, torn, buried>>

Server == Change \/ Forget \/ Wedge \/ Unwedge

Work ==
  \/ Begin \/ Fetch \/ FetchRefused \/ FetchReset
  \/ ApplyCreated \/ ApplyUpdated \/ ApplyDestroyed
  \/ Scan \/ DeleteStale \/ Save

Next == Work \/ Stop \/ Server

Spec == Init /\ [][Next]_vars

\* The push loop or its poll calls SyncKind again and again, and a cycle under
\* way goes on: one goroutine.
FairSpec == Spec /\ WF_vars(Work)
-----------------------------------------------------------------------------
TypeOK ==
  /\ kind \in SyncKinds
  /\ log \in Seq(Entry(Record)) /\ Now <= MaxLog
  /\ oldest \in 0..Now /\ stuck \in BOOLEAN
  /\ DOMAIN rows \subseteq Nat \ {0} /\ IsFiniteSet(DOMAIN rows)
  /\ \A i \in DOMAIN rows : rows[i] \in Row
  /\ \A i, j \in DOMAIN rows : rows[i].sid = rows[j].sid /\ rows[i].sid # None => i = j
  /\ wm \in Token /\ tok \in Token
  /\ pc \in {"idle", "fetch", "apply", "scan", "save"}
  /\ resync \in BOOLEAN /\ page \in Page /\ keep \subseteq Record
  /\ after \in Nat /\ stale \subseteq Nat
  /\ faults \in 0..MaxFaults /\ from \in -1..Now
  /\ torn \subseteq Record /\ buried \subseteq Record

\* Row i is not behind server state n: it is at its record's version of then or a
\* later one, unless the record was alive then and has been destroyed since.
Abreast(i, n) ==
  LET r == rows[i].sid
  IN rows[i].ver >= Ver(log, r, n) \/ (Alive(log, r, n) /\ Dead(log, r, Now))

\* Under a state token every record alive then, and still, has a row; and no row
\* is behind that state, except those of torn records.
WatermarkHonest ==
  wm.k = "state" =>
    /\ \A r \in AliveNow : Alive(log, r, wm.n) => r \in Sids(rows)
    /\ \A i \in DOMAIN rows : rows[i].sid \notin torn \cup {None} => Abreast(i, wm.n)

\* Without the exception: no row is behind the watermark.
NothingForgotten ==
  wm.k = "state" => \A i \in DOMAIN rows : rows[i].sid # None => Abreast(i, wm.n)

\* Only rows of destroyed records are ever deleted: never a draft, never a
\* record a listing has missed.
StaleIsGone ==
  [][\A i \in DOMAIN rows \ DOMAIN rows' : Dead(log, rows[i].sid, Now)]_vars

\* A cycle ends, however the server answers.
CycleEnds == pc # "idle" ~> pc = "idle"

\* Once the server answers properly for good, the copy and the watermark come to
\* what the server has, for all but the torn records.
InStep ==
  /\ wm = StateToken(Now)
  /\ \A r \in Record \ torn :
       IF r \in AliveNow
       THEN r \in Sids(rows) /\ rows[RowOf(rows, r)].ver = VerNow(r)
       ELSE r \notin Sids(rows)
Converges == <>[]~stuck => <>[]InStep

\* The local copy, as Replica sees it.
Copy == [r \in Record |-> IF r \in Sids(rows) THEN rows[RowOf(rows, r)].ver ELSE 0]
Local == INSTANCE Replica WITH copy <- Copy
ImplementsReplica == Local!Init /\ [][Local!Next]_Local!vars
=============================================================================
