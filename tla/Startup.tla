------------------------------ MODULE Startup -------------------------------
(***************************************************************************)
(* The life of poplar processes around one store file: the instance lock,  *)
(* migration, the clean-shutdown marker and the integrity check it spares, *)
(* recovery, connecting, the engines, and shutdown.  A process may be      *)
(* killed at any step, and the kernel then drops its lock.  Of the store   *)
(* the model keeps what these steps put at stake: its version, whether it  *)
(* is sound, its rows by row id, and the intents that name rows.           *)
(*                                                                         *)
(* A definition X_Y is no part of the model: it is X with a plausible slip *)
(* in the code it stands for, kept beside X to show which property notices.*)
(***************************************************************************)
EXTENDS Integers, Sequences, FiniteSets

CONSTANTS
  Process,     \* processes a user may start
  Build,       \* the schema version each one's build knows
  Message, Folder,  \* the server's messages and mailboxes
  MaxStarts, MaxKills, MaxIntents,  \* bounds on starts, kills and intents queued
  MarkerSticks, \* whether removing the marker may fail
  Answers      \* what a connect may meet, see Raw

ASSUME StartupInputs ==
  /\ Build \in [Process -> Nat \ {0}] /\ Message \cap Folder = {}
  /\ {MaxStarts, MaxKills, MaxIntents} \subseteq Nat /\ MarkerSticks \in BOOLEAN
  /\ Answers \subseteq {"accepts", "denied", "busy", "portal"} /\ "accepts" \in Answers

VARIABLES
  db,        \* the store at path, or NoStore
  aside,     \* the store Recover has quarantined, until it is done with it
  archived,  \* intents in quarantined files nobody renames back
  marker,    \* the clean-shutdown marker exists
  lock,      \* the process that holds the instance lock, or Nobody
  pc, mode,  \* each process: where it is, and how it was started
  engines,   \* each process: its worker and dispatcher
  kept,      \* what extractPreserved read
  net,       \* what a connect made now would meet
  starts, kills, queued, \* counts behind the bounds
  outlived,  \* history: a run went on, or was killed in its migrations, with the marker
             \* of an earlier run in place, and none has ended cleanly on a sound store since
  torn,      \* history: a recovery could not read every mailbox
  owed,      \* history: intents queued and not delivered
  gaveUp     \* history: what ended the connect retry of a process without engines

store == <<db, aside, archived, marker>>
outside == <<net, starts, kills, queued>>
history == <<outlived, torn, owed, gaveUp>>
vars == <<store, lock, pc, mode, engines, kept, outside, history>>

Nobody == "nobody"
ASSUME NobodyIsNone == Nobody \notin Process
NoStore == [version |-> -1]
Fresh == [version |-> 0, sound |-> TRUE, rows |-> <<>>, boxes |-> <<>>, intents |-> {}]
Modes == [trace : BOOLEAN, recover : BOOLEAN]
NoMode == [trace |-> FALSE, recover |-> FALSE]

\* The rows a server object has been given so far, and the store holding it.
Has(rows, x) == \E r \in DOMAIN rows : rows[r] = x
Opened == {"reclaim", "connect", "account", "running", "stopping", "closing"}
WriterOpen(p) == pc[p] \in Opened

Init ==
  /\ db = NoStore /\ aside = NoStore /\ archived = {} /\ marker = FALSE /\ lock = Nobody
  /\ pc = [p \in Process |-> "off"] /\ mode = [p \in Process |-> NoMode]
  /\ engines = [p \in Process |-> "none"] /\ kept = Fresh
  /\ net = "accepts" /\ starts = 0 /\ kills = 0 /\ queued = 0
  /\ outlived = FALSE /\ torn = FALSE /\ owed = {} /\ gaveUp = [p \in Process |-> "no"]
-----------------------------------------------------------------------------
Gone(p) == pc' = [pc EXCEPT ![p] = "off"] /\ mode' = [mode EXCEPT ![p] = NoMode]
Goto(p, where) == pc' = [pc EXCEPT ![p] = where]

\* Process p goes from one place to another; the store stays as it is.
Step(p, from, to) ==
  /\ pc[p] = from /\ Goto(p, to)
  /\ UNCHANGED <<store, lock, mode, engines, kept, outside, history>>

Start(p) ==
  /\ pc[p] = "off" /\ starts < MaxStarts /\ starts' = starts + 1
  /\ \E m \in Modes : mode' = [mode EXCEPT ![p] = m]
  /\ Goto(p, "lock")
  /\ UNCHANGED <<store, lock, engines, kept, net, kills, queued, history>>

Acquire_Blind(p) ==
  /\ pc[p] = "lock" /\ lock' = p /\ Goto(p, "open")
  /\ UNCHANGED <<store, mode, engines, kept, outside, history>>

Acquire(p) ==
  /\ pc[p] = "lock" /\ lock = Nobody /\ lock' = p /\ Goto(p, "open")
  /\ UNCHANGED <<store, mode, engines, kept, outside, history>>

\* Another instance runs, or the lock file cannot be written.
Refused(p) ==
  /\ pc[p] = "lock" /\ Gone(p)
  /\ UNCHANGED <<store, lock, engines, kept, outside, history>>

\* The deferred Release, on every way out past the lock.
Release(p) ==
  /\ pc[p] = "leaving" /\ Gone(p) /\ lock' = Nobody
  /\ kept' = Fresh /\ gaveUp' = [gaveUp EXCEPT ![p] = "no"]
  /\ UNCHANGED <<store, engines, outside, outlived, torn, owed>>
-----------------------------------------------------------------------------
(* prepareStore. *)

\* OpenWriteConn makes the file when there is none.
OpenConn(p) ==
  /\ pc[p] = "open"
  /\ db' = IF db = NoStore THEN Fresh ELSE db
  /\ Goto(p, "migrate")
  /\ kept' = [Fresh EXCEPT !.version = db'.version]
  /\ UNCHANGED <<aside, archived, marker, lock, mode, engines, outside, history>>

\* Each migration is a transaction of its own.
Migrate(p) ==
  /\ pc[p] = "migrate" /\ db.version < Build[p]
  /\ db' = [db EXCEPT !.version = @ + 1]
  /\ UNCHANGED <<aside, archived, marker, lock, pc, mode, engines, kept, outside, history>>

\* Recovery is offered, never run unasked.
Offer(p) == Goto(p, IF mode[p].recover THEN "extract" ELSE "leaving")

MigrateFails(p) ==
  /\ pc[p] = "migrate" /\ db.version < Build[p] /\ Offer(p)
  /\ outlived' = (outlived \/ (marker /\ mode[p].recover))
  /\ UNCHANGED <<store, lock, mode, engines, kept, outside, torn, owed, gaveUp>>

\* A store a newer build migrated is not recovery's business.
TooNew(p) == Step(p, "migrate", "leaving") /\ db.version > Build[p]

Owes_Trusting == ~marker /\ kept.version # db.version
\* ShouldRunIntegrityCheck: before is kept.version here.
Owes == ~marker \/ kept.version # db.version

Migrated(p) ==
  /\ pc[p] = "migrate" /\ db.version = Build[p]
  /\ \E reindex \in BOOLEAN : Goto(p, IF Owes \/ reindex THEN "integrity" ELSE "writer")
  /\ marker' = FALSE /\ kept' = Fresh
  /\ UNCHANGED <<db, aside, archived, lock, mode, engines, outside, history>>

\* A marker that cannot be removed is not trusted.
MarkerStays(p) ==
  /\ MarkerSticks /\ pc[p] = "migrate" /\ db.version = Build[p] /\ marker
  /\ Goto(p, "integrity") /\ outlived' = TRUE /\ kept' = Fresh
  /\ UNCHANGED <<store, lock, mode, engines, outside, torn, owed, gaveUp>>

CheckPasses(p) == Step(p, "integrity", "writer") /\ db.sound

CheckFails(p) ==
  /\ pc[p] = "integrity" /\ ~db.sound /\ Offer(p)
  /\ UNCHANGED <<store, lock, mode, engines, kept, outside, history>>

CheckCancelled(p) == Step(p, "integrity", "leaving")
-----------------------------------------------------------------------------
(* Recover. *)

\* Each table is read on its own, up to where a damaged one stops.
Prefixes(s) == {SubSeq(s, 1, n) : n \in 0..Len(s)}
Preserved(version, boxes, intents) ==
  [Fresh EXCEPT !.version = version, !.boxes = boxes, !.intents = intents]

Extract(p) ==
  /\ pc[p] = "extract" /\ Goto(p, "quarantine")
  /\ \E boxes \in Prefixes(db.boxes), intents \in SUBSET db.intents :
       /\ db.sound => boxes = db.boxes /\ intents = db.intents
       /\ kept' = Preserved(Build[p], boxes, intents)
  /\ UNCHANGED <<store, lock, mode, engines, outside, history>>

Quarantine(p) ==
  /\ pc[p] = "quarantine" /\ Goto(p, "rebuild")
  /\ aside' = db /\ db' = NoStore
  /\ UNCHANGED <<archived, marker, lock, mode, engines, kept, outside, history>>

\* Nothing was moved: the store is left as found.
QuarantineFails(p) == Step(p, "quarantine", "leaving")

\* rebuildAt opens and migrates a fresh store at path; what there is of it when
\* it stops short.
Unbuilt(p) == {NoStore} \cup {[Fresh EXCEPT !.version = v] : v \in 0..Build[p]}
Rebuild(p) ==
  /\ pc[p] = "rebuild" /\ Goto(p, "restore")
  /\ db' = [Fresh EXCEPT !.version = Build[p]]
  /\ UNCHANGED <<aside, archived, marker, lock, mode, engines, kept, outside, history>>

\* restorePreserved, one transaction.  Server messages are left to the next
\* sync; rows whose account was not read are dropped with it.
Restored_NoBoxes(k) == [k EXCEPT !.boxes = <<>>]
Restored(k) == k

Restore(p) ==
  /\ pc[p] = "restore" /\ Goto(p, "writer")
  /\ \E accounts \in BOOLEAN :
       /\ aside.sound => accounts
       /\ db' = IF accounts THEN Restored(kept) ELSE db
  /\ archived' = archived \cup aside.intents /\ aside' = NoStore
  /\ torn' = (torn \/ kept.boxes # aside.boxes) /\ kept' = Fresh
  /\ UNCHANGED <<marker, lock, mode, engines, outside, outlived, owed, gaveUp>>

RebuildFails(p) ==
  /\ pc[p] \in {"rebuild", "restore"} /\ Goto(p, "unquarantine") /\ kept' = Fresh
  /\ db' \in IF pc[p] = "rebuild" THEN Unbuilt(p) ELSE {db}
  /\ UNCHANGED <<aside, archived, marker, lock, mode, engines, outside, history>>

Unquarantine_Deletes(p) ==
  /\ pc[p] = "unquarantine" /\ Goto(p, "leaving")
  /\ aside' = NoStore /\ UNCHANGED <<db, archived>>
  /\ UNCHANGED <<marker, lock, mode, engines, kept, outside, history>>

\* The quarantined file goes back to path, or stays behind when it cannot.
Unquarantine(p) ==
  /\ pc[p] = "unquarantine" /\ Goto(p, "leaving")
  /\ aside' = NoStore
  /\ \/ db' = aside /\ UNCHANGED archived
     \/ archived' = archived \cup aside.intents /\ UNCHANGED db
  /\ UNCHANGED <<marker, lock, mode, engines, kept, outside, history>>
-----------------------------------------------------------------------------
(* The rest of startup, and run and runInteractive. *)

OpenWriter(p) == Step(p, "writer", "reclaim")

\* A step of startup fails; whatever it opened is closed again.
StartFails(p) == \E from \in {"open", "writer", "reclaim", "connect", "account"} : Step(p, from, "leaving")

\* ReclaimOrphaned, and RebuildIndex when asked; the trace then takes its measure.
Reclaim(p) == Step(p, "reclaim", IF mode[p].trace THEN "closing" ELSE "connect")

\* The class Dial gives a failed connect: a token that is missing or refused, a
\* server that is busy or cannot be reached, an answer it does not recognise.
Raw == [denied |-> "auth", busy |-> "server", portal |-> "none"]
\* classifyConnect and isFatalConnect.
Class(answer) == IF Raw[answer] = "none" THEN "connection" ELSE Raw[answer]
Fatal(answer) == answer # "accepts" /\ Class(answer) = "auth"

ConnectOk(p) == net = "accepts" /\ Step(p, "connect", "account")
ConnectFatal(p) == Fatal(net) /\ Step(p, "connect", "leaving")

\* Anything but a credential problem: run with no network, retry behind it.
ConnectLater(p) ==
  /\ pc[p] = "connect" /\ net # "accepts" /\ ~Fatal(net)
  /\ Goto(p, "running") /\ engines' = [engines EXCEPT ![p] = "retrying"]
  /\ UNCHANGED <<store, lock, mode, kept, outside, history>>

EnsureAccount(p) ==
  /\ pc[p] = "account" /\ Goto(p, "running") /\ engines' = [engines EXCEPT ![p] = "up"]
  /\ UNCHANGED <<store, lock, mode, kept, outside, history>>

\* One more attempt of retryConnect, on a schedule whose pauses are bounded; a
\* failure that may pass changes nothing, and the schedule goes on.
RetryOk(p) ==
  /\ engines[p] = "retrying" /\ net = "accepts" /\ engines' = [engines EXCEPT ![p] = "up"]
  /\ UNCHANGED <<store, lock, pc, mode, kept, outside, history>>

\* Its goroutine ends without engines: after a failure that is fatal, or because
\* the account row cannot be written.
Ends(p, fatal) ==
  /\ engines[p] = "retrying" /\ engines' = [engines EXCEPT ![p] = "none"]
  /\ \/ fatal /\ gaveUp' = [gaveUp EXCEPT ![p] = net]
     \/ net = "accepts" /\ gaveUp' = [gaveUp EXCEPT ![p] = "store"]
  /\ UNCHANGED <<store, lock, pc, mode, kept, outside, outlived, torn, owed>>
RetryEnds_Unclassified(p) == Ends(p, net # "accepts" /\ Raw[net] # "server")
RetryEnds(p) == Ends(p, Fatal(net))

\* ctx ends, or the program's event loop returns.
Quit(p) == Step(p, "running", "stopping")

EnginesStop(p) ==
  /\ pc[p] = "stopping" /\ engines[p] # "none" /\ engines' = [engines EXCEPT ![p] = "none"]
  /\ UNCHANGED <<store, lock, pc, mode, kept, outside, history>>

EnginesDone_Unwaited(p) == Step(p, "stopping", "closing")
\* wg.Wait, then the read pool.
EnginesDone(p) == engines[p] = "none" /\ Step(p, "stopping", "closing")

CloseWriter(p) == Step(p, "closing", "marking")

\* The close failed, or the TUI did: no marker.
CloseFails(p) == Step(p, "closing", "leaving")

\* A stale marker has done its harm if the store this one now vouches for is damaged.
MarkClean(p) ==
  /\ pc[p] = "marking" /\ Goto(p, "leaving")
  /\ marker' = TRUE /\ outlived' = (outlived /\ ~db.sound)
  /\ UNCHANGED <<db, aside, archived, lock, mode, engines, kept, outside, torn, owed, gaveUp>>

MarkFails(p) == Step(p, "marking", "leaving")

\* A write connection is open on the store, and in use: prepareStore's while a
\* migration is owed (kept.version is the version it found) and while it checks,
\* rebuildAt's, and the writer's.
Writing(p) ==
  \/ pc[p] \in {"integrity", "rebuild", "restore"} \cup Opened
  \/ pc[p] = "migrate" /\ kept.version < Build[p]

\* Killed; a store being written may be left damaged.
Kill(p) ==
  /\ pc[p] # "off" /\ kills < MaxKills /\ kills' = kills + 1
  /\ Gone(p) /\ engines' = [engines EXCEPT ![p] = "none"] /\ gaveUp' = [gaveUp EXCEPT ![p] = "no"]
  /\ kept' = IF lock = p THEN Fresh ELSE kept
  /\ lock' = IF lock = p THEN Nobody ELSE lock
  /\ LET left == IF pc[p] = "rebuild" THEN Unbuilt(p) ELSE {db}
     IN db' \in left \cup IF ~Writing(p) THEN {}
                         ELSE {[s EXCEPT !.sound = FALSE] : s \in left \ {NoStore}}
  /\ outlived' = (outlived \/ (pc[p] = "migrate" /\ Writing(p) /\ marker))
  /\ IF aside = NoStore \/ lock # p THEN UNCHANGED <<aside, archived>>
     ELSE aside' = NoStore /\ archived' = archived \cup aside.intents
  /\ UNCHANGED <<marker, net, starts, queued, torn, owed>>
-----------------------------------------------------------------------------
(* What a running process does to the store. *)

\* A sync inserts a row, under the id after the last.
Sync(p) ==
  /\ engines[p] = "up" /\ WriterOpen(p)
  /\ \/ \E m \in Message : ~Has(db.rows, m) /\ db' = [db EXCEPT !.rows = Append(@, m)]
     \/ \E f \in Folder : ~Has(db.boxes, f) /\ db' = [db EXCEPT !.boxes = Append(@, f)]
  /\ UNCHANGED <<aside, archived, marker, lock, pc, mode, engines, kept, outside, history>>

\* The user acts on a row: an intent names it by its id.
Enqueue(p) ==
  /\ pc[p] = "running" /\ queued < MaxIntents /\ queued' = queued + 1
  /\ \E i \in {[on |-> "message", row |-> r, meant |-> db.rows[r]] : r \in DOMAIN db.rows}
         \cup {[on |-> "folder", row |-> r, meant |-> db.boxes[r]] : r \in DOMAIN db.boxes} :
       db' = [db EXCEPT !.intents = @ \cup {i}] /\ owed' = owed \cup {i}
  /\ UNCHANGED <<aside, archived, marker, lock, pc, mode, engines, kept, net, starts, kills, outlived,
                 torn, gaveUp>>

Dispatch(p) ==
  /\ engines[p] = "up" /\ WriterOpen(p)
  /\ \E i \in db.intents : db' = [db EXCEPT !.intents = @ \ {i}] /\ owed' = owed \ {i}
  /\ UNCHANGED <<aside, archived, marker, lock, pc, mode, engines, kept, outside, outlived, torn, gaveUp>>
\* It runs without engines, and has met no refusal that would be a reason.
Unserved(p) ==
  pc[p] = "running" /\ engines[p] # "up" /\ gaveUp[p] \notin {"denied", "store"}

\* The network, the server and the token come and go.  Only a process that may
\* try to connect, or ought to, looks at them.
NetChanges ==
  /\ \E p \in Process : pc[p] = "connect" \/ engines[p] = "retrying" \/ Unserved(p)
  /\ net' \in Answers \ {net}
  /\ UNCHANGED <<store, lock, pc, mode, engines, kept, starts, kills, queued, history>>
-----------------------------------------------------------------------------
Prepare(p) ==
  \/ Acquire(p) \/ Refused(p) \/ OpenConn(p) \/ Migrate(p) \/ MigrateFails(p) \/ TooNew(p)
  \/ Migrated(p) \/ MarkerStays(p) \/ CheckPasses(p) \/ CheckFails(p) \/ CheckCancelled(p)
  \/ Extract(p) \/ Quarantine(p) \/ QuarantineFails(p) \/ Rebuild(p) \/ Restore(p)
  \/ RebuildFails(p) \/ Unquarantine(p) \/ OpenWriter(p) \/ StartFails(p) \/ Reclaim(p)
  \/ ConnectOk(p) \/ ConnectFatal(p) \/ ConnectLater(p) \/ EnsureAccount(p)

Leave(p) ==
  \/ EnginesStop(p) \/ EnginesDone(p) \/ CloseWriter(p) \/ CloseFails(p)
  \/ MarkClean(p) \/ MarkFails(p) \/ Release(p)

Retry(p) == RetryOk(p) \/ RetryEnds(p)

Next ==
  \/ NetChanges
  \/ \E p \in Process :
       \/ Start(p) \/ Prepare(p) \/ Retry(p) \/ Quit(p) \/ Leave(p) \/ Kill(p)
       \/ Sync(p) \/ Enqueue(p) \/ Dispatch(p)

Spec == Init /\ [][Next]_vars

\* A process that is not killed goes on, and its retry makes its next attempt.
FairSpec == Spec /\ \A p \in Process :
  WF_vars(Prepare(p)) /\ WF_vars(Leave(p)) /\ WF_vars(Retry(p))
-----------------------------------------------------------------------------
Stores == [version : Nat, sound : BOOLEAN, rows : Seq(Message), boxes : Seq(Folder),
           intents : SUBSET [on : {"message", "folder"}, row : Nat, meant : Message \cup Folder]]
IsStore(s) == s = NoStore \/ (s \in Stores /\ \E p \in Process : s.version <= Build[p])

Places == {"off", "lock", "open", "migrate", "integrity", "extract", "quarantine",
  "rebuild", "restore", "unquarantine", "writer", "reclaim", "connect", "account",
  "running", "stopping", "closing", "marking", "leaving"}

TypeOK ==
  /\ IsStore(db) /\ IsStore(aside) /\ kept \in Stores /\ marker \in BOOLEAN
  /\ lock \in Process \cup {Nobody} /\ mode \in [Process -> Modes] /\ net \in Answers
  /\ pc \in [Process -> Places]
  /\ engines \in [Process -> {"none", "retrying", "up"}]
  /\ gaveUp \in [Process -> {"no", "store"} \cup Answers] /\ {outlived, torn} \subseteq BOOLEAN
  /\ \A p \in Process : pc[p] \notin {"off", "lock"} => lock = p

(***************************************************************************)
(* Nothing of a process touches the store once it has closed it: no engine *)
(* runs past the writer's close, one started late by the connect retry     *)
(* included, and the marker appears only when both are done.               *)
(***************************************************************************)
StoreOutlivesEngines ==
  \A p \in Process : engines[p] # "none" => pc[p] \in {"running", "stopping"}

(***************************************************************************)
(* A marker "attests to the run that just ended" (recovery.go), so a store *)
(* that a kill may have damaged is never run on: the start after checks    *)
(* it, whoever is killed at whichever step.                                *)
(***************************************************************************)
RunsSound == \A p \in Process : WriterOpen(p) => db.sound

(***************************************************************************)
(* The same, but for the runs that write the store with the marker of an   *)
(* earlier run in place, and those that follow until one has ended cleanly *)
(* on a sound store: a run killed in its migrations, which come before the *)
(* marker is consumed, one whose failed migration leads to recovery, and   *)
(* one that cannot remove the marker.                                      *)
(***************************************************************************)
RunsSoundUnlessStale == outlived \/ RunsSound

(***************************************************************************)
(* Whatever fails and wherever a process is killed, an intent the user     *)
(* queued and the server has not had is in the store at path or in a       *)
(* quarantined file.                                                       *)
(***************************************************************************)
IntentsSurvive ==
  owed \subseteq archived \cup UNION {s.intents : s \in {db, aside} \ {NoStore}}

Keeps(i, rows) == i.row \in DOMAIN rows => rows[i.row] = i.meant

(***************************************************************************)
(* An intent on a folder means the folder the user saw, a recovery and the *)
(* sync after it included: its row id never comes to name another, unless  *)
(* a damaged mailbox table was read in part.                               *)
(***************************************************************************)
FolderIntentsKeep ==
  db # NoStore /\ ~torn => \A i \in db.intents : i.on = "folder" => Keeps(i, db.boxes)

(***************************************************************************)
(* A process that runs without engines leaves that state once the server   *)
(* keeps accepting or refusing its credential, be it in turns: its engines *)
(* come up, or it gives up, and that only on a refusal it has met itself,  *)
(* of the credential or of the account row, and never on a failure that    *)
(* may pass.                                                               *)
(***************************************************************************)
RetrySettles ==
  \A p \in Process : Unserved(p) ~> ~Unserved(p) \/ net \notin {"accepts", "denied"}
=============================================================================
