--------------------------- MODULE StartupProofs ----------------------------
(***************************************************************************)
(* Theorems about Startup, for any processes, builds, server objects and   *)
(* bounds: its variables are well typed, engines end before the store is   *)
(* closed, damage is checked for, and no intent is lost or misdirected.    *)
(***************************************************************************)
EXTENDS Startup, SequenceTheorems, TLAPS

-----------------------------------------------------------------------------
(* Stores. *)

Intents == [on : {"message", "folder"}, row : Nat, meant : Message \cup Folder]

LEMMA StoreFields ==
  ASSUME NEW s \in Stores
  PROVE  /\ s.version \in Nat /\ s.sound \in BOOLEAN /\ s.rows \in Seq(Message)
         /\ s.boxes \in Seq(Folder) /\ s.intents \in SUBSET Intents /\ s # NoStore
<1>1. s.version # -1
  BY DEF Stores
<1> QED  BY <1>1 DEF Stores, Intents, NoStore

\* A store one field of which is written.
LEMMA EditVersion ==
  ASSUME NEW s \in Stores, NEW new \in Nat
  PROVE  LET t == [s EXCEPT !.version = new] IN
         /\ t \in Stores /\ t.version = new /\ t.sound = s.sound /\ t.rows = s.rows
         /\ t.boxes = s.boxes /\ t.intents = s.intents
<1> DEFINE t == [s EXCEPT !.version = new]
<1>1. t \in Stores
  BY Zenon DEF Stores, Intents
<1>2. /\ t.version = new /\ t.sound = s.sound /\ t.rows = s.rows
      /\ t.boxes = s.boxes /\ t.intents = s.intents
  BY SMT DEF Stores
<1> QED  BY <1>1, <1>2

LEMMA EditSound ==
  ASSUME NEW s \in Stores, NEW new \in BOOLEAN
  PROVE  LET t == [s EXCEPT !.sound = new] IN
         /\ t \in Stores /\ t.sound = new /\ t.version = s.version /\ t.rows = s.rows
         /\ t.boxes = s.boxes /\ t.intents = s.intents
<1> DEFINE t == [s EXCEPT !.sound = new]
<1>1. t \in Stores
  BY Zenon DEF Stores, Intents
<1>2. /\ t.sound = new /\ t.version = s.version /\ t.rows = s.rows
      /\ t.boxes = s.boxes /\ t.intents = s.intents
  BY SMT DEF Stores
<1> QED  BY <1>1, <1>2

LEMMA EditRows ==
  ASSUME NEW s \in Stores, NEW new \in Seq(Message)
  PROVE  LET t == [s EXCEPT !.rows = new] IN
         /\ t \in Stores /\ t.rows = new /\ t.version = s.version /\ t.sound = s.sound
         /\ t.boxes = s.boxes /\ t.intents = s.intents
<1> DEFINE t == [s EXCEPT !.rows = new]
<1>1. t \in Stores
  BY Zenon DEF Stores, Intents
<1>2. /\ t.rows = new /\ t.version = s.version /\ t.sound = s.sound
      /\ t.boxes = s.boxes /\ t.intents = s.intents
  BY SMT DEF Stores
<1> QED  BY <1>1, <1>2

LEMMA EditBoxes ==
  ASSUME NEW s \in Stores, NEW new \in Seq(Folder)
  PROVE  LET t == [s EXCEPT !.boxes = new] IN
         /\ t \in Stores /\ t.boxes = new /\ t.version = s.version /\ t.sound = s.sound
         /\ t.rows = s.rows /\ t.intents = s.intents
<1> DEFINE t == [s EXCEPT !.boxes = new]
<1>1. t \in Stores
  BY Zenon DEF Stores, Intents
<1>2. /\ t.boxes = new /\ t.version = s.version /\ t.sound = s.sound
      /\ t.rows = s.rows /\ t.intents = s.intents
  BY SMT DEF Stores
<1> QED  BY <1>1, <1>2

LEMMA EditIntents ==
  ASSUME NEW s \in Stores, NEW new \in SUBSET Intents
  PROVE  LET t == [s EXCEPT !.intents = new] IN
         /\ t \in Stores /\ t.intents = new /\ t.version = s.version /\ t.sound = s.sound
         /\ t.rows = s.rows /\ t.boxes = s.boxes
<1> DEFINE t == [s EXCEPT !.intents = new]
<1>1. t \in Stores
  BY Zenon DEF Stores, Intents
<1>2. /\ t.intents = new /\ t.version = s.version /\ t.sound = s.sound
      /\ t.rows = s.rows /\ t.boxes = s.boxes
  BY SMT DEF Stores
<1> QED  BY <1>1, <1>2

LEMMA FreshStore ==
  /\ Fresh \in Stores
  /\ Fresh.sound /\ Fresh.intents = {} /\ Fresh.boxes = <<>> /\ Fresh.version = 0
  BY EmptySeq DEF Fresh, Stores

\* What extractPreserved makes of what it read.
LEMMA KeptStore ==
  ASSUME NEW v \in Nat, NEW b \in Seq(Folder), NEW i \in SUBSET Intents
  PROVE  LET t == Preserved(v, b, i) IN
         t \in Stores /\ t.sound /\ t.boxes = b /\ t.intents = i /\ t.version = v
<1> DEFINE t1 == [Fresh EXCEPT !.version = v]
           t2 == [t1 EXCEPT !.boxes = b]
           t3 == [t2 EXCEPT !.intents = i]
<1>1. t1 \in Stores /\ t1.sound /\ t1.version = v
  BY FreshStore, EditVersion
<1> HIDE DEF t1
<1>2. t2 \in Stores /\ t2.sound /\ t2.version = v /\ t2.boxes = b
  BY <1>1, EditBoxes
<1> HIDE DEF t2
<1>3. t3 \in Stores /\ t3.sound /\ t3.version = v /\ t3.boxes = b /\ t3.intents = i
  BY <1>2, EditIntents
<1>4. t3 = Preserved(v, b, i)
  BY DEF t1, t2, t3, Preserved
<1> QED  BY <1>3, <1>4

\* What a rebuild that stops short leaves.
LEMMA UnbuiltStore ==
  ASSUME NEW p \in Process, NEW s \in Unbuilt(p)
  PROVE  IsStore(s) /\ (s # NoStore => s.sound /\ s.intents = {})
<1>1. CASE s = NoStore
  BY <1>1 DEF IsStore
<1>2. CASE s # NoStore
  <2>1. PICK v \in 0..Build[p] : s = [Fresh EXCEPT !.version = v]
    BY <1>2 DEF Unbuilt
  <2>2. v \in Nat /\ v <= Build[p]
    BY StartupInputs
  <2> QED  BY <2>1, <2>2, FreshStore, EditVersion DEF IsStore
<1> QED  BY <1>1, <1>2

LEMMA PrefixTyped ==
  ASSUME NEW S, NEW s \in Seq(S), NEW t \in Prefixes(s)
  PROVE  t \in Seq(S)
<1>1. PICK n \in 0..Len(s) : t = SubSeq(s, 1, n)
  BY DEF Prefixes
<1>2. Len(s) \in Nat
  BY LenProperties
<1> QED  BY <1>1, <1>2, SubSeqProperties
-----------------------------------------------------------------------------
(* The holder of the lock, and what the store is while it is at a place. *)

\* Where the process that holds the lock is.
Where == IF lock = Nobody THEN "off" ELSE pc[lock]

Idle == {"off", "lock"}

StageAt(place) ==
  /\ place \in {"migrate", "integrity", "extract", "quarantine", "restore", "writer", "marking"} \cup Opened
       => db # NoStore
  /\ place = "rebuild" => db = NoStore
  /\ place = "restore" => db.sound /\ db.intents = {}
  /\ place = "unquarantine" => db = NoStore \/ db.intents = {}
  /\ aside # NoStore <=> place \in {"rebuild", "restore", "unquarantine"}
  /\ place \in {"quarantine", "rebuild", "restore"} => kept.sound /\ \E p \in Process : kept.version <= Build[p]

Stage == (lock # Nobody => pc[lock] \notin Idle) /\ StageAt(Where)

LEMMA Here ==
  ASSUME TypeOK, NEW p \in Process, pc[p] \notin Idle
  PROVE  lock = p /\ Where = pc[p] /\ lock # Nobody /\ \A q \in Process \ {p} : pc[q] \in Idle
  BY NobodyIsNone DEF TypeOK, Where, Idle

LEMMA There ==
  ASSUME TypeOK, NEW p \in Process, pc[p] \notin Idle, NEW to \in Places \ Idle, Goto(p, to), lock' = lock
  PROVE  /\ pc' \in [Process -> Places] /\ Where' = to /\ pc'[p] = to
         /\ \A q \in Process : pc'[q] \notin Idle => lock' = q
         /\ lock' # Nobody => pc'[lock'] \notin Idle
<1>1. lock = p /\ lock # Nobody /\ \A q \in Process \ {p} : pc[q] \in Idle
  BY Here
<1>2. pc \in [Process -> Places] /\ pc' = [pc EXCEPT ![p] = to]
  BY DEF TypeOK, Goto
<1> QED  BY <1>1, <1>2 DEF Where

LEMMA StepKept ==
  ASSUME TypeOK, Stage, NEW p \in Process, NEW from \in Places \ Idle, NEW to \in Places \ Idle,
         Step(p, from, to), StageAt(from) => StageAt(to)
  PROVE  TypeOK' /\ Stage'
<1>1. pc[p] = from /\ Goto(p, to) /\ UNCHANGED <<store, lock, mode, engines, kept, outside, history>>
  BY DEF Step
<1>2. Where = from
  BY <1>1, Here
<1>3. /\ pc' \in [Process -> Places] /\ Where' = to /\ \A q \in Process : pc'[q] \notin Idle => lock' = q
      /\ lock' # Nobody => pc'[lock'] \notin Idle
  BY <1>1, There
<1>4. TypeOK'
  BY <1>1, <1>3 DEF TypeOK, store, outside, history, Idle, IsStore
<1>5. StageAt(to)'
  BY <1>1, <1>2 DEF Stage, StageAt, store
<1> QED  BY <1>3, <1>4, <1>5 DEF Stage, StageAt

\* The steps that leave everything but the place as it is: on to the next, or out.
Steps(p) ==
  \/ TooNew(p) \/ CheckPasses(p) \/ CheckCancelled(p) \/ QuarantineFails(p) \/ OpenWriter(p)
  \/ StartFails(p) \/ Reclaim(p) \/ ConnectOk(p) \/ ConnectFatal(p) \/ Quit(p) \/ EnginesDone(p)
  \/ CloseWriter(p) \/ CloseFails(p) \/ MarkFails(p)

Forward(p, from, to) ==
  \/ to = "leaving" /\ from \notin {"rebuild", "restore", "unquarantine", "running", "stopping"}
  \/ from = "integrity" /\ to = "writer" /\ db.sound
  \/ from = "writer" /\ to = "reclaim"
  \/ from = "reclaim" /\ to \in {"closing", "connect"}
  \/ from = "connect" /\ to = "account"
  \/ from = "running" /\ to = "stopping"
  \/ from = "stopping" /\ to = "closing" /\ engines[p] = "none"
  \/ from = "closing" /\ to = "marking"

LEMMA StepsForward ==
  ASSUME NEW p \in Process, Steps(p)
  PROVE  \E from, to \in Places \ Idle : Step(p, from, to) /\ Forward(p, from, to)
<1> USE DEF Forward, Places, Idle
<1>1. CASE TooNew(p)
  BY <1>1 DEF TooNew
<1>2. CASE CheckPasses(p)
  BY <1>2 DEF CheckPasses
<1>3. CASE CheckCancelled(p)
  BY <1>3 DEF CheckCancelled
<1>4. CASE QuarantineFails(p)
  BY <1>4 DEF QuarantineFails
<1>5. CASE OpenWriter(p)
  BY <1>5 DEF OpenWriter
<1>6. CASE StartFails(p)
  BY <1>6 DEF StartFails
<1>7. CASE Reclaim(p)
  BY <1>7 DEF Reclaim
<1>8. CASE ConnectOk(p)
  BY <1>8 DEF ConnectOk
<1>9. CASE ConnectFatal(p)
  BY <1>9 DEF ConnectFatal
<1>10. CASE Quit(p)
  BY <1>10 DEF Quit
<1>11. CASE EnginesDone(p)
  BY <1>11 DEF EnginesDone
<1>12. CASE CloseWriter(p)
  BY <1>12 DEF CloseWriter
<1>13. CASE CloseFails(p)
  BY <1>13 DEF CloseFails
<1>14. CASE MarkFails(p)
  BY <1>14 DEF MarkFails
<1> QED
  BY <1>1, <1>2, <1>3, <1>4, <1>5, <1>6, <1>7, <1>8, <1>9, <1>10, <1>11, <1>12, <1>13, <1>14 DEF Steps

LEMMA StepsKept ==
  ASSUME TypeOK, Stage, NEW p \in Process, Steps(p)
  PROVE  TypeOK' /\ Stage'
<1>1. PICK from \in Places \ Idle, to \in Places \ Idle : Step(p, from, to) /\ Forward(p, from, to)
  BY StepsForward
<1>2. StageAt(from) => StageAt(to)
  BY <1>1 DEF Forward, StageAt, Opened
<1> QED  BY <1>1, <1>2, StepKept

\* A move of the holder after which the stores are typed, and stand as the place asks.
LEMMA MoveKept ==
  ASSUME TypeOK, Stage, NEW p \in Process, pc[p] \notin Idle, NEW to \in Places \ Idle, Goto(p, to),
         lock' = lock, UNCHANGED <<mode, net>>, engines' \in [Process -> {"none", "retrying", "up"}], UNCHANGED gaveUp,
         IsStore(db)', IsStore(aside)', kept' \in Stores, {marker, outlived, torn}' \subseteq BOOLEAN,
         StageAt(to)'
  PROVE  TypeOK' /\ Stage'
<1>1. /\ pc' \in [Process -> Places] /\ Where' = to /\ \A q \in Process : pc'[q] \notin Idle => lock' = q
      /\ lock' # Nobody => pc'[lock'] \notin Idle
  BY There
<1>2. TypeOK'
  BY <1>1 DEF TypeOK, Idle
<1> QED  BY <1>1, <1>2 DEF Stage, StageAt

LEMMA OpenConnKept ==
  ASSUME TypeOK, Stage, NEW p \in Process, OpenConn(p)
  PROVE  TypeOK' /\ Stage'
<1>1. Where = "open"
  BY Here DEF OpenConn, Idle
<1>2. db' \in Stores /\ IsStore(db)'
  BY FreshStore, StartupInputs DEF OpenConn, TypeOK, IsStore
<1>3. kept' \in Stores
  BY <1>2, FreshStore, EditVersion, StoreFields DEF OpenConn
<1>4. StageAt("migrate")'
  BY <1>1, <1>2, StoreFields DEF OpenConn, Stage, StageAt, Opened
<1>5. pc[p] \notin Idle /\ "migrate" \in Places \ Idle
  BY DEF OpenConn, Idle, Places
<1> QED  BY <1>2, <1>3, <1>4, <1>5, MoveKept DEF OpenConn, TypeOK, outside, history, IsStore

LEMMA MigrateKept ==
  ASSUME TypeOK, Stage, NEW p \in Process, Migrate(p)
  PROVE  TypeOK' /\ Stage' /\ db'.sound = db.sound /\ db'.intents = db.intents /\ db'.boxes = db.boxes /\ db' # NoStore
<1>1. Where = "migrate" /\ Where' = Where
  BY Here DEF Migrate, Idle, Where
<1>2. db \in Stores /\ db.version \in Nat
  BY <1>1, StoreFields DEF TypeOK, IsStore, Stage, StageAt
<1>3. /\ db' \in Stores /\ db'.version = db.version + 1
      /\ db'.sound = db.sound /\ db'.intents = db.intents /\ db'.boxes = db.boxes
  <2>1. db.version + 1 \in Nat
    BY <1>2
  <2> QED  BY <1>2, <2>1, EditVersion DEF Migrate
<1>4. Build[p] \in Nat
  BY StartupInputs
<1>5. IsStore(db)' /\ db' # NoStore
  BY <1>2, <1>3, <1>4, StoreFields DEF Migrate, IsStore
<1>6. TypeOK'
  BY <1>5 DEF Migrate, TypeOK, outside, history, IsStore
<1>7. Stage'
  BY <1>1, <1>5 DEF Migrate, Stage, StageAt, Opened
<1> QED  BY <1>3, <1>5, <1>6, <1>7

\* The steps of prepareStore that leave the store.
LEMMA PrepareKept ==
  ASSUME TypeOK, Stage, NEW p \in Process,
         MigrateFails(p) \/ Migrated(p) \/ MarkerStays(p) \/ CheckFails(p)
  PROVE  TypeOK' /\ Stage'
<1> DEFINE Kept(to) == /\ to \in Places \ Idle /\ Goto(p, to) /\ StageAt(to)'
                       /\ kept' \in Stores /\ {marker, outlived, torn}' \subseteq BOOLEAN
<1>1. pc[p] \in {"migrate", "integrity"} /\ pc[p] \notin Idle
  BY DEF MigrateFails, Migrated, MarkerStays, CheckFails, Idle
<1>2. Where = pc[p]
  BY <1>1, Here
<1>3. UNCHANGED <<db, aside, lock, mode, net, engines, gaveUp>>
  BY DEF MigrateFails, Migrated, MarkerStays, CheckFails, store, outside, history
<1>4. \E to : Kept(to)
  <2>1. CASE MigrateFails(p)
    <3>1. PICK to \in {"extract", "leaving"} : Goto(p, to)
      BY <2>1 DEF MigrateFails, Offer
    <3>2. Kept(to)
      BY <1>1, <1>2, <2>1, <3>1 DEF MigrateFails, TypeOK, store, Stage, StageAt, Opened, Places, Idle
    <3> QED  BY <3>2
  <2>2. CASE Migrated(p)
    <3>1. PICK to \in {"integrity", "writer"} : Goto(p, to)
      BY <2>2 DEF Migrated
    <3>2. Kept(to)
      BY <1>1, <1>2, <2>2, <3>1, FreshStore DEF Migrated, TypeOK, history, Stage, StageAt, Opened, Places, Idle
    <3> QED  BY <3>2
  <2>3. CASE MarkerStays(p)
    <3>1. Kept("integrity")
      BY <1>1, <1>2, <2>3, FreshStore DEF MarkerStays, TypeOK, store, Stage, StageAt, Opened, Places, Idle
    <3> QED  BY <3>1
  <2>4. CASE CheckFails(p)
    <3>1. PICK to \in {"extract", "leaving"} : Goto(p, to)
      BY <2>4 DEF CheckFails, Offer
    <3>2. Kept(to)
      BY <1>1, <1>2, <2>4, <3>1 DEF CheckFails, TypeOK, store, history, Stage, StageAt, Opened, Places, Idle
    <3> QED  BY <3>2
  <2> QED  BY <2>1, <2>2, <2>3, <2>4
<1>5. PICK to : Kept(to)
  BY <1>4
<1> QED  BY <1>1, <1>3, <1>5, MoveKept DEF TypeOK, IsStore

\* The steps of Recover.
LEMMA ExtractReads ==
  ASSUME TypeOK, Stage, NEW p \in Process, Extract(p)
  PROVE  /\ Where = "extract" /\ db \in Stores /\ kept' \in Stores /\ kept'.sound /\ kept'.version = Build[p]
         /\ kept'.intents \subseteq db.intents
<1>1. Where = "extract"
  BY Here DEF Extract, Idle
<1>2. db \in Stores
  BY <1>1 DEF TypeOK, IsStore, Stage, StageAt
<1>3. PICK boxes \in Prefixes(db.boxes), intents \in SUBSET db.intents :
        kept' = Preserved(Build[p], boxes, intents)
  BY DEF Extract
<1>4. boxes \in Seq(Folder) /\ intents \in SUBSET Intents /\ Build[p] \in Nat
  BY <1>2, <1>3, PrefixTyped, StoreFields, StartupInputs
<1> QED  BY <1>1, <1>2, <1>3, <1>4, KeptStore

LEMMA RestoreWrites ==
  ASSUME TypeOK, Stage, NEW p \in Process, Restore(p)
  PROVE  /\ Where = "restore" /\ db \in Stores /\ aside \in Stores /\ db' \in {db, kept}
         /\ db' # NoStore /\ db'.sound /\ IsStore(db)'
<1>1. Where = "restore"
  BY Here DEF Restore, Idle
<1>2. /\ db \in Stores /\ aside \in Stores /\ kept \in Stores /\ db.sound /\ kept.sound
      /\ \E q \in Process : kept.version <= Build[q]
  BY <1>1 DEF TypeOK, IsStore, Stage, StageAt
<1>3. db' \in {db, kept}
  BY DEF Restore, Restored
<1> QED  BY <1>1, <1>2, <1>3, StoreFields DEF TypeOK, IsStore

LEMMA RecoverKept ==
  ASSUME TypeOK, Stage, NEW p \in Process,
         Extract(p) \/ Quarantine(p) \/ Rebuild(p) \/ Restore(p) \/ RebuildFails(p) \/ Unquarantine(p)
  PROVE  TypeOK' /\ Stage'
<1> DEFINE Kept(to) == /\ to \in Places \ Idle /\ Goto(p, to) /\ StageAt(to)' /\ IsStore(db)' /\ IsStore(aside)'
                       /\ kept' \in Stores /\ {marker, outlived, torn}' \subseteq BOOLEAN
<1>1. pc[p] \in {"extract", "quarantine", "rebuild", "restore", "unquarantine"} /\ pc[p] \notin Idle
  BY DEF Extract, Quarantine, Rebuild, Restore, RebuildFails, Unquarantine, Idle
<1>2. Where = pc[p]
  BY <1>1, Here
<1>3. UNCHANGED <<lock, mode, net, engines, gaveUp>>
  BY DEF Extract, Quarantine, Rebuild, Restore, RebuildFails, Unquarantine, store, outside, history
<1>4. \E to : Kept(to)
  <2>1. CASE Extract(p)
    <3> UNCHANGED <<db, aside, marker, outlived, torn>> /\ Build[p] <= Build[p]
      BY <2>1, StartupInputs DEF Extract, store, history
    <3>1. Kept("quarantine")
      BY <1>2, <2>1, ExtractReads
         DEF Extract, TypeOK, IsStore, store, history, Stage, StageAt, Opened, Places, Idle
    <3> QED  BY <3>1
  <2>2. CASE Quarantine(p)
    <3>1. Kept("rebuild")
      BY <1>2, <2>2 DEF Quarantine, TypeOK, IsStore, history, Stage, StageAt, Opened, Places, Idle
    <3> QED  BY <3>1
  <2>3. CASE Rebuild(p)
    <3>1. db' \in Stores /\ IsStore(db)' /\ db'.sound /\ db'.intents = {}
      <4>1. Build[p] \in Nat
        BY StartupInputs
      <4> QED  BY <2>3, <4>1, FreshStore, EditVersion DEF Rebuild, IsStore
    <3>2. Kept("restore")
      BY <1>2, <2>3, <3>1, StoreFields DEF Rebuild, TypeOK, IsStore, history, Stage, StageAt, Opened, Places, Idle
    <3> QED  BY <3>2
  <2>4. CASE Restore(p)
    <3>1. {torn}' \subseteq BOOLEAN
      BY <2>4 DEF Restore, TypeOK
    <3>2. Kept("writer")
      BY <1>2, <2>4, <3>1, RestoreWrites, FreshStore DEF Restore, TypeOK, IsStore, Stage, StageAt, Opened, Places, Idle
    <3> QED  BY <3>2
  <2>5. CASE RebuildFails(p)
    <3>1. IsStore(db)' /\ (db' = NoStore \/ db'.intents = {})
      BY <1>2, <2>5, UnbuiltStore DEF RebuildFails, TypeOK, Stage, StageAt
    <3>2. Kept("unquarantine")
      BY <1>2, <2>5, <3>1, FreshStore
         DEF RebuildFails, TypeOK, IsStore, history, Stage, StageAt, Opened, Places, Idle
    <3> QED  BY <3>2
  <2>6. CASE Unquarantine(p)
    <3>1. Kept("leaving")
      BY <1>2, <2>6 DEF Unquarantine, TypeOK, IsStore, history, Stage, StageAt, Opened, Places, Idle
    <3> QED  BY <3>1
  <2> QED  BY <2>1, <2>2, <2>3, <2>4, <2>5, <2>6
<1>5. PICK to : Kept(to)
  BY <1>4
<1> QED  BY <1>1, <1>3, <1>5, MoveKept DEF TypeOK

LEMMA ConnectKept ==
  ASSUME TypeOK, Stage, NEW p \in Process, ConnectLater(p) \/ EnsureAccount(p) \/ MarkClean(p)
  PROVE  TypeOK' /\ Stage'
<1>1. /\ UNCHANGED <<db, aside, lock, mode, net, kept, torn, gaveUp>>
      /\ engines' \in [Process -> {"none", "retrying", "up"}] /\ {marker, outlived}' \subseteq BOOLEAN
  BY DEF ConnectLater, EnsureAccount, MarkClean, store, outside, history, TypeOK
<1>2. /\ pc[p] \in {"connect", "account", "marking"} /\ pc[p] \notin Idle
      /\ \E to \in {"running", "leaving"} : Goto(p, to)
  BY DEF ConnectLater, EnsureAccount, MarkClean, Idle
<1>3. Where = pc[p]
  BY <1>2, Here
<1>4. PICK to \in {"running", "leaving"} : Goto(p, to)
  BY <1>2
<1>5. to \in Places \ Idle /\ StageAt(to)'
  BY <1>1, <1>2, <1>3, <1>4 DEF Stage, StageAt, Opened, Places, Idle
<1> QED  BY <1>1, <1>2, <1>4, <1>5, MoveKept DEF TypeOK, IsStore

LEMMA NoModeTyped == NoMode \in Modes
  BY DEF NoMode, Modes

\* Steps of a process that does not hold the lock.
LEMMA OutsideKept ==
  ASSUME TypeOK, Stage, NEW p \in Process, Start(p) \/ Refused(p)
  PROVE  TypeOK' /\ Stage'
<1>1. UNCHANGED <<db, aside, marker, lock, net, engines, kept, outlived, torn, gaveUp>>
  BY DEF Start, Refused, store, outside, history
<1>2. pc[p] \in Idle /\ lock # p
  BY NobodyIsNone DEF Start, Refused, Idle, Stage
<1>3. PICK to \in Idle : Goto(p, to)
  BY DEF Start, Refused, Gone, Goto, Idle
<1>4. mode' \in [Process -> Modes]
  <2>1. \E m \in Modes : mode' = [mode EXCEPT ![p] = m]
    BY NoModeTyped DEF Start, Refused, Gone
  <2> QED  BY <2>1 DEF TypeOK
<1>5. pc' \in [Process -> Places] /\ \A q \in Process : q # p => pc'[q] = pc[q]
  BY <1>3 DEF Goto, TypeOK, Places, Idle
<1>6. TypeOK'
  BY <1>1, <1>2, <1>3, <1>4, <1>5 DEF TypeOK, IsStore, Idle, Goto
<1>7. Where' = Where /\ (lock # Nobody => pc'[lock] = pc[lock])
  BY <1>1, <1>2, <1>5 DEF Where, TypeOK
<1> QED  BY <1>1, <1>6, <1>7 DEF Stage, StageAt

LEMMA AcquireKept ==
  ASSUME TypeOK, Stage, NEW p \in Process, Acquire(p)
  PROVE  TypeOK' /\ Stage'
<1>1. /\ UNCHANGED <<db, aside, marker, mode, net, engines, kept, outlived, torn, gaveUp>>
      /\ lock = Nobody /\ lock' = p
  BY DEF Acquire, store, outside, history
<1>2. pc' \in [Process -> Places] /\ \A q \in Process : pc'[q] = IF q = p THEN "open" ELSE pc[q]
  BY DEF Acquire, Goto, TypeOK, Places
<1>3. \A q \in Process : pc[q] \in Idle
  BY <1>1, NobodyIsNone DEF TypeOK, Idle
<1>4. TypeOK'
  BY <1>1, <1>2, <1>3 DEF TypeOK, IsStore, Idle
<1>5. Where = "off" /\ Where' = "open" /\ pc'[lock'] \notin Idle
  BY <1>1, <1>2, NobodyIsNone DEF Where, Idle
<1> QED  BY <1>1, <1>4, <1>5 DEF Stage, StageAt, Opened

LEMMA ReleaseKept ==
  ASSUME TypeOK, Stage, NEW p \in Process, Release(p)
  PROVE  TypeOK' /\ Stage'
<1>1. /\ UNCHANGED <<db, aside, marker, net, engines, outlived, torn>>
      /\ lock' = Nobody /\ pc[p] = "leaving"
  BY DEF Release, store, outside
<1>2. Where = "leaving" /\ \A q \in Process \ {p} : pc[q] \in Idle
  BY <1>1, Here DEF Idle
<1>3. pc' \in [Process -> Places] /\ \A q \in Process : pc'[q] = IF q = p THEN "off" ELSE pc[q]
  BY DEF Release, Gone, TypeOK, Places
<1>4. mode' \in [Process -> Modes] /\ kept' \in Stores /\ gaveUp' \in [Process -> {"no", "store"} \cup Answers]
  BY FreshStore DEF Release, Gone, TypeOK, Modes, NoMode
<1>5. TypeOK'
  BY <1>1, <1>2, <1>3, <1>4 DEF TypeOK, IsStore, Idle
<1> QED  BY <1>1, <1>2, <1>5 DEF Stage, StageAt, Where, Opened

\* The engines come and go beside a running process.
EnginesMove(p) == RetryOk(p) \/ RetryEnds(p) \/ EnginesStop(p)

LEMMA EnginesKept ==
  ASSUME TypeOK, Stage, NEW p \in Process, EnginesMove(p)
  PROVE  TypeOK' /\ Stage'
<1> USE DEF EnginesMove
<1>1. UNCHANGED <<db, aside, marker, lock, pc, mode, net, kept, outlived, torn>>
  BY DEF RetryOk, RetryEnds, Ends, EnginesStop, store, outside, history
<1>2. engines' \in [Process -> {"none", "retrying", "up"}] /\ gaveUp' \in [Process -> {"no", "store"} \cup Answers]
  BY DEF RetryOk, RetryEnds, Ends, EnginesStop, TypeOK, history
<1>3. TypeOK'
  BY <1>1, <1>2 DEF TypeOK, IsStore
<1> QED  BY <1>1, <1>3 DEF Stage, StageAt, Where

\* What a kill leaves of the store, and of the file set aside.
LEMMA KillLeaves ==
  ASSUME TypeOK, Stage, NEW p \in Process, Kill(p)
  PROVE  /\ IsStore(db)' /\ (db # NoStore => db' # NoStore)
         /\ db # NoStore => /\ db'.intents = db.intents /\ db'.boxes = db.boxes
                            /\ db'.sound = db.sound \/ Writing(p)
         /\ db = NoStore /\ db' # NoStore => Writing(p) /\ db'.intents = {}
         /\ IF Writing(p) THEN lock = p /\ Where = pc[p] ELSE db' = db
<1>1. Writing(p) => lock = p /\ Where = pc[p]
  BY Here DEF Writing, Opened, Idle
<1>2. Writing(p) => (db = NoStore <=> pc[p] = "rebuild")
  BY <1>1 DEF Writing, Opened, Stage, StageAt
<1>3. pc[p] = "rebuild" => Writing(p)
  BY DEF Writing
<1>4. PICK s \in IF pc[p] = "rebuild" THEN Unbuilt(p) ELSE {db} :
        db' = s \/ (Writing(p) /\ s # NoStore /\ db' = [s EXCEPT !.sound = FALSE])
  BY DEF Kill
<1>5. /\ IsStore(s) /\ (db # NoStore => s = db) /\ (~Writing(p) => s = db)
      /\ db = NoStore /\ s # NoStore => s.intents = {}
  <2>1. CASE pc[p] = "rebuild"
    BY <1>2, <1>3, <1>4, <2>1, UnbuiltStore
  <2>2. CASE pc[p] # "rebuild"
    BY <1>4, <2>2 DEF TypeOK
  <2> QED  BY <2>1, <2>2
<1>6. CASE db' = s
  BY <1>1, <1>2, <1>3, <1>4, <1>5, <1>6 DEF IsStore
<1>7. CASE Writing(p) /\ s # NoStore /\ db' = [s EXCEPT !.sound = FALSE]
  <2>1. s \in Stores
    BY <1>5, <1>7 DEF IsStore
  <2>2. /\ db' \in Stores /\ db'.version = s.version /\ db'.intents = s.intents /\ db'.boxes = s.boxes
    BY <1>7, <2>1, EditSound
  <2>3. IsStore(db)' /\ db' # NoStore
    BY <1>5, <1>7, <2>2, StoreFields DEF IsStore
  <2> QED  BY <1>1, <1>5, <1>7, <2>2, <2>3
<1> QED  BY <1>4, <1>6, <1>7

LEMMA KillKept ==
  ASSUME TypeOK, Stage, NEW p \in Process, Kill(p)
  PROVE  TypeOK' /\ Stage'
<1>1. UNCHANGED <<marker, net, torn>> /\ outlived' \in BOOLEAN
  BY DEF Kill, TypeOK
<1>2. pc' \in [Process -> Places] /\ \A q \in Process : pc'[q] = IF q = p THEN "off" ELSE pc[q]
  BY DEF Kill, Gone, TypeOK, Places
<1>3. /\ mode' \in [Process -> Modes] /\ kept' \in Stores
      /\ gaveUp' \in [Process -> {"no", "store"} \cup Answers]
      /\ engines' \in [Process -> {"none", "retrying", "up"}] /\ lock' \in {lock, Nobody}
  BY FreshStore DEF Kill, Gone, TypeOK, Modes, NoMode
<1>4. IsStore(aside)'
  BY DEF Kill, TypeOK, IsStore
<1>5. CASE lock = p
  <2>1. lock' = Nobody /\ \A q \in Process \ {p} : pc[q] \in Idle
    BY <1>5, NobodyIsNone DEF Kill, TypeOK, Idle
  <2>2. TypeOK'
    BY <1>1, <1>2, <1>3, <1>4, <1>5, <2>1, KillLeaves DEF TypeOK, Idle
  <2>3. aside' = NoStore
    BY <1>5 DEF Kill
  <2> QED  BY <2>1, <2>2, <2>3 DEF Stage, StageAt, Where, Opened
<1>6. CASE lock # p
  <2>1. /\ UNCHANGED <<lock, aside, kept>> /\ (lock # Nobody => pc'[lock] = pc[lock])
        /\ Where' = Where
    BY <1>2, <1>6 DEF Kill, Where, TypeOK
  <2>2. TypeOK'
    BY <1>1, <1>2, <1>3, <1>4, <2>1, KillLeaves DEF TypeOK, Idle
  <2>3. db' = db
    BY <1>6, KillLeaves
  <2> QED  BY <2>1, <2>2, <2>3 DEF Stage, StageAt
<1> QED  BY <1>5, <1>6

\* What a running process writes.
LEMMA RunningStore ==
  ASSUME TypeOK, Stage, NEW p \in Process, WriterOpen(p)
  PROVE  lock = p /\ Where = pc[p] /\ db \in Stores
<1>1. lock = p /\ Where = pc[p] /\ pc[p] \in Opened
  BY Here DEF WriterOpen, Opened, Idle
<1> QED  BY <1>1 DEF Stage, StageAt, TypeOK, IsStore

LEMMA SyncWrites ==
  ASSUME TypeOK, Stage, NEW p \in Process, Sync(p)
  PROVE  /\ db' \in Stores /\ db'.version = db.version /\ db'.sound = db.sound /\ db'.intents = db.intents
         /\ db'.boxes = db.boxes \/ \E f \in Folder : db'.boxes = Append(db.boxes, f)
<1>1. db \in Stores
  BY RunningStore DEF Sync
<1>2. ASSUME NEW m \in Message, db' = [db EXCEPT !.rows = Append(@, m)]
      PROVE  /\ db' \in Stores /\ db'.version = db.version /\ db'.sound = db.sound
             /\ db'.intents = db.intents /\ db'.boxes = db.boxes
  <2>1. Append(db.rows, m) \in Seq(Message)
    BY <1>1, StoreFields
  <2> QED  BY <1>1, <1>2, <2>1, EditRows
<1>3. ASSUME NEW f \in Folder, db' = [db EXCEPT !.boxes = Append(@, f)]
      PROVE  /\ db' \in Stores /\ db'.version = db.version /\ db'.sound = db.sound
             /\ db'.intents = db.intents /\ db'.boxes = Append(db.boxes, f)
  <2>1. Append(db.boxes, f) \in Seq(Folder)
    BY <1>1, StoreFields
  <2> QED  BY <1>1, <1>3, <2>1, EditBoxes
<1> QED  BY <1>2, <1>3 DEF Sync

\* The intents a user may queue against a store.
Named(s) == {[on |-> "message", row |-> r, meant |-> s.rows[r]] : r \in DOMAIN s.rows}
              \cup {[on |-> "folder", row |-> r, meant |-> s.boxes[r]] : r \in DOMAIN s.boxes}

LEMMA NamedTyped ==
  ASSUME NEW s \in Stores, NEW i \in Named(s)
  PROVE  i \in Intents /\ (i.on = "folder" => i.row \in DOMAIN s.boxes /\ s.boxes[i.row] = i.meant)
<1>1. s.rows \in Seq(Message) /\ s.boxes \in Seq(Folder)
  BY StoreFields
<1>2. CASE \E r \in DOMAIN s.rows : i = [on |-> "message", row |-> r, meant |-> s.rows[r]]
  BY <1>1, <1>2, LenProperties DEF Intents
<1>3. CASE \E r \in DOMAIN s.boxes : i = [on |-> "folder", row |-> r, meant |-> s.boxes[r]]
  BY <1>1, <1>3, LenProperties DEF Intents
<1> QED  BY <1>2, <1>3 DEF Named

LEMMA IntentsWritten ==
  ASSUME TypeOK, Stage, NEW p \in Process, Enqueue(p) \/ Dispatch(p)
  PROVE  /\ db' \in Stores /\ db'.version = db.version /\ db'.sound = db.sound /\ db'.boxes = db.boxes
         /\ \/ Enqueue(p) /\ \E i \in Named(db) : db'.intents = db.intents \cup {i} /\ owed' = owed \cup {i}
            \/ Dispatch(p) /\ \E i \in db.intents : db'.intents = db.intents \ {i} /\ owed' = owed \ {i}
<1>1. db \in Stores /\ db.intents \in SUBSET Intents
  BY RunningStore, StoreFields DEF Enqueue, Dispatch, WriterOpen, Opened
<1>2. CASE Enqueue(p)
  <2>1. PICK i \in Named(db) : db' = [db EXCEPT !.intents = @ \cup {i}] /\ owed' = owed \cup {i}
    BY <1>2 DEF Enqueue, Named
  <2>2. db.intents \cup {i} \in SUBSET Intents
    BY <1>1, NamedTyped
  <2> QED  BY <1>1, <1>2, <2>1, <2>2, EditIntents
<1>3. CASE Dispatch(p)
  <2>1. PICK i \in db.intents : db' = [db EXCEPT !.intents = @ \ {i}] /\ owed' = owed \ {i}
    BY <1>3 DEF Dispatch
  <2>2. db.intents \ {i} \in SUBSET Intents
    BY <1>1
  <2> QED  BY <1>1, <1>3, <2>1, <2>2, EditIntents
<1> QED  BY <1>2, <1>3

LEMMA WritesKept ==
  ASSUME TypeOK, Stage, NEW p \in Process, Sync(p) \/ Enqueue(p) \/ Dispatch(p)
  PROVE  TypeOK' /\ Stage'
<1>1. WriterOpen(p)
  BY DEF Sync, Enqueue, Dispatch, WriterOpen, Opened
<1>2. db' \in Stores /\ db'.version = db.version
  BY SyncWrites, IntentsWritten
<1>3. UNCHANGED <<aside, marker, lock, pc, mode, net, engines, kept, outlived, torn, gaveUp>>
  BY DEF Sync, Enqueue, Dispatch, outside, history
<1>4. db \in Stores /\ pc[p] = Where
  BY <1>1, RunningStore
<1>5. TypeOK'
  BY <1>2, <1>3, <1>4, StoreFields DEF TypeOK, IsStore
<1> QED  BY <1>1, <1>2, <1>3, <1>4, <1>5, StoreFields DEF Stage, StageAt, Where, WriterOpen, Opened

\* Every step, by what it may write.
Recovers(p) == Extract(p) \/ Quarantine(p) \/ Rebuild(p) \/ Restore(p) \/ RebuildFails(p) \/ Unquarantine(p)
Prepares(p) == MigrateFails(p) \/ Migrated(p) \/ MarkerStays(p) \/ CheckFails(p)

LEMMA NextCases ==
  ASSUME [Next]_vars
  PROVE  \/ UNCHANGED vars \/ NetChanges
         \/ \E p \in Process :
              \/ Steps(p) \/ Start(p) \/ Refused(p) \/ Acquire(p) \/ Release(p) \/ Kill(p)
              \/ OpenConn(p) \/ Migrate(p) \/ Prepares(p) \/ Recovers(p)
              \/ ConnectLater(p) \/ EnsureAccount(p) \/ MarkClean(p) \/ EnginesMove(p)
              \/ Sync(p) \/ Enqueue(p) \/ Dispatch(p)
  BY DEF Next, Prepare, Leave, Retry, Steps, Prepares, Recovers, EnginesMove

LEMMA NextKept ==
  ASSUME TypeOK, Stage, [Next]_vars
  PROVE  TypeOK' /\ Stage'
<1>1. ASSUME NEW p \in Process, Steps(p) PROVE TypeOK' /\ Stage'
  BY <1>1, StepsKept
<1>2. ASSUME NEW p \in Process, Start(p) \/ Refused(p) \/ Acquire(p) \/ Release(p) \/ Kill(p) PROVE TypeOK' /\ Stage'
  BY <1>2, OutsideKept, AcquireKept, ReleaseKept, KillKept
<1>3. ASSUME NEW p \in Process, OpenConn(p) \/ Migrate(p) \/ Prepares(p) \/ Recovers(p) PROVE TypeOK' /\ Stage'
  BY <1>3, OpenConnKept, MigrateKept, PrepareKept, RecoverKept DEF Prepares, Recovers
<1>4. ASSUME NEW p \in Process, ConnectLater(p) \/ EnsureAccount(p) \/ MarkClean(p) \/ EnginesMove(p)
      PROVE TypeOK' /\ Stage'
  BY <1>4, ConnectKept, EnginesKept
<1>5. ASSUME NEW p \in Process, Sync(p) \/ Enqueue(p) \/ Dispatch(p) PROVE TypeOK' /\ Stage'
  BY <1>5, WritesKept
<1>6. CASE UNCHANGED vars \/ NetChanges
  BY <1>6 DEF vars, store, outside, history, NetChanges, TypeOK, IsStore, Stage, StageAt, Where
<1> QED  BY NextCases, <1>1, <1>2, <1>3, <1>4, <1>5, <1>6

LEMMA InitKept == Init => TypeOK /\ Stage
<1> SUFFICES ASSUME Init PROVE TypeOK /\ Stage
  OBVIOUS
<1>1. db = NoStore /\ aside = NoStore /\ lock = Nobody /\ kept \in Stores
  BY FreshStore DEF Init
<1>2. /\ pc \in [Process -> Places] /\ \A p \in Process : pc[p] = "off"
      /\ engines \in [Process -> {"none", "retrying", "up"}] /\ gaveUp \in [Process -> {"no", "store"} \cup Answers]
  BY DEF Init, Places
<1>3. mode \in [Process -> Modes]
  BY NoModeTyped DEF Init
<1>4. Where = "off" /\ net \in Answers
  BY <1>1, StartupInputs DEF Where, Init
<1> QED  BY <1>1, <1>2, <1>3, <1>4 DEF Init, TypeOK, IsStore, Stage, StageAt, Opened

LEMMA Staged == Spec => [](TypeOK /\ Stage)
<1>1. TypeOK /\ Stage /\ [Next]_vars => (TypeOK /\ Stage)'
  BY NextKept
<1> QED  BY <1>1, InitKept, PTL DEF Spec

\* Every variable of a process's start, run and shutdown keeps its type, and past
\* AcquireInstanceLock a process holds the lock: so at most one is there.
THEOREM TypeCorrect == Spec => []TypeOK
  BY Staged, PTL
-----------------------------------------------------------------------------
(* Engines end before the store is closed. *)

\* The engines, those retryConnect starts late included, run only from the start of
\* runInteractive to its wg.Wait, for any number of processes, starts and kills.
THEOREM EnginesEndFirst == Spec => []StoreOutlivesEngines
<1>1. Init => StoreOutlivesEngines
  BY DEF Init, StoreOutlivesEngines
<1>2. TypeOK /\ StoreOutlivesEngines /\ [Next]_vars => StoreOutlivesEngines'
  <2> SUFFICES ASSUME TypeOK, StoreOutlivesEngines, [Next]_vars PROVE StoreOutlivesEngines'
    OBVIOUS
  <2> USE DEF StoreOutlivesEngines
  <2> pc \in [Process -> Places] /\ engines \in [Process -> {"none", "retrying", "up"}]
    BY DEF TypeOK
  <2>1. ASSUME NEW p \in Process, Steps(p) PROVE StoreOutlivesEngines'
    <3>1. PICK from \in Places \ Idle, to \in Places \ Idle : Step(p, from, to) /\ Forward(p, from, to)
      BY <2>1, StepsForward
    <3>2. pc[p] = from /\ pc' = [pc EXCEPT ![p] = to] /\ engines' = engines
      BY <3>1 DEF Step, Goto
    <3>3. engines[p] # "none" => to = "stopping"
      BY <3>1, <3>2 DEF Forward
    <3> QED  BY <3>2, <3>3
  <2>2. ASSUME NEW p \in Process, Start(p) \/ Refused(p) \/ Acquire(p) \/ Release(p)
        PROVE  StoreOutlivesEngines'
    BY <2>2 DEF Start, Refused, Acquire, Release, Gone, Goto
  <2>3. ASSUME NEW p \in Process, OpenConn(p) \/ Migrate(p) \/ Prepares(p) \/ Recovers(p)
        PROVE  StoreOutlivesEngines'
    <3>1. engines' = engines /\ (pc' = pc \/ \E to : Goto(p, to)) /\ pc[p] \notin {"running", "stopping"}
      BY <2>3 DEF OpenConn, Migrate, Prepares, MigrateFails, Migrated, MarkerStays, CheckFails, Offer,
                  Recovers, Extract, Quarantine, Rebuild, Restore, RebuildFails, Unquarantine
    <3> QED  BY <3>1 DEF Goto
  <2>4. ASSUME NEW p \in Process, ConnectLater(p) \/ EnsureAccount(p) \/ MarkClean(p)
        PROVE  StoreOutlivesEngines'
    BY <2>4 DEF ConnectLater, EnsureAccount, MarkClean, Goto
  <2>5. ASSUME NEW p \in Process, EnginesMove(p) \/ Kill(p) PROVE StoreOutlivesEngines'
    BY <2>5 DEF EnginesMove, RetryOk, RetryEnds, Ends, EnginesStop, Kill, Gone
  <2>6. ASSUME NEW p \in Process, Sync(p) \/ Enqueue(p) \/ Dispatch(p) PROVE StoreOutlivesEngines'
    BY <2>6 DEF Sync, Enqueue, Dispatch
  <2>7. CASE UNCHANGED vars \/ NetChanges
    BY <2>7 DEF vars, NetChanges
  <2> QED  BY NextCases, <2>1, <2>2, <2>3, <2>4, <2>5, <2>6, <2>7
<1> QED  BY <1>1, <1>2, TypeCorrect, PTL DEF Spec
-----------------------------------------------------------------------------
(* Damage is checked for. *)

Consumed == Opened \cup {"integrity", "extract", "quarantine", "rebuild", "restore", "unquarantine", "writer", "marking"}
Trusted == Opened \cup {"writer", "marking"}

\* A marker vouches for the store: one that is damaged has none, past the place that
\* consumes it there is none, and a store is sound from the check to the next marker.
VouchedAt(place) ==
  /\ db # NoStore /\ ~db.sound => ~marker
  /\ place \in Consumed => ~marker
  /\ place \in Trusted => db.sound
Vouched == ~outlived => VouchedAt(Where)

LEMMA PrepareVouched ==
  ASSUME TypeOK, Stage, Vouched, NEW p \in Process, Prepares(p)
  PROVE  Vouched'
<1>1. pc[p] \in {"migrate", "integrity"} /\ Where = pc[p] /\ UNCHANGED <<db, lock>>
  <2>1. pc[p] \in {"migrate", "integrity"} /\ UNCHANGED <<db, lock>>
    BY DEF Prepares, MigrateFails, Migrated, MarkerStays, CheckFails, store
  <2> QED  BY <2>1, Here DEF Idle
<1>2. db # NoStore
  BY <1>1 DEF Stage, StageAt
<1> USE DEF Vouched, VouchedAt, Trusted, Consumed, Opened
<1>3. CASE MigrateFails(p)
  <2>1. PICK to \in {"extract", "leaving"} : Goto(p, to) /\ (to = "extract" => mode[p].recover)
    BY <1>3 DEF MigrateFails, Offer
  <2>2. Where' = to
    BY <1>1, <2>1, There DEF Idle, Places
  <2>3. marker' = marker /\ outlived' = (outlived \/ (marker /\ mode[p].recover))
    BY <1>3 DEF MigrateFails, store
  <2>4. mode[p].recover \in BOOLEAN /\ outlived \in BOOLEAN /\ marker \in BOOLEAN
    BY DEF TypeOK, Modes
  <2> QED  BY <1>1, <2>1, <2>2, <2>3, <2>4
<1>4. CASE Migrated(p)
  <2>1. PICK to \in {"integrity", "writer"} : Goto(p, to) /\ (to = "writer" => marker)
    BY <1>4 DEF Migrated, Owes
  <2>2. Where' = to
    BY <1>1, <2>1, There DEF Idle, Places
  <2> QED  BY <1>1, <1>2, <1>4, <2>1, <2>2 DEF Migrated, history
<1>5. CASE MarkerStays(p)
  BY <1>5 DEF MarkerStays
<1>6. CASE CheckFails(p)
  <2>1. PICK to \in {"extract", "leaving"} : Goto(p, to)
    BY <1>6 DEF CheckFails, Offer
  <2>2. Where' = to
    BY <1>1, <2>1, There DEF Idle, Places
  <2> QED  BY <1>1, <1>6, <2>1, <2>2 DEF CheckFails, store, history
<1> QED  BY <1>3, <1>4, <1>5, <1>6 DEF Prepares

LEMMA RecoverVouched ==
  ASSUME TypeOK, Stage, Vouched, NEW p \in Process, Recovers(p)
  PROVE  Vouched'
<1>1. pc[p] \in {"extract", "quarantine", "rebuild", "restore", "unquarantine"} /\ UNCHANGED <<lock, marker, outlived>>
  BY DEF Recovers, Extract, Quarantine, Rebuild, Restore, RebuildFails, Unquarantine, store, history
<1>2. Where = pc[p]
  BY <1>1, Here DEF Idle
<1>3. outlived \/ ~marker
  BY <1>1, <1>2 DEF Vouched, VouchedAt, Consumed
<1>4. PICK to \in {"quarantine", "rebuild", "restore", "unquarantine", "leaving", "writer"} :
        Goto(p, to) /\ (to = "writer" => Restore(p))
  BY DEF Recovers, Extract, Quarantine, Rebuild, Restore, RebuildFails, Unquarantine
<1>5. Where' = to
  BY <1>1, <1>4, There DEF Idle, Places
<1>6. to = "writer" => db'.sound
  BY <1>4, RestoreWrites
<1> QED  BY <1>1, <1>3, <1>4, <1>5, <1>6 DEF Vouched, VouchedAt, Trusted, Opened

LEMMA NextVouched ==
  ASSUME TypeOK, Stage, Vouched, [Next]_vars
  PROVE  Vouched'
<1> USE DEF Vouched, VouchedAt
<1> DEFINE Open == Trusted \cup Consumed
<1>1. ASSUME NEW p \in Process, Steps(p) PROVE Vouched'
  <2>1. PICK from \in Places \ Idle, to \in Places \ Idle : Step(p, from, to) /\ Forward(p, from, to)
    BY <1>1, StepsForward
  <2>2. Where = from /\ Where' = to /\ UNCHANGED <<db, marker, outlived>>
    BY <2>1, Here, There DEF Step, store, history
  <2>3. (to \in Consumed => from \in Consumed) /\ (to \in Trusted => from \in Trusted \/ db.sound)
    BY <2>1 DEF Forward, Consumed, Trusted, Opened
  <2> QED  BY <2>2, <2>3
<1>2. ASSUME NEW p \in Process, Start(p) \/ Refused(p) PROVE Vouched'
  <2>1. lock # p /\ UNCHANGED <<db, marker, outlived, lock>> /\ \E to : Goto(p, to)
    BY <1>2, NobodyIsNone DEF Start, Refused, Gone, Goto, store, history, Stage, Idle
  <2>2. Where' = Where
    BY <2>1 DEF Where, Goto, TypeOK
  <2> QED  BY <2>1, <2>2
<1>3. ASSUME NEW p \in Process, Acquire(p) \/ Release(p) PROVE Vouched'
  <2>1. UNCHANGED <<db, marker, outlived>>
    BY <1>3 DEF Acquire, Release, store, history
  <2>2. Where' \in {"off", "open"}
    BY <1>3, NobodyIsNone DEF Acquire, Release, Where, Goto, TypeOK
  <2> QED  BY <2>1, <2>2 DEF Trusted, Consumed, Opened
<1>4. ASSUME NEW p \in Process, Kill(p) PROVE Vouched'
  <2>1. marker' = marker /\ outlived' = (outlived \/ (pc[p] = "migrate" /\ Writing(p) /\ marker))
    BY <1>4 DEF Kill
  <2>2. CASE lock = p
    <3>1. Where' = "off"
      BY <1>4, <2>2 DEF Kill, Where
    <3>2. CASE Writing(p)
      <4>1. Where = "migrate" \/ Where \in Consumed
        BY <1>4, <3>2, KillLeaves DEF Writing, Consumed
      <4>2. ~outlived' => ~marker
        BY <1>4, <2>1, <3>2, <4>1, KillLeaves DEF TypeOK
      <4> QED  BY <2>1, <3>1, <4>2 DEF Trusted, Consumed, Opened
    <3>3. CASE ~Writing(p)
      <4>1. db' = db /\ (~outlived' => ~outlived)
        BY <1>4, <2>1, <3>3, KillLeaves
      <4> QED  BY <2>1, <3>1, <4>1 DEF Trusted, Consumed, Opened
    <3> QED  BY <3>2, <3>3
  <2>3. CASE lock # p
    <3>1. Where' = Where
      BY <1>4, <2>3 DEF Kill, Gone, Where, TypeOK
    <3>2. db' = db /\ (~outlived' => ~outlived)
      BY <1>4, <2>1, <2>3, KillLeaves
    <3> QED  BY <2>1, <3>1, <3>2
  <2> QED  BY <2>2, <2>3
<1>5. ASSUME NEW p \in Process, OpenConn(p) \/ Migrate(p) PROVE Vouched'
  <2>1. CASE OpenConn(p)
    <3>1. Where = "open" /\ Where' = "migrate"
      BY <2>1, Here, There DEF OpenConn, Idle, Places
    <3>2. UNCHANGED <<marker, outlived>> /\ (db' = db \/ db'.sound)
      BY <2>1, FreshStore DEF OpenConn, history
    <3> QED  BY <3>1, <3>2 DEF Trusted, Consumed, Opened
  <2>2. CASE Migrate(p)
    <3>1. Where = "migrate" /\ Where' = Where /\ UNCHANGED <<marker, outlived>>
      BY <2>2, Here DEF Migrate, Idle, Where, history
    <3>2. db # NoStore /\ db'.sound = db.sound
      BY <2>2, <3>1, MigrateKept DEF Stage, StageAt
    <3> QED  BY <3>1, <3>2
  <2> QED  BY <1>5, <2>1, <2>2
<1>6. ASSUME NEW p \in Process, ConnectLater(p) \/ EnsureAccount(p) PROVE Vouched'
  <2>1. Where \in Opened /\ Where' = "running" /\ UNCHANGED <<db, marker, outlived>>
    BY <1>6, Here, There DEF ConnectLater, EnsureAccount, Idle, Places, Opened, store, history
  <2> QED  BY <2>1 DEF Trusted, Consumed, Opened
<1>7. ASSUME NEW p \in Process, MarkClean(p) PROVE Vouched'
  <2>1. Where = "marking" /\ Where' = "leaving" /\ db' = db /\ outlived' = (outlived /\ ~db.sound)
    BY <1>7, Here, There DEF MarkClean, Idle, Places
  <2> QED  BY <2>1 DEF Trusted, Consumed, Opened
<1>8. ASSUME NEW p \in Process, EnginesMove(p) PROVE Vouched'
  BY <1>8 DEF EnginesMove, RetryOk, RetryEnds, Ends, EnginesStop, store, history, Where
<1>9. ASSUME NEW p \in Process, Sync(p) \/ Enqueue(p) \/ Dispatch(p) PROVE Vouched'
  <2>1. UNCHANGED <<marker, lock, pc, outlived>> /\ db # NoStore
    BY <1>9, RunningStore, StoreFields DEF Sync, Enqueue, Dispatch, WriterOpen, Opened, history
  <2>2. db'.sound = db.sound
    BY <1>9, SyncWrites, IntentsWritten
  <2> QED  BY <2>1, <2>2 DEF Where
<1>10. CASE UNCHANGED vars \/ NetChanges
  BY <1>10 DEF vars, NetChanges, store, history, Where
<1> QED  BY NextCases, <1>1, <1>2, <1>3, <1>4, <1>5, <1>6, <1>7, <1>8, <1>9, <1>10, PrepareVouched, RecoverVouched

\* Whoever is killed at whichever step, migrations and recoveries included, a store the
\* kill may have left damaged is checked before it is run on, but for runs under a stale
\* marker: one killed in the migrations that come before ShouldRunIntegrityCheck
\* consumes it, one whose failed migration leads to recovery, one that cannot remove it,
\* and what follows these until a run ends cleanly on a sound store.  The first of them
\* is what MCStartup_stale.cfg shows.
THEOREM DamageIsChecked == Spec => []RunsSoundUnlessStale
<1>1. Init => Vouched
  BY DEF Init, Vouched, VouchedAt, Where, Trusted, Consumed, Opened
<1>2. TypeOK /\ Stage /\ Vouched /\ [Next]_vars => Vouched'
  BY NextVouched
<1>3. TypeOK /\ Stage /\ Vouched => RunsSoundUnlessStale
  BY RunningStore DEF RunsSoundUnlessStale, RunsSound, Vouched, VouchedAt, Trusted, WriterOpen
<1> QED  BY <1>1, <1>2, <1>3, Staged, PTL DEF Spec
-----------------------------------------------------------------------------
(* No intent is lost. *)

\* The intents some file still holds.
Held == archived \cup (IF db = NoStore THEN {} ELSE db.intents) \cup (IF aside = NoStore THEN {} ELSE aside.intents)

LEMMA HeldIsAll == IntentsSurvive <=> owed \subseteq Held
<1>1. UNION {s.intents : s \in {db, aside} \ {NoStore}}
        = (IF db = NoStore THEN {} ELSE db.intents) \cup (IF aside = NoStore THEN {} ELSE aside.intents)
  OBVIOUS
<1> QED  BY <1>1 DEF IntentsSurvive, Held

LEMMA RecoverHolds ==
  ASSUME TypeOK, Stage, NEW p \in Process, Recovers(p)
  PROVE  Held \subseteq Held' /\ owed' = owed
<1>1. CASE Extract(p)
  BY <1>1 DEF Extract, store, history, Held
<1>6. CASE RebuildFails(p)
  <2>1. db = NoStore \/ db' = db
    BY <1>6, Here DEF RebuildFails, Idle, Stage, StageAt
  <2> QED  BY <1>6, <2>1 DEF RebuildFails, history, Held
<1>2. CASE Quarantine(p)
  <2>1. aside = NoStore
    BY <1>2, Here DEF Quarantine, Idle, Stage, StageAt
  <2> QED  BY <1>2, <2>1 DEF Quarantine, history, Held
<1>3. CASE Rebuild(p)
  <2>1. db = NoStore
    BY <1>3, Here DEF Rebuild, Idle, Stage, StageAt
  <2> QED  BY <1>3, <2>1 DEF Rebuild, history, Held
<1>4. CASE Restore(p)
  <2>1. db.intents = {} /\ aside # NoStore
    BY <1>4, Here DEF Restore, Idle, Stage, StageAt
  <2> QED  BY <1>4, <2>1, RestoreWrites DEF Restore, Held
<1>5. CASE Unquarantine(p)
  <2>1. (db = NoStore \/ db.intents = {}) /\ aside # NoStore
    BY <1>5, Here DEF Unquarantine, Idle, Stage, StageAt
  <2> QED  BY <1>5, <2>1 DEF Unquarantine, history, Held
<1> QED  BY <1>1, <1>2, <1>3, <1>4, <1>5, <1>6 DEF Recovers

LEMMA NextHolds ==
  ASSUME TypeOK, Stage, owed \subseteq Held, [Next]_vars
  PROVE  owed' \subseteq Held'
<1>1. ASSUME NEW p \in Process,
             \/ Steps(p) \/ Start(p) \/ Refused(p) \/ Acquire(p) \/ Release(p) \/ Prepares(p)
             \/ ConnectLater(p) \/ EnsureAccount(p) \/ MarkClean(p) \/ EnginesMove(p)
      PROVE  UNCHANGED <<db, aside, archived, owed>>
  <2>1. CASE Steps(p)
    BY <2>1, StepsForward DEF Step, store, history
  <2>2. CASE Start(p) \/ Refused(p) \/ Acquire(p) \/ Release(p)
    BY <2>2 DEF Start, Refused, Acquire, Release, store, history
  <2>3. CASE Prepares(p)
    BY <2>3 DEF Prepares, MigrateFails, Migrated, MarkerStays, CheckFails, store, history
  <2>4. CASE ConnectLater(p) \/ EnsureAccount(p) \/ MarkClean(p)
    BY <2>4 DEF ConnectLater, EnsureAccount, MarkClean, store, history
  <2>5. CASE EnginesMove(p)
    BY <2>5 DEF EnginesMove, RetryOk, RetryEnds, Ends, EnginesStop, store, history
  <2> QED  BY <1>1, <2>1, <2>2, <2>3, <2>4, <2>5
<1>2. ASSUME NEW p \in Process, OpenConn(p) \/ Migrate(p) PROVE owed' \subseteq Held'
  <2>1. CASE OpenConn(p)
    BY <2>1 DEF OpenConn, history, Held
  <2>2. CASE Migrate(p)
    <3>1. UNCHANGED <<aside, archived, owed>> /\ db'.intents = db.intents /\ db' # NoStore
      BY <2>2, MigrateKept DEF Migrate, history
    <3> QED  BY <3>1 DEF Held
  <2> QED  BY <1>2, <2>1, <2>2
<1>3. ASSUME NEW p \in Process, Kill(p) PROVE owed' \subseteq Held'
  <2>1. owed' = owed /\ (db # NoStore => db' # NoStore /\ db'.intents = db.intents)
    BY <1>3, KillLeaves DEF Kill
  <2>2. \/ UNCHANGED <<aside, archived>>
        \/ aside' = NoStore /\ archived' = archived \cup aside.intents
    BY <1>3 DEF Kill
  <2> QED  BY <2>1, <2>2 DEF Held
<1>4. ASSUME NEW p \in Process, Sync(p) PROVE owed' \subseteq Held'
  BY <1>4, SyncWrites, StoreFields DEF Sync, history, Held
<1>5. ASSUME NEW p \in Process, Enqueue(p) \/ Dispatch(p) PROVE owed' \subseteq Held'
  <2>1. /\ UNCHANGED <<aside, archived>> /\ db # NoStore /\ db' # NoStore
        /\ \E i : \/ db'.intents = db.intents \cup {i} /\ owed' = owed \cup {i}
                  \/ db'.intents = db.intents \ {i} /\ owed' = owed \ {i}
    BY <1>5, IntentsWritten, RunningStore, StoreFields DEF Enqueue, Dispatch, WriterOpen, Opened
  <2> QED  BY <2>1 DEF Held
<1>6. CASE UNCHANGED vars \/ NetChanges
  BY <1>6 DEF vars, NetChanges, store, history, Held
<1> QED  BY NextCases, <1>1, <1>2, <1>3, <1>4, <1>5, <1>6, RecoverHolds DEF Held

\* Whatever step of startup, Recover or shutdown fails, and wherever a process is killed,
\* an intent that is queued and not delivered is in the store or in a quarantined file.
THEOREM NoIntentIsLost == Spec => []IntentsSurvive
<1> DEFINE Inv == owed \subseteq Held
<1>1. Init => Inv
  BY DEF Init
<1>2. TypeOK /\ Stage /\ Inv /\ [Next]_vars => Inv'
  BY NextHolds
<1>3. Inv <=> IntentsSurvive
  BY HeldIsAll
<1> HIDE DEF Inv
<1> QED  BY <1>1, <1>2, <1>3, Staged, PTL DEF Spec
-----------------------------------------------------------------------------
(* A folder intent means its folder. *)

Rooted(intents, boxes) ==
  \A i \in intents : i.on = "folder" => i.row \in DOMAIN boxes /\ boxes[i.row] = i.meant

\* Every file's folder intents name rows that are there, and what extractPreserved has read
\* names nothing more.
FoldersNamed ==
  ~torn => /\ db # NoStore => Rooted(db.intents, db.boxes)
           /\ aside # NoStore => Rooted(aside.intents, aside.boxes)
           /\ Where = "quarantine" => kept.intents \subseteq db.intents
           /\ Where \in {"rebuild", "restore"} => kept.intents \subseteq aside.intents

LEMMA RootedFewer ==
  ASSUME NEW is, NEW js \in SUBSET is, NEW boxes, Rooted(is, boxes)
  PROVE  Rooted(js, boxes)
  BY DEF Rooted

LEMMA RootedAppend ==
  ASSUME NEW is, NEW boxes \in Seq(Folder), NEW f \in Folder, Rooted(is, boxes)
  PROVE  Rooted(is, Append(boxes, f))
<1>1. \A r \in DOMAIN boxes : r \in DOMAIN Append(boxes, f) /\ Append(boxes, f)[r] = boxes[r]
  BY AppendProperties, LenProperties
<1> QED  BY <1>1 DEF Rooted

LEMMA RecoverNamed ==
  ASSUME TypeOK, Stage, FoldersNamed, NEW p \in Process, Recovers(p)
  PROVE  FoldersNamed'
<1> USE DEF FoldersNamed
<1>1. PICK to \in Places \ Idle : Goto(p, to) /\ lock' = lock /\ pc[p] \notin Idle
  BY DEF Recovers, Extract, Quarantine, Rebuild, Restore, RebuildFails, Unquarantine, Places, Idle
<1>2. Where = pc[p] /\ Where' = pc'[p]
  BY <1>1, Here, There
<1>3. pc'[p] = to
  BY <1>1, There
<1>4. CASE Extract(p)
  <2>1. Where' = "quarantine" /\ UNCHANGED <<db, aside, torn>>
    BY <1>2, <1>4, There DEF Extract, Goto, TypeOK, store, history
  <2> QED  BY <1>4, <2>1, ExtractReads
<1>5. CASE Quarantine(p)
  <2>1. Where' = "rebuild" /\ Where = "quarantine" /\ aside' = db /\ db' = NoStore /\ UNCHANGED <<kept, torn>>
    BY <1>2, <1>5 DEF Quarantine, Goto, TypeOK, history
  <2> QED  BY <2>1
<1>6. CASE Rebuild(p)
  <2>1. Where' = "restore" /\ Where = "rebuild" /\ UNCHANGED <<aside, kept, torn>>
    BY <1>2, <1>6 DEF Rebuild, Goto, TypeOK, history
  <2>2. Build[p] \in Nat /\ db'.intents = {}
    BY <1>6, StartupInputs, FreshStore, EditVersion DEF Rebuild
  <2> QED  BY <2>1, <2>2 DEF Rooted
<1>7. CASE Restore(p)
  <2>1. Where' = "writer" /\ Where = "restore" /\ aside' = NoStore /\ aside # NoStore
    BY <1>2, <1>7, RestoreWrites, StoreFields DEF Restore, Goto, TypeOK
  <2>2. db.intents = {} /\ db' \in {db, kept}
    BY <1>7, <2>1, RestoreWrites DEF Stage, StageAt
  <2>3. torn' = (torn \/ kept.boxes # aside.boxes)
    BY <1>7 DEF Restore
  <2>4. ~torn' => Rooted(kept.intents, kept.boxes)
    BY <2>1, <2>3, RootedFewer
  <2>5. Rooted({}, db.boxes)
    BY DEF Rooted
  <2> QED  BY <2>1, <2>2, <2>3, <2>4, <2>5
<1>8. CASE RebuildFails(p)
  <2>1. Where' = "unquarantine" /\ UNCHANGED <<aside, torn>>
    BY <1>2, <1>8 DEF RebuildFails, Goto, TypeOK, history
  <2>2. db' = db \/ db' = NoStore \/ db'.intents = {}
    BY <1>8, UnbuiltStore DEF RebuildFails
  <2> QED  BY <2>1, <2>2 DEF Rooted
<1>9. CASE Unquarantine(p)
  <2>1. Where' = "leaving" /\ aside' = NoStore /\ db' \in {db, aside} /\ torn' = torn
    BY <1>2, <1>9 DEF Unquarantine, Goto, TypeOK, history
  <2> QED  BY <2>1
<1> QED  BY <1>4, <1>5, <1>6, <1>7, <1>8, <1>9 DEF Recovers

LEMMA NextNamed ==
  ASSUME TypeOK, Stage, FoldersNamed, [Next]_vars
  PROVE  FoldersNamed'
<1> USE DEF FoldersNamed
<1>1. ASSUME NEW p \in Process,
             Steps(p) \/ Prepares(p) \/ ConnectLater(p) \/ EnsureAccount(p) \/ MarkClean(p)
      PROVE  FoldersNamed'
  <2>1. UNCHANGED <<db, aside, torn, lock>> /\ \E to \in Places \ (Idle \cup {"quarantine", "rebuild", "restore"}) : Goto(p, to)
    <3>1. CASE Steps(p)
      BY <3>1, StepsForward DEF Step, Forward, store, history, Places, Idle
    <3>2. CASE Prepares(p)
      BY <3>2 DEF Prepares, MigrateFails, Migrated, MarkerStays, CheckFails, Offer, store, history, Places, Idle
    <3>3. CASE ConnectLater(p) \/ EnsureAccount(p) \/ MarkClean(p)
      BY <3>3 DEF ConnectLater, EnsureAccount, MarkClean, store, history, Places, Idle
    <3> QED  BY <1>1, <3>1, <3>2, <3>3
  <2>2. PICK to \in Places \ (Idle \cup {"quarantine", "rebuild", "restore"}) : Goto(p, to)
    BY <2>1
  <2>3. pc[p] \notin Idle
    BY <1>1, StepsForward DEF Step, Prepares, MigrateFails, Migrated, MarkerStays, CheckFails,
                              ConnectLater, EnsureAccount, MarkClean, Idle
  <2>4. Where' = to
    BY <2>1, <2>2, <2>3, There
  <2> QED  BY <2>1, <2>2, <2>4
<1>2. ASSUME NEW p \in Process, Start(p) \/ Refused(p) PROVE FoldersNamed'
  <2>1. lock # p /\ UNCHANGED <<db, aside, kept, torn, lock>> /\ \E to : Goto(p, to)
    BY <1>2, NobodyIsNone DEF Start, Refused, Gone, Goto, store, history, Stage, Idle
  <2>2. Where' = Where
    BY <2>1 DEF Where, Goto, TypeOK
  <2> QED  BY <2>1, <2>2
<1>3. ASSUME NEW p \in Process, Acquire(p) \/ Release(p) PROVE FoldersNamed'
  <2>1. UNCHANGED <<db, aside, torn>>
    BY <1>3 DEF Acquire, Release, store, history
  <2>2. Where' \in {"off", "open"}
    BY <1>3, NobodyIsNone DEF Acquire, Release, Where, Goto, TypeOK
  <2> QED  BY <2>1, <2>2
<1>4. ASSUME NEW p \in Process, Kill(p) PROVE FoldersNamed'
  <2>1. /\ torn' = torn
        /\ db # NoStore => db'.intents = db.intents /\ db'.boxes = db.boxes
        /\ db = NoStore => db' = NoStore \/ db'.intents = {}
    BY <1>4, KillLeaves DEF Kill
  <2>2. CASE lock = p
    <3>1. Where' = "off" /\ aside' = NoStore
      BY <1>4, <2>2 DEF Kill, Where
    <3> QED  BY <2>1, <3>1 DEF Rooted
  <2>3. CASE lock # p
    <3>1. Where' = Where /\ UNCHANGED <<aside, kept>>
      BY <1>4, <2>3 DEF Kill, Gone, Where, TypeOK
    <3>2. db' = db
      BY <1>4, <2>3, KillLeaves
    <3> QED  BY <2>1, <3>1, <3>2
  <2> QED  BY <2>2, <2>3
<1>5. ASSUME NEW p \in Process, OpenConn(p) PROVE FoldersNamed'
  <2>1. Where' = "migrate"
    BY <1>5, There DEF OpenConn, Idle, Places
  <2> QED  BY <1>5, <2>1, FreshStore DEF OpenConn, history, Rooted
<1>6. ASSUME NEW p \in Process, Migrate(p) PROVE FoldersNamed'
  <2>1. Where = "migrate" /\ Where' = Where /\ UNCHANGED <<aside, torn>>
    BY <1>6, Here DEF Migrate, Idle, Where, history
  <2>2. db # NoStore /\ db'.intents = db.intents /\ db'.boxes = db.boxes
    BY <1>6, <2>1, MigrateKept DEF Stage, StageAt
  <2> QED  BY <2>1, <2>2
<1>7. ASSUME NEW p \in Process, EnginesMove(p) PROVE FoldersNamed'
  BY <1>7 DEF EnginesMove, RetryOk, RetryEnds, Ends, EnginesStop, store, history, Where
<1>8. ASSUME NEW p \in Process, Sync(p) \/ Enqueue(p) \/ Dispatch(p) PROVE FoldersNamed'
  <2>1. /\ UNCHANGED <<aside, kept, torn, lock, pc>> /\ Where \in Opened /\ db \in Stores
    BY <1>8, RunningStore DEF Sync, Enqueue, Dispatch, WriterOpen, Opened, history
  <2>2. Where' = Where /\ Where \notin {"quarantine", "rebuild", "restore"} /\ db # NoStore
    BY <2>1, StoreFields DEF Where, Opened
  <2>3. Rooted(db.intents, db.boxes) => Rooted(db'.intents, db'.boxes)
    <3>1. CASE Sync(p)
      BY <2>1, <3>1, SyncWrites, StoreFields, RootedAppend
    <3>2. CASE Enqueue(p) \/ Dispatch(p)
      BY <2>1, <3>2, IntentsWritten, NamedTyped DEF Rooted
    <3> QED  BY <1>8, <3>1, <3>2
  <2> QED  BY <2>1, <2>2, <2>3
<1>9. CASE UNCHANGED vars \/ NetChanges
  BY <1>9 DEF vars, NetChanges, store, history, Where
<1> QED  BY NextCases, <1>1, <1>2, <1>3, <1>4, <1>5, <1>6, <1>7, <1>8, <1>9, RecoverNamed

\* restorePreserved keeps mailbox rows under their ids, so an intent on a folder never comes
\* to name another, unless a damaged mailbox table was read in part.
THEOREM FoldersKeepTheirIntents == Spec => []FolderIntentsKeep
<1>1. Init => FoldersNamed
  BY DEF Init, FoldersNamed, Where
<1>2. TypeOK /\ Stage /\ FoldersNamed /\ [Next]_vars => FoldersNamed'
  BY NextNamed
<1>3. FoldersNamed => FolderIntentsKeep
  BY DEF FoldersNamed, Rooted, FolderIntentsKeep, Keeps
<1> QED  BY <1>1, <1>2, <1>3, Staged, PTL DEF Spec
=============================================================================
