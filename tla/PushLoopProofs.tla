--------------------------- MODULE PushLoopProofs ---------------------------
(***************************************************************************)
(* Theorems about PushLoop, for any kinds, classes, advertised cadences    *)
(* and backoff bounds: its variables are well typed, the stall window fits *)
(* every server, and reopening backs off and is reported.                  *)
(***************************************************************************)
EXTENDS PushLoop, TLAPS

PushStates == [failing : BOOLEAN, class : Classes \cup {NoStop, NeverProved},
               attempt : 0..ReopenCap, unproved : 0..(UnprovedStops - 1), justProved : BOOLEAN]

LEMMA Caps == ReopenCap \in Nat /\ ReopenCap > 2 /\ 0 \in 0..ReopenCap
  BY LoopInputs

\* Counting up to the cap.
LEMMA Counted ==
  ASSUME NEW n \in 0..ReopenCap
  PROVE  /\ Least(n + 1, ReopenCap) \in 0..ReopenCap
         /\ Least(n + 1, ReopenCap) <= n + 1
         /\ Least(n + 1, ReopenCap) = ReopenCap \/ Least(n + 1, ReopenCap) = n + 1
  BY Caps DEF Least
-----------------------------------------------------------------------------
(* pushState. *)

Attempting == [failing : BOOLEAN, class : Classes \cup {NoStop, NeverProved},
               attempt : 0..ReopenCap, unproved : Nat, justProved : BOOLEAN]

LEMMA PushFields ==
  ASSUME NEW p \in PushStates
  PROVE  /\ p.failing \in BOOLEAN /\ p.justProved \in BOOLEAN
         /\ p.attempt \in 0..ReopenCap /\ p.unproved \in 0..1
         /\ p.class \in Classes \cup {NoStop, NeverProved} /\ p \in Attempting
  BY SMT DEF PushStates, Attempting, UnprovedStops

LEMMA Settling ==
  ASSUME NEW p \in Attempting, p.unproved < UnprovedStops
  PROVE  p \in PushStates
  BY SMT DEF PushStates, Attempting, UnprovedStops

LEMMA FailTyped ==
  ASSUME NEW p \in Attempting, NEW err \in Stops \cup {NeverProved}
  PROVE  /\ Surfaceable(err) => Fail(p, err) \in PushStates /\ Fail(p, err).failing
         /\ Fail(p, err).attempt = p.attempt /\ Fail(p, err).justProved = p.justProved
         /\ ~Surfaceable(err) => Fail(p, err) = p
<1>1. CASE Surfaceable(err)
  <2> DEFINE q == [p EXCEPT !.unproved = 0, !.failing = TRUE, !.class = err]
  <2>1. Fail(p, err) = q
    BY <1>1 DEF Fail
  <2>2. err \in Classes \cup {NoStop, NeverProved}
    BY <1>1 DEF Surfaceable, Stops
  <2>3. 0 \in Nat
    OBVIOUS
  <2>4. q \in Attempting
    BY <2>2, <2>3, Zenon DEF Attempting
  <2>5. q.unproved = 0 /\ q.attempt = p.attempt
    BY SMT DEF Attempting
  <2>6. q.failing
    BY Zenon DEF Attempting
  <2>7. q.justProved = p.justProved
    BY Zenon DEF Attempting
  <2> HIDE DEF q
  <2>8. q \in PushStates
    BY <2>4, <2>5, Settling DEF UnprovedStops
  <2> QED  BY <1>1, <2>1, <2>5, <2>6, <2>7, <2>8
<1>2. CASE ~Surfaceable(err)
  BY <1>2 DEF Fail
<1> QED  BY <1>1, <1>2

\* What a stop leaves: a proof used up, or one more attempt, reported from the second.
LEMMA StopTyped ==
  ASSUME NEW p \in PushStates
  PROVE  /\ Stop(p) \in PushStates /\ ~Stop(p).justProved
         /\ p.justProved => Stop(p).attempt = p.attempt
         /\ ~p.justProved => Stop(p).attempt = Least(p.attempt + 1, ReopenCap)
         /\ p.failing => Stop(p).failing
         /\ ~p.justProved /\ ~Stop(p).failing => Stop(p).unproved = p.unproved + 1
<1>1. CASE p.justProved
  <2> DEFINE q == [p EXCEPT !.justProved = FALSE, !.unproved = 0]
  <2>1. Stop(p) = q
    BY <1>1 DEF Stop
  <2>2. p \in Attempting /\ 0 \in Nat
    BY PushFields
  <2>3. q \in Attempting
    BY <2>2, Zenon DEF Attempting
  <2>4. q.unproved = 0 /\ q.attempt = p.attempt
    BY <2>2, SMT DEF Attempting
  <2>5. ~q.justProved
    BY <2>2, Zenon DEF Attempting
  <2>6. q.failing = p.failing
    BY <2>2, Zenon DEF Attempting
  <2> HIDE DEF q
  <2>7. q \in PushStates
    BY <2>3, <2>4, Settling DEF UnprovedStops
  <2> QED  BY <1>1, <2>1, <2>4, <2>5, <2>6, <2>7
<1>2. CASE ~p.justProved
  <2> DEFINE q == [p EXCEPT !.unproved = @ + 1, !.attempt = Least(@ + 1, ReopenCap)]
  <2>1. p \in Attempting /\ Least(p.attempt + 1, ReopenCap) \in 0..ReopenCap /\ p.unproved + 1 \in Nat
    BY Counted, PushFields
  <2>2. q \in Attempting
    BY <2>1, Zenon DEF Attempting
  <2>3. q.attempt = Least(p.attempt + 1, ReopenCap) /\ q.unproved = p.unproved + 1
    BY <2>1, SMT DEF Attempting
  <2>4. q.justProved = p.justProved
    BY <2>1, Zenon DEF Attempting
  <2>5. q.failing = p.failing
    BY <2>1, Zenon DEF Attempting
  <2>6. Stop(p) = IF q.unproved >= UnprovedStops THEN Fail(q, NeverProved) ELSE q
    BY <1>2 DEF Stop
  <2>7. Surfaceable(NeverProved)
    BY DEF Surfaceable, NeverProved, NoStop, Cancelled
  <2> HIDE DEF q
  <2>8. CASE q.unproved >= UnprovedStops
    BY <1>2, <2>2, <2>3, <2>4, <2>6, <2>7, <2>8, FailTyped
  <2>9. CASE ~(q.unproved >= UnprovedStops)
    <3>1. q \in PushStates
      BY <2>1, <2>2, <2>3, <2>9, Settling DEF UnprovedStops
    <3> QED  BY <1>2, <2>3, <2>4, <2>5, <2>6, <2>9, <3>1
  <2> QED  BY <2>8, <2>9
<1> QED  BY <1>1, <1>2

LEMMA ProveTyped ==
  ASSUME NEW p \in PushStates
  PROVE  /\ Prove(p) \in PushStates
         /\ Prove(p).attempt = 0 /\ Prove(p).unproved = 0
<1> DEFINE q == [p EXCEPT !.failing = FALSE, !.attempt = 0, !.unproved = 0, !.justProved = TRUE]
<1>1. p \in Attempting /\ 0 \in Nat /\ 0 \in 0..ReopenCap
  BY PushFields, Caps
<1>2. q \in Attempting
  BY <1>1, Zenon DEF Attempting
<1>3. q.unproved = 0 /\ q.attempt = 0
  BY <1>1, SMT DEF Attempting
<1> HIDE DEF q
<1>4. q \in PushStates
  BY <1>2, <1>3, Settling DEF UnprovedStops
<1>5. Prove(p) = q
  BY DEF Prove, q
<1> QED  BY <1>3, <1>4, <1>5

\* One attempt more and nothing else.
LEMMA AttemptTyped ==
  ASSUME NEW p \in PushStates
  PROVE  LET q == [p EXCEPT !.attempt = Least(@ + 1, ReopenCap)] IN
         /\ q \in PushStates /\ q.attempt = Least(p.attempt + 1, ReopenCap)
         /\ q.unproved = p.unproved /\ q.failing = p.failing /\ q.justProved = p.justProved
<1> DEFINE q == [p EXCEPT !.attempt = Least(@ + 1, ReopenCap)]
<1>1. p \in Attempting /\ Least(p.attempt + 1, ReopenCap) \in 0..ReopenCap /\ p.unproved \in 0..1
  BY Counted, PushFields
<1>2. q \in Attempting
  BY <1>1, Zenon DEF Attempting
<1>3. q.attempt = Least(p.attempt + 1, ReopenCap) /\ q.unproved = p.unproved
  BY <1>1, SMT DEF Attempting
<1>4. q.failing = p.failing /\ q.justProved = p.justProved
  BY <1>1, Zenon DEF Attempting
<1> HIDE DEF q
<1>5. q \in PushStates
  BY <1>1, <1>2, <1>3, Settling DEF UnprovedStops
<1> QED  BY <1>3, <1>4, <1>5 DEF q
-----------------------------------------------------------------------------
(* Types. *)

Streams == [slot : BOOLEAN, shut : BOOLEAN, opened : BOOLEAN, over : BOOLEAN]
LoopTypes ==
  /\ pc \in {"start", "poll", "listen", "opening", "consume", "flush", "stopped", "wait", "tail", "done"}
  /\ after \in {"poll", "consume", "stopped", "wait", "tail"} /\ todo \subseteq Kinds
  /\ gathering \in BOOLEAN /\ proving \in BOOLEAN
  /\ push \in PushStates
  /\ failing \in [Kinds -> Classes \cup {NoStop}]
  /\ status \in {"none", "syncing", "synced", "backingOff"} /\ reopens \in 0..ReopenCap

LEMMA TypeParts == TypeOK <=> TTypeOK /\ LoopTypes
  BY DEF TypeOK, LoopTypes, PushStates

LEMMA FreshTyped == Fresh \in Streams
  BY DEF Fresh, Streams

LEMMA StreamSet ==
  ASSUME NEW s \in Streams
  PROVE  /\ [s EXCEPT !.slot = TRUE] \in Streams /\ [s EXCEPT !.slot = FALSE] \in Streams
         /\ [s EXCEPT !.shut = TRUE] \in Streams /\ [s EXCEPT !.over = TRUE] \in Streams
         /\ [s EXCEPT !.opened = TRUE, !.slot = TRUE] \in Streams
<1>1. [s EXCEPT !.slot = TRUE] \in Streams /\ [s EXCEPT !.slot = FALSE] \in Streams
  BY Zenon DEF Streams
<1>2. [s EXCEPT !.shut = TRUE] \in Streams /\ [s EXCEPT !.over = TRUE] \in Streams
  BY Zenon DEF Streams
<1>3. [s EXCEPT !.opened = TRUE, !.slot = TRUE] \in Streams
  BY Zenon DEF Streams
<1> QED  BY <1>1, <1>2, <1>3

LEMMA Cadences ==
  ASSUME NEW said \in Advertised
  PROVE  /\ Cadence(said) \in Nat /\ Most(Requested, MinCeiling) \in Nat
         /\ Cadence(said) <= Most(Requested, MinCeiling)
         /\ Cadence(said) > 0 => 2 * Cadence(said) > Beat
  BY ServerPings DEF Cadence, Least, Most

LEMMA TransportTypes ==
  ASSUME TTypeOK, Goroutine \/ Surroundings
  PROVE  TTypeOK'
<1> USE DEF TTypeOK, Streams
<1>1. CASE DialFails
  BY <1>1 DEF DialFails, Dropped
<1>13. CASE Lost
  BY <1>13 DEF Lost, Dropped
<1>14. CASE Stall
  BY <1>14 DEF Stall, Dropped
<1>2. CASE Accepted \/ Redial
  BY <1>2 DEF Accepted, Redial, line
<1>3. CASE Connected
  <2>1. stream' \in Streams
    BY <1>3, StreamSet DEF Connected
  <2>2. quiet' \in Nat /\ window' \in Nat
    BY <1>3, ServerPings DEF Connected, Watch, StallWindow
  <2> QED  BY <1>3, <2>1, <2>2 DEF Connected
<1>4. CASE StateEvent
  <2>1. stream' \in Streams
    BY <1>4, StreamSet DEF StateEvent, Notify
  <2> QED  BY <1>4, <2>1 DEF StateEvent
<1>5. CASE ContextSeen
  BY <1>5 DEF ContextSeen, Ends, Stops
<1>6. CASE NoteStop
  BY <1>6 DEF NoteStop, line, Stops
<1>7. CASE CloseChannel
  <2>1. stream' \in Streams
    BY <1>7, StreamSet DEF CloseChannel
  <2> QED  BY <1>7, <2>1 DEF CloseChannel, line
<1>8. CASE CloseStopped
  <2>1. stream' \in Streams
    BY <1>8, StreamSet DEF CloseStopped
  <2> QED  BY <1>8, <2>1 DEF CloseStopped, line
<1>12. CASE \E c \in Classes : Refused(c)
  <2>1. PICK c \in Classes : Refused(c)
    BY <1>12
  <2>2. why' \in Stops
    BY <2>1 DEF Refused, Ends, Stops
  <2> QED  BY <2>1, <2>2 DEF Refused, Ends
<1>9. CASE \E said \in Advertised : PingEvent(said)
  BY <1>9, Cadences DEF PingEvent, StallWindow
<1>10. CASE Silence
  BY <1>10 DEF Silence
<1>15. CASE WireDies
  BY <1>15 DEF WireDies
<1>11. CASE \E k \in Kinds : ServerChange(k)
  BY <1>11 DEF ServerChange
<1> QED
  BY <1>1, <1>2, <1>3, <1>4, <1>5, <1>6, <1>7, <1>8, <1>9, <1>10, <1>11, <1>12,
     <1>13, <1>14, <1>15 DEF Goroutine, Surroundings

LEMMA SleepTypes ==
  ASSUME LoopTypes, NEW p \in PushStates, NEW where \in {"wait", "tail"}, Sleep(p, where)
  PROVE  pc' \in {"wait", "tail", "done", "listen"} /\ push' \in PushStates
         /\ status' \in {"none", "syncing", "synced", "backingOff"} /\ reopens' \in 0..ReopenCap
<1>1. Least(reopens + 1, ReopenCap) \in 0..ReopenCap
  BY Counted DEF LoopTypes
<1>2. [p EXCEPT !.attempt = Least(@ + 1, ReopenCap)] \in PushStates
  BY AttemptTyped
<1> QED  BY <1>1, <1>2 DEF Sleep, LoopTypes

\* ListenFails, from whichever state the stop is one of Stops.
LEMMA ListenFailsTypes ==
  ASSUME LoopTypes, NEW err \in Stops, ListenFails(err)
  PROVE  /\ pc' \in {"wait", "tail", "done", "listen"} /\ push' \in PushStates
         /\ status' \in {"none", "syncing", "synced", "backingOff"} /\ reopens' \in 0..ReopenCap
<1>1. push \in PushStates /\ push \in Attempting
  BY PushFields DEF LoopTypes
<1>2. Fail(push, err) \in PushStates
  BY <1>1, FailTyped
<1> QED  BY <1>2, SleepTypes DEF ListenFails

LEMMA TransportKept ==
  ASSUME TTypeOK, UNCHANGED tvars
  PROVE  TTypeOK'
<1>1. /\ transport' = transport /\ cancelled' = cancelled /\ behind' = behind /\ conn' = conn
      /\ alive' = alive /\ event' = event /\ quiet' = quiet /\ window' = window
      /\ why' = why /\ stop' = stop /\ stream' = stream
  BY DEF tvars, net, line
<1> QED  BY <1>1, Zenon DEF TTypeOK

\* What each step of RunPush does to the loop's own variables.
LEMMA RunPushTypes ==
  ASSUME TypeOK, RunPush
  PROVE  LoopTypes'
<1> TTypeOK /\ LoopTypes
  BY TypeParts
<1>1. CASE FlushOver
  BY <1>1 DEF FlushOver, LoopTypes
<1>2. CASE WaitOver
  <2>1. Least(reopens + 1, ReopenCap) \in 0..ReopenCap
    BY Counted DEF LoopTypes
  <2>2. push' \in PushStates
    BY <1>2, AttemptTyped DEF WaitOver, LoopTypes
  <2> QED  BY <1>2, <2>1, <2>2 DEF WaitOver, LoopTypes
<1>3. CASE Poll
  BY <1>3 DEF Poll, Polls, Flush, LoopTypes
<1>4. CASE PollKinds
  BY <1>4 DEF PollKinds, Flush, LoopTypes
<1>5. CASE Listen
  <2>1. CASE stop # NoStop /\ ListenFails(stop)
    <3>1. stop \in Stops
      BY DEF TTypeOK
    <3> QED  BY <2>1, <3>1, ListenFailsTypes DEF ListenFails, LoopTypes
  <2>2. CASE pc' = "opening" /\ UNCHANGED <<after, todo, gathering, proving, push, failing, status, reopens>>
    BY <2>2 DEF LoopTypes
  <2> QED  BY <1>5, <2>1, <2>2 DEF Listen
<1>6. CASE Opened
  BY <1>6 DEF Opened, LoopTypes
<1>7. CASE NotOpened
  <2>1. stop \in Stops
    BY DEF TTypeOK
  <2> QED  BY <1>7, <2>1, ListenFailsTypes DEF NotOpened, ListenFails, LoopTypes
<1>8. CASE Take
  BY <1>8 DEF Take, LoopTypes
<1>9. CASE WindowOver
  BY <1>9 DEF WindowOver, Flush, LoopTypes
<1>10. CASE Proved
  BY <1>10, ProveTyped, Caps DEF Proved, LoopTypes
<1>11. CASE ChannelClosed
  BY <1>11 DEF ChannelClosed, Flush, LoopTypes
<1>12. CASE Stopped
  <2>1. Stop(push) \in PushStates
    BY StopTyped DEF LoopTypes
  <2> QED  BY <1>12, <2>1, SleepTypes DEF Stopped, LoopTypes
<1>13. CASE GiveUp
  BY <1>13 DEF GiveUp, LoopTypes
<1>14. CASE \E k \in Kinds : KindSynced(k)
  BY <1>14 DEF KindSynced, LoopTypes
<1>15. CASE \E k \in Kinds : KindCancelled(k)
  BY <1>15 DEF KindCancelled, LoopTypes
<1>16. CASE \E k \in Kinds : \E c \in Classes : KindFails(k, c)
  BY <1>16 DEF KindFails, LoopTypes
<1> QED
  BY <1>1, <1>2, <1>3, <1>4, <1>5, <1>6, <1>7, <1>8, <1>9, <1>10, <1>11, <1>12, <1>13,
     <1>14, <1>15, <1>16 DEF RunPush

\* And to the transport: it opens a stream, reads its stop, empties its slot, or
\* brings a kind up to date.
LEMMA RunPushTransport ==
  ASSUME TTypeOK, RunPush
  PROVE  /\ TTypeOK' /\ UNCHANGED <<transport, cancelled, line, why>>
         /\ \/ UNCHANGED <<conn, stream, stop>>
            \/ conn' = "dialing" /\ stream' = Fresh /\ stop' = stop /\ stop = NoStop /\ pc = "listen" /\ pc' = "opening"
            \/ UNCHANGED <<conn, stream>> /\ stop' = NoStop /\ pc' # "opening"
            \/ UNCHANGED <<conn, stop>> /\ stream' = [stream EXCEPT !.slot = FALSE] /\ pc' = "consume"
<1>1. CASE UNCHANGED tvars
  BY <1>1, TransportKept DEF tvars, net, line
<1>2. CASE Listen
  <2>1. CASE ListenFails(stop) /\ UNCHANGED <<transport, cancelled, behind, conn, line, why, stream>>
    BY <2>1, Zenon DEF ListenFails, TTypeOK, line, Stops, Sleep
  <2>2. CASE stop = NoStop /\ Start /\ pc' = "opening" /\ UNCHANGED <<transport, cancelled, behind, line, why, stop>>
    <3>1. stream' \in Streams
      BY <2>2, FreshTyped DEF Start
    <3> QED  BY <1>2, <2>2, <3>1 DEF Start, Listen, TTypeOK, line, Streams
  <2> QED  BY <1>2, <2>1, <2>2 DEF Listen
<1>3. CASE NotOpened
  BY <1>3, Zenon DEF NotOpened, ListenFails, Sleep, TTypeOK, line, Stops
<1>4. CASE Take
  <2>1. stream' \in Streams
    BY <1>4, StreamSet DEF Take, TTypeOK, Streams
  <2> QED  BY <1>4, <2>1 DEF Take, TTypeOK, Streams, net, line
<1>5. CASE \E k \in Kinds : KindSynced(k)
  BY <1>5 DEF KindSynced, TTypeOK, net, line
<1> QED
  BY <1>1, <1>2, <1>3, <1>4, <1>5
     DEF RunPush, FlushOver, WaitOver, Poll, PollKinds, Opened, WindowOver, Proved, ChannelClosed,
         Stopped, GiveUp, KindCancelled, KindFails

LEMMA InitTypes == Init => TypeOK
<1> SUFFICES ASSUME Init PROVE TTypeOK /\ LoopTypes
  BY TypeParts
<1>1. TTypeOK
  BY FreshTyped DEF Init, TInit, TTypeOK, Stops, Streams
<1>2. push \in PushStates
  BY Caps DEF Init, PushStates, UnprovedStops
<1> QED  BY <1>1, <1>2, Caps DEF Init, LoopTypes

LEMMA LoopKept ==
  ASSUME LoopTypes, UNCHANGED <<loop, failing, status, reopens>>
  PROVE  LoopTypes'
  BY Zenon DEF LoopTypes, loop

LEMMA NextTypes == ASSUME TypeOK, [Next]_vars PROVE TypeOK'
<1> TTypeOK /\ LoopTypes
  BY TypeParts
<1> SUFFICES TTypeOK' /\ LoopTypes'
  BY DEF TypeOK, LoopTypes, PushStates
<1>1. CASE RunPush
  BY <1>1, RunPushTypes, RunPushTransport
<1>2. CASE Cancel
  <2>1. cancelled' \in BOOLEAN /\ UNCHANGED <<transport, behind, conn, line, why, stop, stream>>
    BY <1>2 DEF Cancel, net
  <2>2. TTypeOK'
    BY <2>1, Zenon DEF TTypeOK, line
  <2> QED  BY <1>2, <2>2, LoopKept DEF Cancel
<1>3. CASE Transport(Goroutine) \/ Transport(Surroundings)
  BY <1>3, TransportTypes, LoopKept DEF Transport
<1>4. CASE UNCHANGED vars
  BY <1>4, TransportKept, LoopKept DEF vars
<1> QED  BY <1>1, <1>2, <1>3, <1>4 DEF Next

\* Every variable of RunPush, and of the event source under it, keeps its type: pushState's
\* count of unproved stops is reported and starts again before it reaches UnprovedStops.
THEOREM TypeCorrect == Spec => []TypeOK
<1>1. TypeOK /\ [Next]_vars => TypeOK'
  BY NextTypes
<1> QED  BY <1>1, InitTypes, PTL DEF Spec
-----------------------------------------------------------------------------
(* The stall window. *)

\* While a connection is open its window is longer than the server's real cadence
\* and no longer than twice the ceiling, and one that works is never silent longer
\* than that cadence.
Watched ==
  conn = "open" => /\ Beat < window /\ window <= 2 * Most(Requested, MinCeiling)
                   /\ alive => quiet <= Beat

LEMMA TransportWatched ==
  ASSUME TTypeOK, Watched, Goroutine \/ Surroundings
  PROVE  Watched'
<1> quiet \in Nat /\ window \in Nat /\ Beat \in Nat
  BY ServerPings DEF TTypeOK
<1>1. CASE DialFails \/ Lost \/ Stall
  BY <1>1 DEF DialFails, Lost, Stall, Dropped, Watched
<1>2. CASE Accepted \/ Redial
  BY <1>2 DEF Accepted, Redial, Watched
<1>3. CASE Connected
  BY <1>3, ServerPings DEF Connected, Watch, StallWindow, Watched, Most
<1>4. CASE StateEvent
  BY <1>4 DEF StateEvent, Watched
<1>5. CASE ContextSeen \/ \E c \in Classes : Refused(c)
  BY <1>5 DEF ContextSeen, Refused, Ends, Watched
<1>6. CASE NoteStop \/ CloseChannel \/ CloseStopped
  BY <1>6 DEF NoteStop, CloseChannel, CloseStopped, Watched
<1>7. CASE \E said \in Advertised : PingEvent(said)
  <2>1. PICK said \in Advertised : PingEvent(said)
    BY <1>7
  <2> QED  BY <2>1, Cadences DEF PingEvent, StallWindow, Watched
<1>8. CASE Silence
  BY <1>8 DEF Silence, Watched
<1>9. CASE WireDies \/ \E k \in Kinds : ServerChange(k)
  BY <1>9 DEF WireDies, ServerChange, Watched
<1> QED
  BY <1>1, <1>2, <1>3, <1>4, <1>5, <1>6, <1>7, <1>8, <1>9 DEF Goroutine, Surroundings

\* Whatever cadences servers advertise and whatever this client asks for, the event
\* source's stall window never aborts a connection that works as silent, and notices
\* one that has died within twice the ceiling.
THEOREM StallWindowsFit == Spec => []StallWindowFits
<1>1. Init => Watched
  BY DEF Init, TInit, Watched
<1>2. TypeOK /\ Watched /\ [Next]_vars => Watched'
  <2> SUFFICES ASSUME TypeOK, Watched, [Next]_vars PROVE Watched'
    OBVIOUS
  <2> TTypeOK
    BY TypeParts
  <2>1. CASE RunPush
    <3>1. UNCHANGED line /\ (conn' = conn \/ conn' = "dialing")
      BY <2>1, RunPushTransport
    <3> QED  BY <3>1 DEF Watched, line
  <2>2. CASE Cancel
    BY <2>2 DEF Cancel, net, line, Watched
  <2>3. CASE Transport(Goroutine) \/ Transport(Surroundings)
    BY <2>3, TransportWatched DEF Transport
  <2>4. CASE UNCHANGED vars
    BY <2>4 DEF vars, tvars, net, line, Watched
  <2> QED  BY <2>1, <2>2, <2>3, <2>4 DEF Next
<1>3. TypeOK /\ Watched => StallWindowFits
  BY ServerPings DEF TypeOK, TTypeOK, Watched, StallWindowFits
<1> QED  BY <1>1, <1>2, <1>3, TypeCorrect, PTL DEF Spec
-----------------------------------------------------------------------------
(* Reopening. *)

\* Why a stream that will not open has stopped is known to who waits for it, and the
\* context's end is a reason only once it has ended.
StopKnown ==
  /\ why = Cancelled \/ stop = Cancelled => cancelled
  /\ conn = "ending" => why # NoStop
  /\ stream.over => conn = "idle"
  /\ pc = "opening" /\ conn \in {"noted", "closed", "idle"} /\ (transport = "jmap" \/ ~stream.opened)
       => stop # NoStop

LEMMA TransportStops ==
  ASSUME TTypeOK, StopKnown, Goroutine \/ Surroundings, pc' = pc
  PROVE  StopKnown'
<1> stream \in Streams
  BY DEF TTypeOK, Streams
<1> USE DEF StopKnown
<1>1. CASE DialFails \/ Lost \/ Stall
  BY <1>1 DEF DialFails, Lost, Stall, Dropped
<1>2. CASE Accepted \/ Redial
  BY <1>2 DEF Accepted, Redial
<1>3. CASE Connected
  BY <1>3 DEF Connected, Streams
<1>4. CASE StateEvent
  BY <1>4 DEF StateEvent, Notify, Streams
<1>5. CASE ContextSeen
  BY <1>5 DEF ContextSeen, Ends, Cancelled, NoStop
<1>6. CASE NoteStop
  BY <1>6 DEF NoteStop, Cancelled, NoStop
<1>7. CASE CloseChannel \/ CloseStopped
  BY <1>7 DEF CloseChannel, CloseStopped, Streams
<1>8. CASE \E c \in Classes : Refused(c)
  BY <1>8, ClassesAreFailures DEF Refused, Ends
<1>9. CASE \E said \in Advertised : PingEvent(said)
  BY <1>9 DEF PingEvent
<1>10. CASE Silence \/ WireDies \/ \E k \in Kinds : ServerChange(k)
  BY <1>10 DEF Silence, WireDies, ServerChange
<1> QED
  BY <1>1, <1>2, <1>3, <1>4, <1>5, <1>6, <1>7, <1>8, <1>9, <1>10 DEF Goroutine, Surroundings

\* A Listen call is waited for by who made it.
LEMMA OpeningBegins ==
  ASSUME LoopTypes, RunPush, pc' = "opening"
  PROVE  \/ pc = "opening"
         \/ pc = "listen" /\ conn' = "dialing"
<1>1. CASE Listen
  BY <1>1 DEF Listen, Start, ListenFails, Sleep
<1>2. CASE NotOpened \/ Stopped
  BY <1>2 DEF NotOpened, Stopped, ListenFails, Sleep
<1>3. CASE Poll \/ PollKinds \/ WindowOver \/ ChannelClosed \/ FlushOver
  BY <1>3 DEF Poll, PollKinds, WindowOver, ChannelClosed, FlushOver, Flush, LoopTypes
<1>4. CASE WaitOver \/ Opened \/ Take \/ Proved \/ GiveUp
  BY <1>4 DEF WaitOver, Opened, Take, Proved, GiveUp
<1>5. CASE \E k \in Kinds : \/ KindSynced(k) \/ KindCancelled(k) \/ \E c \in Classes : KindFails(k, c)
  BY <1>5 DEF KindSynced, KindCancelled, KindFails
<1> QED  BY <1>1, <1>2, <1>3, <1>4, <1>5 DEF RunPush

LEMMA NextStops ==
  ASSUME TypeOK, StopKnown, [Next]_vars
  PROVE  StopKnown'
<1> TTypeOK /\ LoopTypes
  BY TypeParts
<1>1. CASE RunPush
  <2>1. UNCHANGED <<transport, cancelled, why>>
    BY <1>1, RunPushTransport
  <2>2. CASE UNCHANGED <<conn, stream, stop>>
    BY <1>1, <2>1, <2>2, OpeningBegins DEF StopKnown
  <2>3. CASE conn' = "dialing" /\ stream' = Fresh /\ stop' = stop
    BY <2>1, <2>3 DEF StopKnown, Fresh
  <2>4. CASE UNCHANGED <<conn, stream>> /\ stop' = NoStop /\ pc' # "opening"
    BY <2>1, <2>4 DEF StopKnown, NoStop, Cancelled
  <2>5. CASE UNCHANGED <<conn, stop>> /\ stream' = [stream EXCEPT !.slot = FALSE] /\ pc' = "consume"
    BY <2>1, <2>5 DEF StopKnown, TTypeOK
  <2> QED  BY <1>1, <2>2, <2>3, <2>4, <2>5, RunPushTransport
<1>2. CASE Cancel
  BY <1>2 DEF Cancel, loop, net, StopKnown
<1>3. CASE Transport(Goroutine) \/ Transport(Surroundings)
  BY <1>3, TransportStops DEF Transport, loop
<1>4. CASE UNCHANGED vars
  BY <1>4 DEF vars, tvars, net, loop, StopKnown
<1> QED  BY <1>1, <1>2, <1>3, <1>4 DEF Next

\* Where the loop is, or will be when the flush under way is over.
At(where) == pc = where \/ (pc = "flush" /\ after = where)

\* Reopenings are paid for: the wait after a stop is owed one, a proof clears the
\* count, and until the user is told the unproved stops keep up with it.
Tally ==
  /\ reopens <= push.attempt + 1 /\ (At("tail") => reopens <= push.attempt)
  /\ push.justProved => reopens = 0 /\ (At("consume") \/ At("stopped") \/ pc = "done")
  /\ ~push.failing /\ ~cancelled => /\ reopens <= push.unproved + 1
                                    /\ At("tail") => reopens <= push.unproved
                                    /\ ~At("wait")

\* A wait begins, or is skipped.
LEMMA SleepTally ==
  ASSUME LoopTypes, NEW p \in PushStates, NEW where \in {"wait", "tail"}, Sleep(p, where),
         cancelled' = cancelled, after' = after, ~p.justProved,
         reopens <= p.attempt + 1, where = "tail" => reopens <= p.attempt,
         ~p.failing /\ ~cancelled => where = "tail" /\ reopens <= p.unproved
  PROVE  Tally'
<1> DEFINE q == [p EXCEPT !.attempt = Least(@ + 1, ReopenCap)]
<1>1. /\ q \in PushStates /\ q.attempt = Least(p.attempt + 1, ReopenCap)
      /\ q.unproved = p.unproved /\ q.failing = p.failing /\ q.justProved = p.justProved
  BY AttemptTyped
<1>2. p.attempt \in 0..ReopenCap /\ p.unproved \in 0..1 /\ reopens \in 0..ReopenCap
  BY PushFields DEF LoopTypes
<1>3. Sleep(p, where) => \/ pc' = where /\ push' = p /\ reopens' = reopens
                         \/ pc' = "done" /\ push' = p /\ reopens' = reopens
                         \/ /\ pc' = "listen" /\ reopens' = Least(reopens + 1, ReopenCap)
                            /\ push' = IF where = "wait" THEN q ELSE p
  BY DEF Sleep
<1> HIDE DEF q
<1>4. CASE pc' \in {where, "done"} /\ push' = p /\ reopens' = reopens
  BY <1>2, <1>4 DEF Tally, At
<1>5. CASE pc' = "listen" /\ reopens' = Least(reopens + 1, ReopenCap) /\ where = "wait" /\ push' = q
  BY <1>1, <1>2, <1>5, Caps, Counted DEF Tally, At
<1>6. CASE pc' = "listen" /\ reopens' = Least(reopens + 1, ReopenCap) /\ where = "tail" /\ push' = p
  BY <1>2, <1>6, Caps, Counted DEF Tally, At
<1> QED  BY <1>3, <1>4, <1>5, <1>6

LEMMA ListenFailsTally ==
  ASSUME TypeOK, Tally, ListenFails(stop), pc \in {"listen", "opening"}, cancelled' = cancelled,
         stop # NoStop, stop = Cancelled => cancelled
  PROVE  Tally'
<1>1. push \in PushStates /\ push \in Attempting /\ LoopTypes /\ stop \in Stops
  BY PushFields, TypeParts DEF LoopTypes, TTypeOK
<1>2. push.attempt \in 0..ReopenCap
  BY <1>1, PushFields
<1> DEFINE p == Fail(push, stop)
<1>3. /\ p \in PushStates /\ p.attempt = push.attempt /\ p.justProved = push.justProved
      /\ ~cancelled => p.failing
  BY <1>1, FailTyped DEF Surfaceable
<1>4. Sleep(p, "wait") /\ after' = after
  BY DEF ListenFails
<1>5. ~push.justProved /\ reopens <= push.attempt + 1
  BY DEF Tally, At
<1> HIDE DEF p
<1> QED  BY <1>1, <1>3, <1>4, <1>5, SleepTally

LEMMA RunPushTally ==
  ASSUME TypeOK, StopKnown, Tally, RunPush
  PROVE  Tally'
<1> TTypeOK /\ LoopTypes /\ push \in PushStates /\ cancelled' = cancelled
  BY TypeParts, RunPushTransport DEF LoopTypes
<1> push.attempt \in 0..ReopenCap /\ push.unproved \in 0..1 /\ reopens \in 0..ReopenCap
  BY PushFields DEF LoopTypes
<1>1. CASE FlushOver
  BY <1>1 DEF FlushOver, Tally, At, LoopTypes
<1>2. CASE WaitOver
  <2> DEFINE q == [push EXCEPT !.attempt = Least(@ + 1, ReopenCap)]
  <2>1. /\ q \in PushStates /\ q.attempt = Least(push.attempt + 1, ReopenCap)
        /\ q.unproved = push.unproved /\ q.failing = push.failing /\ q.justProved = push.justProved
    BY AttemptTyped
  <2>2. /\ pc' = "listen" /\ reopens' = Least(reopens + 1, ReopenCap) /\ pc \in {"wait", "tail"}
        /\ push' = IF pc = "wait" THEN q ELSE push
    BY <1>2 DEF WaitOver
  <2> HIDE DEF q
  <2>3. CASE pc = "wait"
    BY <2>1, <2>2, <2>3, Caps, Counted DEF Tally, At
  <2>4. CASE pc = "tail"
    BY <2>2, <2>4, Caps, Counted DEF Tally, At
  <2> QED  BY <2>2, <2>3, <2>4
<1>3. CASE Poll
  BY <1>3 DEF Poll, Polls, Flush, Tally, At
<1>4. CASE PollKinds
  BY <1>4 DEF PollKinds, Flush, Tally, At
<1>5. CASE Listen
  <2>1. CASE stop # NoStop /\ ListenFails(stop)
    BY <1>5, <2>1, ListenFailsTally DEF Listen, StopKnown
  <2>2. CASE pc' = "opening" /\ UNCHANGED <<after, push, reopens>>
    BY <1>5, <2>2 DEF Listen, Tally, At
  <2> QED  BY <1>5, <2>1, <2>2 DEF Listen
<1>6. CASE Opened
  BY <1>6 DEF Opened, Tally, At
<1>7. CASE NotOpened
  BY <1>7, ListenFailsTally DEF NotOpened, StopKnown
<1>8. CASE Take
  BY <1>8 DEF Take, Tally, At
<1>9. CASE WindowOver
  BY <1>9 DEF WindowOver, Flush, Tally, At
<1>10. CASE Proved
  <2>1. Prove(push).attempt = 0 /\ Prove(push).unproved = 0
    BY ProveTyped
  <2> QED  BY <1>10, <2>1 DEF Proved, Tally, At
<1>11. CASE ChannelClosed
  BY <1>11 DEF ChannelClosed, Flush, Tally, At
<1>12. CASE Stopped
  <2> DEFINE p == Stop(push)
  <2>1. /\ p \in PushStates /\ ~p.justProved
        /\ push.justProved => p.attempt = push.attempt
        /\ ~push.justProved => p.attempt = Least(push.attempt + 1, ReopenCap)
        /\ push.failing => p.failing
        /\ ~push.justProved /\ ~p.failing => p.unproved = push.unproved + 1
    BY StopTyped
  <2>2. p.attempt \in 0..ReopenCap /\ p.unproved \in 0..1
    BY <2>1, PushFields
  <2>3. Sleep(p, "tail") /\ after' = after
    BY <1>12 DEF Stopped
  <2> HIDE DEF p
  <2>4. reopens <= p.attempt
    BY <2>1, Caps, Counted DEF Tally
  <2>5. ~p.failing /\ ~cancelled => reopens <= p.unproved
    BY <2>1, <2>2 DEF Tally
  <2> QED  BY <2>1, <2>2, <2>3, <2>4, <2>5, SleepTally
<1>13. CASE GiveUp
  BY <1>13 DEF GiveUp, Tally, At
<1>14. CASE \E k \in Kinds : \/ KindSynced(k) \/ KindCancelled(k) \/ \E c \in Classes : KindFails(k, c)
  BY <1>14 DEF KindSynced, KindCancelled, KindFails, Tally, At
<1> QED
  BY <1>1, <1>2, <1>3, <1>4, <1>5, <1>6, <1>7, <1>8, <1>9, <1>10, <1>11, <1>12, <1>13, <1>14
     DEF RunPush

\* RunPush, for any kinds, classes and bounds: every call of Listen since a stream last
\* proved itself has moved the backoff on, and from the third pushState is failing, unless the run is being cancelled.
THEOREM ReopeningBacksOff == Spec => []ReopensBackOff
<1>1. Init => StopKnown /\ Tally
  BY DEF Init, TInit, StopKnown, Tally, At, Fresh, NoStop, Cancelled
<1>2. TypeOK /\ StopKnown /\ [Next]_vars => StopKnown'
  BY NextStops
<1>3. TypeOK /\ StopKnown /\ Tally /\ [Next]_vars => Tally'
  <2> SUFFICES ASSUME TypeOK, StopKnown, Tally, [Next]_vars PROVE Tally'
    OBVIOUS
  <2>1. CASE RunPush
    BY <2>1, RunPushTally
  <2>2. CASE Cancel
    BY <2>2 DEF Cancel, loop, Tally, At
  <2>3. CASE Transport(Goroutine) \/ Transport(Surroundings)
    <3>1. cancelled' = cancelled
      BY <2>3 DEF Transport, Goroutine, Surroundings, DialFails, Accepted, Connected, StateEvent, Lost,
                  Stall, Redial, ContextSeen, NoteStop, CloseChannel, CloseStopped, Refused, PingEvent,
                  Silence, WireDies, ServerChange
    <3> QED  BY <2>3, <3>1 DEF Transport, loop, Tally, At
  <2>4. CASE UNCHANGED vars
    BY <2>4 DEF vars, tvars, loop, Tally, At
  <2> QED  BY <2>1, <2>2, <2>3, <2>4 DEF Next
<1>4. TypeOK /\ Tally => ReopensBackOff
  <2> SUFFICES ASSUME TypeOK, Tally PROVE ReopensBackOff
    OBVIOUS
  <2>1. push.unproved \in 0..1 /\ reopens \in 0..ReopenCap
    BY TypeParts, PushFields DEF LoopTypes
  <2> QED  BY <2>1 DEF Tally, At, ReopensBackOff
<1> QED  BY <1>1, <1>2, <1>3, <1>4, TypeCorrect, PTL DEF Spec
-----------------------------------------------------------------------------
(* What is owed. *)

\* A change owed a sync.  The window whose flush is under way is a debt no more:
\* what that flush has passed by must have another.
Owed(k) ==
  \/ event \/ stream.slot \/ failing[k] # NoStop \/ cancelled
  \/ pc = "flush" /\ k \in todo
  \/ pc # "flush" /\ gathering

Covering ==
  /\ conn = "open" /\ alive /\ pc # "done" => \A k \in behind : Owed(k)
  /\ gathering => pc \in {"consume", "flush", "done"}
  /\ stream.shut => conn \in {"closed", "idle"}

\* What a step writes of the stream.
LEMMA StreamFields ==
  ASSUME NEW s \in Streams
  PROVE  /\ [s EXCEPT !.slot = TRUE].slot /\ [s EXCEPT !.opened = TRUE, !.slot = TRUE].slot
         /\ [s EXCEPT !.slot = TRUE].shut = s.shut /\ [s EXCEPT !.slot = FALSE].shut = s.shut
         /\ [s EXCEPT !.opened = TRUE, !.slot = TRUE].shut = s.shut
         /\ [s EXCEPT !.over = TRUE].shut = s.shut
<1>1. [s EXCEPT !.slot = TRUE].slot /\ [s EXCEPT !.opened = TRUE, !.slot = TRUE].slot
  BY Zenon DEF Streams
<1>2. [s EXCEPT !.slot = TRUE].shut = s.shut /\ [s EXCEPT !.slot = FALSE].shut = s.shut
  BY Zenon DEF Streams
<1>3. [s EXCEPT !.opened = TRUE, !.slot = TRUE].shut = s.shut
  BY Zenon DEF Streams
<1>4. [s EXCEPT !.over = TRUE].shut = s.shut
  BY Zenon DEF Streams
<1> QED BY <1>1, <1>2, <1>3, <1>4

LEMMA TransportCovers ==
  ASSUME TTypeOK, Covering, Goroutine \/ Surroundings, pc # "done", UNCHANGED <<loop, failing>>
  PROVE  Covering'
<1> USE DEF Covering, Owed, loop
<1>0. stream \in Streams
  BY DEF TTypeOK, Streams
<1>1. CASE DialFails \/ Lost \/ Stall
  BY <1>1 DEF DialFails, Lost, Stall, Dropped
<1>2. CASE Accepted \/ Redial
  BY <1>2 DEF Accepted, Redial
<1>3. CASE Connected
  BY <1>0, <1>3, StreamFields DEF Connected
<1>4. CASE StateEvent
  BY <1>0, <1>4, StreamFields DEF StateEvent, Notify
<1>5. CASE ContextSeen \/ \E c \in Classes : Refused(c)
  BY <1>5 DEF ContextSeen, Refused, Ends
<1>6. CASE NoteStop
  BY <1>6 DEF NoteStop
<1>7. CASE CloseChannel
  BY <1>7 DEF CloseChannel
<1>8. CASE CloseStopped
  BY <1>0, <1>8, StreamFields DEF CloseStopped
<1>9. CASE (\E said \in Advertised : PingEvent(said)) \/ Silence \/ WireDies
  BY <1>9 DEF PingEvent, Silence, WireDies
<1>10. CASE \E k \in Kinds : ServerChange(k)
  <2>1. PICK k \in Kinds : ServerChange(k)
    BY <1>10
  <2>2. UNCHANGED <<cancelled, conn, alive, stream, pc, todo, gathering, failing>> /\ behind' = behind \cup {k}
    BY <2>1 DEF ServerChange
  <2>3. event' = (event \/ (conn \in {"accepted", "open"} /\ alive))
    BY <2>1 DEF ServerChange
  <2>4. conn = "open" /\ alive => event'
    BY <2>3, Zenon
  <2>5. event => event'
    BY <2>3, Zenon
  <2> QED BY <2>2, <2>4, <2>5
<1> QED
  BY <1>1, <1>2, <1>3, <1>4, <1>5, <1>6, <1>7, <1>8, <1>9, <1>10 DEF Goroutine, Surroundings

LEMMA RunPushCovers ==
  ASSUME TypeOK, Covering, RunPush
  PROVE  Covering'
<1> USE DEF Covering, Owed
<1>0. stream \in Streams /\ failing \in [Kinds -> Classes \cup {NoStop}] /\ behind \subseteq Kinds
  BY DEF TypeOK, TTypeOK, Streams
<1>1. CASE \E k \in Kinds : KindSynced(k)
  BY <1>0, <1>1 DEF KindSynced, net, line
<1>2. CASE \E k \in Kinds, c \in Classes : KindFails(k, c)
  BY <1>0, <1>2, ClassesAreFailures DEF KindFails, tvars, net, line
<1>3. CASE \E k \in Kinds : KindCancelled(k)
  BY <1>3 DEF KindCancelled, tvars, net, line
<1>4. CASE FlushOver
  BY <1>4 DEF FlushOver, tvars, net, line, TypeOK
<1>5. CASE WaitOver
  BY <1>5 DEF WaitOver, tvars, net, line
<1>6. CASE Poll \/ PollKinds \/ WindowOver
  BY <1>0, <1>6 DEF Poll, PollKinds, WindowOver, Flush, Polls, tvars, net, line
<1>7. CASE Listen
  <2>1. CASE ListenFails(stop) /\ UNCHANGED <<transport, cancelled, behind, conn, line, why, stream>>
    BY <1>7, <2>1 DEF Listen, ListenFails, Sleep, line
  <2>2. CASE Start /\ pc' = "opening" /\ UNCHANGED <<gathering>>
    BY <1>7, <2>2 DEF Listen, Start, Fresh
  <2> QED BY <1>7, <2>1, <2>2 DEF Listen
<1>8. CASE Opened
  BY <1>8 DEF Opened, tvars, net, line
<1>9. CASE NotOpened
  BY <1>9 DEF NotOpened, ListenFails, Sleep, line
<1>10. CASE Take
  BY <1>0, <1>10, StreamFields DEF Take, net, line
<1>11. CASE Proved
  BY <1>11 DEF Proved, tvars, net, line
<1>12. CASE ChannelClosed
  BY <1>0, <1>12 DEF ChannelClosed, Flush, tvars, net, line
<1>13. CASE Stopped
  BY <1>13 DEF Stopped, Sleep, tvars, net, line
<1>14. CASE GiveUp
  BY <1>14 DEF GiveUp, tvars, net, line
<1> QED
  BY <1>1, <1>2, <1>3, <1>4, <1>5, <1>6, <1>7, <1>8, <1>9, <1>10, <1>11, <1>12, <1>13, <1>14 DEF RunPush

LEMMA NextCovers == ASSUME TypeOK, Covering, [Next]_vars PROVE Covering'
<1>1. CASE RunPush
  BY <1>1, RunPushCovers
<1>2. CASE Cancel
  BY <1>2 DEF Cancel, Covering, Owed, net, line, loop
<1>3. CASE Transport(Goroutine) \/ Transport(Surroundings)
  BY <1>3, TransportCovers DEF Transport, TypeOK
<1>4. CASE UNCHANGED vars
  BY <1>4 DEF vars, tvars, net, line, loop, Covering, Owed
<1> QED BY <1>1, <1>2, <1>3, <1>4 DEF Next

\* While a stream is open and its connection works, every change the server holds
\* is owed a sync, unless a sync of its kind was tried and failed or the context
\* has ended.  Nothing is said of the time in which no stream is open.
THEOREM ChangesAreOwed == Spec => []ChangeCovered
<1>1. Init => Covering
  BY DEF Init, TInit, Covering, Fresh
<1>2. TypeOK /\ Covering /\ [Next]_vars => Covering'
  BY NextCovers
<1>3. Covering => ChangeCovered
  BY DEF Covering, Owed, ChangeCovered
<1> QED BY <1>1, <1>2, <1>3, TypeCorrect, PTL DEF Spec
=============================================================================
