------------------------------ MODULE PushLoop ------------------------------
(***************************************************************************)
(* Worker.RunPush over the transport of PushTransport: open a stream,      *)
(* coalesce its notifications into syncs of every kind, and, between       *)
(* streams, wait on a growing schedule while poll ticks pull instead.  One *)
(* kind's sync is one step here; module SyncWorker is what happens in it.  *)
(***************************************************************************)
EXTENDS PushTransport

CONSTANTS
  Mailbox,     \* the kind that is synced first
  BackoffMin, BackoffMax,  \* the schedule's shortest and longest bound
  ReopenCap    \* bound on the schedule's attempt and on the history of reopenings

ASSUME LoopInputs ==
  /\ Mailbox \in Kinds /\ {BackoffMin, BackoffMax, ReopenCap} \subseteq Nat \ {0}
  /\ ReopenCap > 2

VARIABLES
  pc,        \* where RunPush is
  after,     \* where it goes on when the flush under way is over
  todo,      \* the kinds that flush has left
  gathering, \* consumePush: the coalescing window is open
  proving,   \* consumePush: the proving timer has not fired
  push,      \* pushState
  failing,   \* syncFlushState: the class each kind's sync fails with
  status,    \* the last Health reported
  reopens    \* history: calls of Listen since a stream last proved itself

loop == <<pc, after, todo, gathering, proving, push>>
vars == <<tvars, loop, failing, status, reopens>>

Init ==
  /\ TInit
  /\ pc = IF transport = "none" THEN "start" ELSE "listen"
  /\ after = "poll" /\ todo = {} /\ gathering = FALSE /\ proving = FALSE
  /\ push = [failing |-> FALSE, class |-> NoStop, attempt |-> 0, unproved |-> 0, justProved |-> FALSE]
  /\ failing = [k \in Kinds |-> NoStop] /\ status = "none" /\ reopens = 0
-----------------------------------------------------------------------------
(* pushState. *)

Surfaceable(err) == err # NoStop /\ err # Cancelled

Fail(p, err) ==
  IF Surfaceable(err)
  THEN [p EXCEPT !.unproved = 0, !.failing = TRUE, !.class = err]
  ELSE p

UnprovedStops == 2
NeverProved == "connection"

Stop_Flat(p) ==
  IF p.justProved THEN [p EXCEPT !.justProved = FALSE, !.unproved = 0]
  ELSE LET q == [p EXCEPT !.unproved = @ + 1]
       IN IF q.unproved >= UnprovedStops THEN Fail(q, NeverProved) ELSE q

Stop_Unsaid(p) ==
  IF p.justProved THEN [p EXCEPT !.justProved = FALSE, !.unproved = 0]
  ELSE [p EXCEPT !.unproved = @ + 1, !.attempt = Least(@ + 1, ReopenCap)]

Stop(p) ==
  IF p.justProved THEN [p EXCEPT !.justProved = FALSE, !.unproved = 0]
  ELSE LET q == [p EXCEPT !.unproved = @ + 1, !.attempt = Least(@ + 1, ReopenCap)]
       IN IF q.unproved >= UnprovedStops THEN Fail(q, NeverProved) ELSE q

Prove(p) == [p EXCEPT !.failing = FALSE, !.attempt = 0, !.unproved = 0, !.justProved = TRUE]

\* Every delay the schedule may draw after so many attempts.
Bound[n \in Nat] ==
  IF n = 0 THEN Least(BackoffMin, BackoffMax) ELSE Least(2 * Bound[n - 1], BackoffMax)
BackoffDelay(n) == 0 .. (Bound[n] - 1)
-----------------------------------------------------------------------------
(* Flushing: one SyncKind per kind, mailboxes first. *)

Flush(then) == pc' = "flush" /\ after' = then /\ todo' = Kinds /\ status' = "syncing"

NextKind(k) == k \in todo /\ (k = Mailbox \/ Mailbox \notin todo)

KindSynced(k) ==
  /\ pc = "flush" /\ NextKind(k)
  /\ behind' = behind \ {k} /\ failing' = [failing EXCEPT ![k] = NoStop]
  /\ todo' = todo \ {k}
  /\ UNCHANGED <<transport, cancelled, net, stream, pc, after, gathering, proving, push, status, reopens>>

KindFails(k, c) ==
  /\ pc = "flush" /\ NextKind(k)
  /\ failing' = [failing EXCEPT ![k] = c] /\ todo' = todo \ {k}
  /\ UNCHANGED <<tvars, pc, after, gathering, proving, push, status, reopens>>

KindCancelled(k) ==
  /\ pc = "flush" /\ NextKind(k) /\ cancelled
  /\ todo' = todo \ {k}
  /\ UNCHANGED <<tvars, pc, after, gathering, proving, push, failing, status, reopens>>

FlushOver ==
  /\ pc = "flush" /\ todo = {}
  /\ status' = IF \A k \in Kinds : failing[k] = NoStop THEN "synced" ELSE status
  /\ pc' = after /\ after' = "poll" /\ gathering' = FALSE
  /\ UNCHANGED <<tvars, todo, proving, push, failing, reopens>>
-----------------------------------------------------------------------------
(* Waits between streams. *)

\* sleepBackoff, ahead of a wait at where; a delay of zero is no wait.
Sleep(p, where) ==
  \E d \in BackoffDelay(p.attempt) :
    IF d > 0 THEN pc' = where /\ status' = "backingOff" /\ push' = p /\ UNCHANGED reopens
    ELSE /\ UNCHANGED status
         /\ IF cancelled THEN pc' = "done" /\ push' = p /\ UNCHANGED reopens
            ELSE /\ pc' = "listen" /\ reopens' = Least(reopens + 1, ReopenCap)
                 /\ push' = IF where = "wait" THEN [p EXCEPT !.attempt = Least(@ + 1, ReopenCap)] ELSE p

ListenFails(err) ==
  /\ Sleep(Fail(push, err), "wait") /\ stop' = NoStop
  /\ UNCHANGED <<after, todo, gathering, proving, failing>>

WaitOver ==
  /\ pc \in {"wait", "tail"} /\ pc' = "listen"
  /\ push' = IF pc = "wait" THEN [push EXCEPT !.attempt = Least(@ + 1, ReopenCap)] ELSE push
  /\ reopens' = Least(reopens + 1, ReopenCap)
  /\ UNCHANGED <<tvars, after, todo, gathering, proving, failing, status>>

Polls_Tail == {"tail", "poll"}
Polls == {"wait", "tail", "poll"}

\* A poll tick, which is read in the waits only, never while a stream is in force.
Poll ==
  /\ pc \in Polls /\ Flush(pc)
  /\ UNCHANGED <<tvars, gathering, proving, push, failing, reopens>>

\* pollKinds: no transport at all.
PollKinds ==
  /\ pc = "start" /\ Flush("poll")
  /\ UNCHANGED <<tvars, gathering, proving, push, failing, reopens>>
-----------------------------------------------------------------------------
(* Opening a stream. *)

\* Listen reports what ended the last stream before it opens another.
Listen ==
  /\ pc = "listen"
  /\ \/ /\ stop # NoStop /\ ListenFails(stop)
        /\ UNCHANGED <<transport, cancelled, behind, conn, line, why, stream>>
     \/ /\ stop = NoStop /\ Start /\ pc' = "opening"
        /\ UNCHANGED <<transport, cancelled, behind, line, why, stop,
                       after, todo, gathering, proving, push, failing, status, reopens>>

Opened ==
  /\ pc = "opening" /\ stream.opened
  /\ pc' = "consume" /\ gathering' = FALSE /\ proving' = TRUE
  /\ UNCHANGED <<tvars, after, todo, push, failing, status, reopens>>

\* The stream was refused, or it opened and stopped and the select saw that.
NotOpened ==
  /\ pc = "opening" /\ stream.over /\ (transport = "jmap" \/ ~stream.opened)
  /\ ListenFails(stop)
  /\ UNCHANGED <<transport, cancelled, behind, conn, line, why, stream>>
-----------------------------------------------------------------------------
(* consumePush. *)

Take ==
  /\ pc = "consume" /\ stream.slot
  /\ stream' = [stream EXCEPT !.slot = FALSE] /\ gathering' = TRUE
  /\ UNCHANGED <<transport, cancelled, behind, net, pc, after, todo, proving, push, failing, status, reopens>>

WindowOver ==
  /\ pc = "consume" /\ gathering /\ Flush("consume")
  /\ UNCHANGED <<tvars, gathering, proving, push, failing, reopens>>

Proved ==
  /\ pc = "consume" /\ proving
  /\ proving' = FALSE /\ push' = Prove(push) /\ status' = "synced" /\ reopens' = 0
  /\ UNCHANGED <<tvars, pc, after, todo, gathering, failing>>

\* The channel is closed: an open window is flushed first.
ChannelClosed_Drops ==
  /\ pc = "consume" /\ stream.shut /\ ~stream.slot /\ proving' = FALSE
  /\ pc' = "stopped" /\ UNCHANGED <<after, todo, status>>
  /\ UNCHANGED <<tvars, gathering, push, failing, reopens>>

ChannelClosed ==
  /\ pc = "consume" /\ stream.shut /\ ~stream.slot /\ proving' = FALSE
  /\ IF gathering THEN Flush("stopped") ELSE pc' = "stopped" /\ UNCHANGED <<after, todo, status>>
  /\ UNCHANGED <<tvars, gathering, push, failing, reopens>>

Stopped ==
  /\ pc = "stopped" /\ Sleep(Stop(push), "tail")
  /\ UNCHANGED <<tvars, after, todo, gathering, proving, failing>>
-----------------------------------------------------------------------------
Cancel ==
  /\ ~cancelled /\ cancelled' = TRUE
  /\ UNCHANGED <<transport, behind, net, stream, loop, failing, status, reopens>>

\* A select that takes its ctx.Done case.
GiveUp ==
  /\ cancelled /\ pc \in {"wait", "tail", "poll", "consume"} /\ pc' = "done"
  /\ UNCHANGED <<tvars, after, todo, gathering, proving, push, failing, status, reopens>>

RunPush ==
  \/ FlushOver \/ WaitOver \/ Poll \/ PollKinds \/ Listen \/ Opened \/ NotOpened
  \/ Take \/ WindowOver \/ Proved \/ ChannelClosed \/ Stopped \/ GiveUp
  \/ \E k \in Kinds : \/ KindSynced(k) \/ KindCancelled(k)
                      \/ \E c \in Classes : KindFails(k, c)

Transport(A) == pc # "done" /\ A /\ UNCHANGED <<loop, failing, status, reopens>>

Next == RunPush \/ Cancel \/ Transport(Goroutine) \/ Transport(Surroundings)

Spec == Init /\ [][Next]_vars

(***************************************************************************)
(* The goroutines run, timers fire, a state event arrives on a connection  *)
(* that works, and one that carries nothing lets time pass; no sync, dial  *)
(* or refusal is promised to go one way.  A select whose window timer is   *)
(* ready takes it some time; the delays drawn are not zero for ever, and a *)
(* wait whose ticker keeps ticking polls some time.                        *)
(***************************************************************************)
Waits == (Listen \/ NotOpened \/ Stopped) /\ pc' \in {"wait", "tail"}

FairSpec ==
  /\ Spec
  /\ WF_vars(RunPush) /\ WF_vars(WindowOver) /\ SF_vars(Waits) /\ SF_vars(Poll)
  /\ WF_vars(Transport(Goroutine)) /\ WF_vars(Transport(StateEvent)) /\ WF_vars(Transport(Silence))
-----------------------------------------------------------------------------
TypeOK ==
  /\ TTypeOK
  /\ pc \in {"start", "poll", "listen", "opening", "consume", "flush", "stopped", "wait", "tail", "done"}
  /\ after \in {"poll", "consume", "stopped", "wait", "tail"} /\ todo \subseteq Kinds
  /\ gathering \in BOOLEAN /\ proving \in BOOLEAN
  /\ push \in [failing : BOOLEAN, class : Classes \cup {NoStop, NeverProved},
               attempt : 0..ReopenCap, unproved : 0..(UnprovedStops - 1), justProved : BOOLEAN]
  /\ failing \in [Kinds -> Classes \cup {NoStop}]
  /\ status \in {"none", "syncing", "synced", "backingOff"} /\ reopens \in 0..ReopenCap

(***************************************************************************)
(* While a stream is in force nothing else pulls, so every change the      *)
(* server holds must be owed a sync: a state event or a notification is on *)
(* its way, a coalescing window is open, or the flush under way has its    *)
(* kind still to do.  Only a sync that was tried and failed, or a          *)
(* connection that has died and will be noticed, leaves a change unowed.   *)
(* And no open window, which is such a debt, outlives its stream.          *)
(***************************************************************************)
ChangeCovered ==
  /\ conn = "open" /\ alive /\ pc # "done" =>
       \A k \in behind :
         \/ event \/ stream.slot \/ gathering \/ failing[k] # NoStop
         \/ pc = "flush" /\ k \in todo
         \/ cancelled
  /\ gathering => pc \in {"consume", "flush", "done"}

(***************************************************************************)
(* However streams and refusals are mixed, each call of Listen since a     *)
(* stream last proved itself has moved the schedule on, from the third     *)
(* reopening on the user has been told, and no proof is left over for the  *)
(* next stream.                                                            *)
(***************************************************************************)
ReopensBackOff ==
  /\ reopens <= push.attempt + 1
  /\ reopens >= 3 => push.failing \/ cancelled
  /\ push.justProved => pc \in {"consume", "stopped", "done"} \/ (pc = "flush" /\ after \in {"consume", "stopped"})

(***************************************************************************)
(* Every change the server makes is pulled, or its sync was tried and      *)
(* failed, or the program is leaving: as long as one Listen does not spend *)
(* the rest of the run dialling.                                           *)
(***************************************************************************)
Settled(k) == k \notin behind \/ failing[k] # NoStop \/ cancelled

ChangePulled ==
  ([]<>(conn \notin {"dialing", "pausing"})) => \A k \in Kinds : k \in behind ~> Settled(k)

(***************************************************************************)
(* The fallback as RunPush's comment has it: through every window in which *)
(* no stream is open, polling pulls the change.                            *)
(***************************************************************************)
NoStreamStillPulls == \A k \in Kinds : k \in behind ~> Settled(k) \/ conn = "open"
=============================================================================
