--------------------------- MODULE PushTransport ----------------------------
(***************************************************************************)
(* The push transport: package jmap's event source, which keeps one        *)
(* connection open, notices a silent one, and reconnects across a drop;    *)
(* and jmapsource's Push over it, which turns connections and state events *)
(* into notifications in a channel of one slot, and hands why a stream     *)
(* stopped to the next call of Listen.  Module PushLoop is its caller.     *)
(*                                                                         *)
(* Time is counted where a duration decides something: in half minutes  *)
(* of silence on the open connection.                                      *)
(*                                                                         *)
(* A definition X_Y is no part of the model: it is X with a plausible slip *)
(* in the code it stands for, kept beside X to show which property notices.*)
(***************************************************************************)
EXTENDS Integers, FiniteSets

CONSTANTS
  Kinds,       \* the kinds of object the account syncs
  Classes,     \* what the server refuses with, as the program classifies it
  Advertised,  \* figures a server may report in a ping, in half minutes
  Beat,        \* the half minutes between its pings in fact
  Requested,   \* pingInterval: the cadence the client asks for
  MinCeiling,  \* pingMinimumCeiling
  TooLarge     \* the first figure no Duration holds

\* A server pings at least as often as it says it does.
ASSUME ServerPings ==
  /\ {Beat, Requested, MinCeiling, TooLarge} \subseteq Nat \ {0}
  /\ Advertised \subseteq Int /\ \A i \in Advertised : i > 0 => i >= Beat
  /\ Beat < 2 * Requested

NoStop == "none"
Cancelled == "cancelled"
Stops == Classes \cup {NoStop, Cancelled}
\* What classifies a refusal is neither silence about it nor the context's end.
ASSUME ClassesAreFailures == {NoStop, Cancelled} \cap Classes = {}
Transports == {"none", "jmap", "silent"}
Least(a, b) == IF a < b THEN a ELSE b
Most(a, b) == IF a > b THEN a ELSE b

VARIABLES
  transport,  \* what the backend has: no push, jmapsource's, or one that never explains a stop
  cancelled,  \* the context has ended
  behind,     \* the server: kinds with a change the store has not pulled
  conn,       \* jmap: where Listen is
  alive,      \* the network still carries the open connection
  event,      \* a state event is on its way on it
  quiet,      \* jmap: half minutes since its last event
  window,     \* jmap: the stall window
  why,        \* why client.Listen returned
  stop,       \* pushSource.stopped
  stream      \* the Listen call's channels: slot filled, ch closed, opened, stopped

line == <<alive, event, quiet, window>>
net  == <<conn, line, why, stop>>
tvars == <<transport, cancelled, behind, net, stream>>

Fresh == [slot |-> FALSE, shut |-> FALSE, opened |-> FALSE, over |-> FALSE]

TInit ==
  /\ transport \in Transports /\ cancelled = FALSE /\ behind \in SUBSET Kinds
  /\ conn = "idle" /\ alive = FALSE /\ event = FALSE /\ quiet = 0 /\ window = 0
  /\ why = NoStop /\ stop = NoStop /\ stream = Fresh
-----------------------------------------------------------------------------
(* The liveness check. *)

\* The cadence a ping's figure establishes, 0 when it says nothing.
Cadence_Believed(said) == IF said <= 0 \/ said >= TooLarge THEN 0 ELSE said
Cadence(said) ==
  IF said <= 0 \/ said >= TooLarge THEN 0 ELSE Least(said, Most(Requested, MinCeiling))

StallWindow(cadence) == 2 * cadence

\* A connection's read loop starts: the timer is set from what was asked for.
Watch == quiet' = 0 /\ window' = StallWindow(Requested)
-----------------------------------------------------------------------------
(* pushSource's callbacks and channel. *)

\* A send that gives up when the slot is taken.
Notify == stream' = [stream EXCEPT !.slot = TRUE]

\* OnDisconnect, then the wait before the next connection.
Dropped ==
  /\ conn' = "pausing" /\ alive' = FALSE /\ event' = FALSE /\ quiet' = 0 /\ window' = 0

\* client.Listen returns.
Ends(cause) ==
  /\ conn' = "ending" /\ why' = cause
  /\ alive' = FALSE /\ event' = FALSE /\ quiet' = 0 /\ window' = 0

\* Listen starts the goroutine that runs client.Listen.
Start ==
  conn' = "dialing" /\ stream' = Fresh
-----------------------------------------------------------------------------
(* The server and the network. *)

\* A change; whoever holds a connection is sent a state event.
ServerChange(k) ==
  /\ k \notin behind
  /\ behind' = behind \cup {k}
  /\ event' = (event \/ (conn \in {"accepted", "open"} /\ alive))
  /\ UNCHANGED <<transport, cancelled, conn, alive, quiet, window, why, stop, stream>>

WireDies ==
  /\ conn = "open" /\ alive
  /\ alive' = FALSE /\ event' = FALSE
  /\ UNCHANGED <<transport, cancelled, behind, conn, quiet, window, why, stop, stream>>

\* A half minute of silence: a live server would have pinged.
Silence ==
  /\ conn = "open" /\ quiet < window /\ (alive => quiet < Beat)
  /\ quiet' = quiet + 1
  /\ UNCHANGED <<transport, cancelled, behind, conn, alive, event, window, why, stop, stream>>

DialFails ==
  /\ conn = "dialing" /\ Dropped
  /\ UNCHANGED <<transport, cancelled, behind, why, stop, stream>>

\* Refused, or answered by something that is no event stream.
Refused(c) ==
  /\ conn = "dialing" /\ Ends(c)
  /\ UNCHANGED <<transport, cancelled, behind, stop, stream>>

Accepted ==
  /\ conn = "dialing"
  /\ conn' = "accepted" /\ alive' = TRUE
  /\ UNCHANGED <<transport, cancelled, behind, event, quiet, window, why, stop, stream>>

\* OnConnect: every connection is a gap and so a notification of its own.
Connected ==
  /\ conn = "accepted"
  /\ conn' = "open" /\ Watch
  /\ stream' = [stream EXCEPT !.opened = TRUE, !.slot = TRUE]
  /\ UNCHANGED <<transport, cancelled, behind, alive, event, why, stop>>

StateEvent ==
  /\ conn = "open" /\ event
  /\ event' = FALSE /\ quiet' = 0 /\ Notify
  /\ UNCHANGED <<transport, cancelled, behind, conn, alive, window, why, stop>>

PingEvent(said) ==
  /\ conn = "open" /\ alive /\ quiet >= Beat
  /\ quiet' = 0
  /\ window' = IF Cadence(said) > 0 THEN StallWindow(Cadence(said)) ELSE window
  /\ UNCHANGED <<transport, cancelled, behind, conn, alive, event, why, stop, stream>>

\* The connection ends, or carries what cannot be decoded.
Lost ==
  /\ conn = "open" /\ Dropped
  /\ UNCHANGED <<transport, cancelled, behind, why, stop, stream>>

\* The stall timer fires and aborts the connection.
Stall ==
  /\ conn = "open" /\ quiet >= window /\ Dropped
  /\ UNCHANGED <<transport, cancelled, behind, why, stop, stream>>

Redial ==
  /\ conn = "pausing" /\ conn' = "dialing"
  /\ UNCHANGED <<transport, cancelled, behind, line, why, stop, stream>>

ContextSeen ==
  /\ cancelled /\ conn \in {"dialing", "open", "pausing"} /\ Ends(Cancelled)
  /\ UNCHANGED <<transport, cancelled, behind, stop, stream>>

\* The goroutine's last steps: note the stop, close ch, close stopped.
NoteStop ==
  /\ conn = "ending" /\ conn' = "noted" /\ why' = NoStop
  /\ stop' = IF transport = "jmap" \/ ~stream.opened THEN why ELSE stop
  /\ UNCHANGED <<transport, cancelled, behind, line, stream>>

CloseChannel ==
  /\ conn = "noted" /\ conn' = "closed"
  /\ stream' = [stream EXCEPT !.shut = TRUE]
  /\ UNCHANGED <<transport, cancelled, behind, line, why, stop>>

CloseStopped ==
  /\ conn = "closed" /\ conn' = "idle"
  /\ stream' = [stream EXCEPT !.over = TRUE]
  /\ UNCHANGED <<transport, cancelled, behind, line, why, stop>>

Goroutine ==
  \/ DialFails \/ Accepted \/ Connected \/ StateEvent \/ Lost \/ Stall \/ Redial
  \/ ContextSeen \/ NoteStop \/ CloseChannel \/ CloseStopped
  \/ \E c \in Classes : Refused(c)
  \/ \E said \in Advertised : PingEvent(said)

Surroundings == Silence \/ WireDies \/ \E k \in Kinds : ServerChange(k)
-----------------------------------------------------------------------------
TTypeOK ==
  /\ transport \in Transports /\ cancelled \in BOOLEAN /\ behind \subseteq Kinds
  /\ conn \in {"idle", "dialing", "accepted", "open", "pausing", "ending", "noted", "closed"}
  /\ alive \in BOOLEAN /\ event \in BOOLEAN /\ quiet \in Nat /\ window \in Nat
  /\ why \in Stops /\ stop \in Stops
  /\ stream \in [slot : BOOLEAN, shut : BOOLEAN, opened : BOOLEAN, over : BOOLEAN]

(***************************************************************************)
(* The stall window fits the server: a connection that still works is      *)
(* never aborted as silent, and one that went dead is noticed within twice *)
(* the longest cadence a server may impose, whatever it advertises.        *)
(***************************************************************************)
StallWindowFits ==
  conn = "open" => /\ alive => quiet < window
                   /\ window <= 2 * Most(Requested, MinCeiling)
=============================================================================
