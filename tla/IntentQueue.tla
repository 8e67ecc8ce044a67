---------------------------- MODULE IntentQueue ----------------------------
(***************************************************************************)
(* What internal/outbox promises of an intent, without rows, passes or     *)
(* transactions: it is enqueued once; while it waits it can be undone;     *)
(* once claimed it cannot; the server makes its effect only while it is    *)
(* claimed; and from there it is delivered, given up, or waits again.      *)
(***************************************************************************)
EXTENDS Naturals, Sequences

VARIABLES
  life,   \* the intents in the order they were enqueued, and where each is
  effect  \* those whose whole effect the server has made

vars == <<life, effect>>

States == {"queued", "dispatching", "delivered", "failed", "undone"}
In(state) == {u \in DOMAIN life : life[u] = state}

\* Some intents go from one state to another, the rest stay.
Change(S, from, to) ==
  /\ S # {} /\ S \subseteq In(from)
  /\ life' = [u \in DOMAIN life |-> IF u \in S THEN to ELSE life[u]]

Init == life = <<>> /\ effect = {}

Enqueue == life' = Append(life, "queued") /\ UNCHANGED effect
Undo    == (\E S \in SUBSET In("queued") : Change(S, "queued", "undone")) /\ UNCHANGED effect
Claim   == (\E S \in SUBSET In("queued") : Change(S, "queued", "dispatching")) /\ UNCHANGED effect
Act     == effect' \in {effect \cup S : S \in SUBSET In("dispatching")} /\ UNCHANGED life

\* A pass, a recovery or a startup sweep settles claimed intents.
Settle ==
  /\ life' \in [DOMAIN life -> States]
  /\ \A u \in DOMAIN life :
       \/ life'[u] = life[u]
       \/ life[u] = "dispatching" /\ life'[u] \in {"queued", "failed"}
       \/ life[u] = "dispatching" /\ life'[u] = "delivered" /\ u \in effect
  /\ UNCHANGED effect

Next == Enqueue \/ Undo \/ Claim \/ Act \/ Settle
Spec == Init /\ [][Next]_vars
=============================================================================
