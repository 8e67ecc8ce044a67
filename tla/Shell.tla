-------------------------------- MODULE Shell -------------------------------
(***************************************************************************)
(* The terminal shell's root model: one message at a time changes it, and  *)
(* what it asks for (a timer, an answer, a quit) comes back as a message   *)
(* later, in any order.  Keys, clicks, resizes and engine messages arrive  *)
(* at any time.  `inbox' counts the messages under way.                    *)
(*                                                                         *)
(* A definition X_Y is no part of the model: it is X with a plausible slip *)
(* in the code it stands for, kept beside X to show which property notices.*)
(***************************************************************************)
EXTENDS ShellLayout, Sequences

CONSTANTS
  Surface,            \* the surfaces the digits name
  Sizes,              \* the terminal sizes a resize reports
  WheelRow,           \* the rows a wheel tick may happen at
  undoWindowSeconds,  \* seconds an undo offer stays open
  MaxOutbox,          \* bound on the queued count reported
  MaxTimers,          \* bound on the timers started, of all kinds
  MaxSum,             \* bound on the lines one gesture scrolls
  MaxSent             \* bound on equal messages under way

ASSUME ShellInputs ==
  /\ Sizes \subseteq Nat \X Nat /\ WheelRow \subseteq Nat
  /\ undoWindowSeconds \in Nat \ {0}
  /\ {MaxOutbox, MaxTimers} \subseteq Nat /\ {MaxSum, MaxSent} \subseteq Nat \ {0}

VARIABLES
  layout,    \* the current LayoutMode
  theme,     \* "dark" until the terminal says otherwise
  bgAnswered,\* the terminal has answered
  children,  \* the layout and theme the four surface screens were last told
  stack,     \* pushed screens: help with its scroll, or the quit dialog
  active,    \* the surface in front
  banner,    \* a banner is active
  outbox,    \* the queued count last reported
  busy,      \* {"sync", "backfill"} under way as last reported
  spin,      \* the spinner: [ticking, gen]
  toast,     \* [active, undo, remaining, gen], undo: the offer can be undone
  wheel,     \* the wheel gesture: [open, gen, y, sum]
  inbox,     \* how often each message is under way
  done       \* the program has left its loop

vars == <<layout, theme, bgAnswered, children, stack, active, banner, outbox, busy, spin,
          toast, wheel, inbox, done>>
look == <<layout, theme, bgAnswered, children, banner>>
timers == <<spin, toast, wheel>>

toastTick(gen) == [is |-> "toastTick", n |-> gen, at |-> 0]
spinTick(gen)  == [is |-> "spinTick", n |-> gen, at |-> 0]
wheelFlush(gen) == [is |-> "wheelFlush", n |-> gen, at |-> 0]
WheelMsg(y, delta) == [is |-> "WheelMsg", n |-> delta, at |-> y]
Answered(yes) == [is |-> "ConfirmAnswered", n |-> IF yes THEN 1 ELSE 0, at |-> 0]
quitYes == [is |-> "quitYes", n |-> 0, at |-> 0]
QuitMsg == [is |-> "Quit", n |-> 0, at |-> 0]
Message ==
  (UNION {{toastTick(g), spinTick(g), wheelFlush(g)} : g \in 1..MaxTimers})
    \cup {WheelMsg(y, d) : y \in WheelRow, d \in -MaxSum..MaxSum}
    \cup {Answered(TRUE), Answered(FALSE), quitYes, QuitMsg}

Send(m) == inbox' = [inbox EXCEPT ![m] = @ + 1]
Send2(m, k) == inbox' = [inbox EXCEPT ![m] = @ + 1, ![k] = @ + 1]
Room(m) == inbox[m] < MaxSent
\* A message is taken, and perhaps another asked for.
Taken(m) == [inbox EXCEPT ![m] = @ - 1]
Take(m) == ~done /\ inbox[m] > 0 /\ inbox' = Taken(m)
TakeSend(m, k) == ~done /\ inbox[m] > 0 /\ inbox' = [Taken(m) EXCEPT ![k] = @ + 1]
Started == toast.gen + spin.gen + wheel.gen
MayStart == Started < MaxTimers
-----------------------------------------------------------------------------
(* Screens. *)

\* The help overlay's rows: title, blank, "Global" with nine keys, and this
\* screen's section of two, under each other or side by side.
Lines(lm) == IF Class(lm) >= Standard THEN 12 ELSE 15
viewportHeight(lm) == Size(lm.Main)
clampScroll(scroll, lines, viewport) ==
  LET upper == IF lines > viewport THEN lines - viewport ELSE 0
  IN  IF scroll < 0 THEN 0 ELSE IF scroll > upper THEN upper ELSE scroll

Top == stack[Len(stack)]
Front == IF stack # <<>> /\ Top.is = "confirm" THEN "modal" ELSE "digits"
UndoOpen == toast.active /\ toast.undo

\* LayoutMsg and ThemeMsg, as a screen absorbs them.
Absorb(screen, lm, th) ==
  [screen EXCEPT !.layout = lm, !.theme = th, !.scroll = clampScroll(@, Lines(lm), viewportHeight(lm))]
\* Slip: only the surfaces are told.
updateChildren_Surfaces(lm, th) ==
  children' = [layout |-> lm, theme |-> th] /\ UNCHANGED stack
\* Every surface, in front or not, and every pushed screen is told.
updateChildren(lm, th) ==
  /\ children' = [layout |-> lm, theme |-> th]
  /\ stack' = [i \in DOMAIN stack |-> Absorb(stack[i], lm, th)]

push(is) ==
  stack' = Append(stack, Absorb([is |-> is, layout |-> layout, theme |-> theme, scroll |-> 0], layout, theme))
Pop == stack' = IF stack = <<>> THEN <<>> ELSE SubSeq(stack, 1, Len(stack) - 1)
-----------------------------------------------------------------------------
(* Toasts and the banner. *)

\* Newest wins: the toast before it keeps its tick, which is stale from now on.
showToast(undo) ==
  /\ MayStart
  /\ toast' = [active |-> TRUE, undo |-> undo, remaining |-> undoWindowSeconds - 1, gen |-> toast.gen + 1]
  /\ Send(toastTick(toast.gen + 1))

ToastMsg(undo) ==
  /\ ~done /\ showToast(undo)
  /\ UNCHANGED <<look, stack, active, outbox, busy, spin, wheel, done>>

tickToast(g) ==
  /\ IF ~toast.active \/ g # toast.gen THEN Take(toastTick(g)) /\ UNCHANGED toast
     ELSE IF toast.remaining = 0 THEN Take(toastTick(g)) /\ toast' = [toast EXCEPT !.active = FALSE]
     ELSE TakeSend(toastTick(g), toastTick(g)) /\ toast' = [toast EXCEPT !.remaining = @ - 1]
  /\ UNCHANGED <<look, stack, active, outbox, busy, spin, wheel, done>>

BannerMsg ==
  /\ ~done
  /\ \/ /\ HeightClass(layout) # Full /\ showToast(FALSE)
        /\ UNCHANGED <<look, stack>>
     \/ /\ HeightClass(layout) = Full
        /\ banner' = TRUE
        /\ layout' = ComputeLayout(layout.width, layout.height, TRUE)
        /\ updateChildren(layout', theme)
        /\ UNCHANGED <<theme, bgAnswered, toast, inbox>>
  /\ UNCHANGED <<active, outbox, busy, spin, wheel, done>>

\* A banner that loses its row becomes a toast before the layout is computed.
WindowSizeMsg(width, height) ==
  LET demote == banner /\ classifyHeight(height) # Full
  IN /\ ~done
     /\ banner' = (banner /\ ~demote)
     /\ IF demote THEN showToast(FALSE) ELSE UNCHANGED <<toast, inbox>>
     /\ layout' = ComputeLayout(width, height, banner')
     /\ updateChildren(layout', theme)
     /\ UNCHANGED <<theme, bgAnswered, active, outbox, busy, spin, wheel, done>>

BackgroundColorMsg(answer) ==
  /\ ~done /\ ~bgAnswered /\ bgAnswered' = TRUE
  /\ theme' = answer
  /\ updateChildren(layout, answer)
  /\ UNCHANGED <<layout, banner, active, outbox, busy, timers, inbox, done>>
-----------------------------------------------------------------------------
(* The status line. *)

\* A chain of ticks starts on the edge into activity only.
\* Slip: a run that starts again takes the number of the one before.
reconcileSpinner_SameGen(now) ==
  IF (now # {}) = spin.ticking THEN UNCHANGED <<spin, inbox>>
  ELSE IF now = {} THEN spin' = [spin EXCEPT !.ticking = FALSE] /\ UNCHANGED inbox
  ELSE LET g == IF spin.gen = 0 THEN 1 ELSE spin.gen
       IN  MayStart /\ Room(spinTick(g)) /\ spin' = [ticking |-> TRUE, gen |-> g] /\ Send(spinTick(g))
reconcileSpinner(now) ==
  IF (now # {}) = spin.ticking THEN UNCHANGED <<spin, inbox>>
  ELSE IF now = {} THEN spin' = [spin EXCEPT !.ticking = FALSE] /\ UNCHANGED inbox
  ELSE MayStart /\ spin' = [ticking |-> TRUE, gen |-> spin.gen + 1] /\ Send(spinTick(spin.gen + 1))

\* SyncStateMsg and BackfillProgressMsg.
Progress(of, on) ==
  /\ ~done
  /\ busy' = IF on THEN busy \cup {of} ELSE busy \ {of}
  /\ reconcileSpinner(busy')
  /\ UNCHANGED <<look, stack, active, outbox, toast, wheel, done>>

tickSpinner(g) ==
  /\ IF spin.ticking /\ g = spin.gen THEN TakeSend(spinTick(g), spinTick(g)) ELSE Take(spinTick(g))
  /\ UNCHANGED <<look, stack, active, outbox, busy, timers, done>>

OutboxCountMsg(n) ==
  /\ ~done /\ outbox' = n
  /\ UNCHANGED <<look, stack, active, busy, timers, inbox, done>>
-----------------------------------------------------------------------------
(* Keys and clicks. *)

ScrollKey == {"j", "k", "space", "b", "home", "end"}
Key == {"esc", "?", "u", "q", "y", "n"} \cup ScrollKey \cup Surface

\* Esc dismisses a showing banner first; a dialog takes its own.
Back ==
  /\ Front # "modal"
  /\ IF banner
     THEN /\ banner' = FALSE
          /\ layout' = ComputeLayout(layout.width, layout.height, FALSE)
          /\ updateChildren(layout', theme)
     ELSE Pop /\ UNCHANGED <<layout, children, banner>>
  /\ UNCHANGED <<theme, bgAnswered, active, timers, inbox>>

Help ==
  /\ Front = "digits"
  /\ IF stack # <<>> /\ Top.is = "help" THEN Pop ELSE push("help")
  /\ UNCHANGED <<look, active, timers, inbox>>

\* undoEligible: at a root, in an open window.  The offer's command runs.
Undo ==
  /\ stack = <<>> /\ UndoOpen
  /\ toast' = [toast EXCEPT !.active = FALSE]
  /\ UNCHANGED <<look, stack, active, spin, wheel, inbox>>

\* A digit leaves help as it switches.
SwitchTo(surface) ==
  /\ Front = "digits"
  /\ active' = surface /\ Pop
  /\ UNCHANGED <<look, timers, inbox>>

\* q asks first when rows are queued or an undo would be lost.
handleQuit ==
  /\ stack = <<>>
  /\ IF outbox = 0 /\ ~UndoOpen
     THEN Room(QuitMsg) /\ Send(QuitMsg) /\ UNCHANGED stack
     ELSE push("confirm") /\ UNCHANGED inbox
  /\ UNCHANGED <<look, active, timers>>

\* The dialog's answer is a message; the dialog stays until it comes.
answer(k) ==
  /\ Front = "modal" /\ Room(Answered(k = "y"))
  /\ Send(Answered(k = "y"))
  /\ UNCHANGED <<look, stack, active, timers>>

applyKey(screen, k) ==
  LET page == viewportHeight(screen.layout)
      lines == Lines(screen.layout)
  IN  CASE k = "j" -> screen.scroll + 1
        [] k = "k" -> screen.scroll - 1
        [] k = "space" -> screen.scroll + page
        [] k = "b" -> screen.scroll - page
        [] k = "home" -> 0
        [] k = "end" -> lines
ScrolledTo(screen, to) ==
  [screen EXCEPT !.scroll = clampScroll(to, Lines(screen.layout), viewportHeight(screen.layout))]
ScrollHelp(k) ==
  /\ stack # <<>> /\ Top.is = "help"
  /\ stack' = [stack EXCEPT ![Len(stack)] = ScrolledTo(@, applyKey(@, k))]
  /\ UNCHANGED <<look, active, timers, inbox>>

\* A key no line names changes nothing.
handleKey(k) ==
  /\ ~done
  /\ \/ k = "esc" /\ Back
     \/ k = "?" /\ Help
     \/ k = "u" /\ Undo
     \/ k \in Surface /\ SwitchTo(k)
     \/ k = "q" /\ handleQuit
     \/ k \in {"y", "n", "esc"} /\ answer(k)
     \/ k \in ScrollKey /\ ScrollHelp(k)
  /\ UNCHANGED <<outbox, busy, done>>

\* The keys a click can stand for: what is painted, each in its own cells.  The
\* footer's hints fit at every width that paints one.
Painted ==
  IF ChromeFree(layout) THEN {}
  ELSE IF Front = "modal" THEN {"y", "n"}
  ELSE Surface \cup {"?"} \cup (IF stack = <<>> THEN {"q"} ELSE {"j", "space", "esc"})
               \cup (IF layout.BannerRow THEN {"esc"} ELSE {})
dispatchClick(k) == k \in Painted /\ handleKey(k)
-----------------------------------------------------------------------------
(* The wheel. *)

Sign(n) == IF n < 0 THEN -1 ELSE 1
openWheelGesture(y, delta) == [open |-> TRUE, gen |-> wheel.gen + 1, y |-> y, sum |-> delta]

\* A gesture gathers ticks of one direction; a tick the other way sends it off
\* and opens the next.
handleWheel(y, delta) ==
  /\ ~done
  /\ IF wheel.open /\ Sign(delta) = Sign(wheel.sum)
     THEN /\ wheel.sum + delta \in -MaxSum..MaxSum
          /\ wheel' = [wheel EXCEPT !.sum = @ + delta] /\ UNCHANGED inbox
     ELSE /\ MayStart /\ wheel' = openWheelGesture(y, delta)
          /\ IF wheel.open
             THEN /\ Room(WheelMsg(wheel.y, wheel.sum))
                  /\ Send2(wheelFlush(wheel'.gen), WheelMsg(wheel.y, wheel.sum))
             ELSE Send(wheelFlush(wheel'.gen))
  /\ UNCHANGED <<look, stack, active, outbox, busy, spin, toast, done>>

flushWheelTimer(g) ==
  /\ IF wheel.open /\ g = wheel.gen
     THEN /\ Room(WheelMsg(wheel.y, wheel.sum))
          /\ TakeSend(wheelFlush(g), WheelMsg(wheel.y, wheel.sum))
          /\ wheel' = [open |-> FALSE, gen |-> wheel.gen, y |-> 0, sum |-> 0]
     ELSE Take(wheelFlush(g)) /\ UNCHANGED wheel
  /\ UNCHANGED <<look, stack, active, outbox, busy, spin, toast, done>>

\* Only help takes the wheel, and only over the main band of the moment.
dispatchWheel(y, delta) ==
  /\ Take(WheelMsg(y, delta))
  /\ IF stack # <<>> /\ Top.is = "help" /\ layout.Main.from <= y /\ y < layout.Main.to
     THEN stack' = [stack EXCEPT ![Len(stack)] = ScrolledTo(@, @.scroll + delta)]
     ELSE UNCHANGED stack
  /\ UNCHANGED <<look, active, outbox, busy, timers, done>>
-----------------------------------------------------------------------------
(* Leaving. *)

\* Whatever is on top goes, and the answer's command runs.
ConfirmAnsweredMsg(yes) ==
  /\ IF yes THEN Room(quitYes) /\ TakeSend(Answered(yes), quitYes) ELSE Take(Answered(yes))
  /\ Pop
  /\ UNCHANGED <<look, active, outbox, busy, timers, done>>

quitYesMsg ==
  /\ Room(QuitMsg) /\ TakeSend(quitYes, QuitMsg)
  /\ toast' = [toast EXCEPT !.active = FALSE]
  /\ UNCHANGED <<look, stack, active, outbox, busy, spin, wheel, done>>

\* bubbletea ends its loop; what is still under way goes nowhere.
Leave ==
  /\ Take(QuitMsg) /\ done' = TRUE
  /\ UNCHANGED <<look, stack, active, outbox, busy, timers>>
-----------------------------------------------------------------------------
Init ==
  /\ layout = ComputeLayout(0, 0, FALSE) /\ theme = "dark" /\ bgAnswered = FALSE
  /\ children = [layout |-> layout, theme |-> theme]
  /\ stack = <<>> /\ active = "1"
  /\ banner = FALSE /\ outbox = 0 /\ busy = {}
  /\ spin = [ticking |-> FALSE, gen |-> 0]
  /\ toast = [active |-> FALSE, undo |-> FALSE, remaining |-> 0, gen |-> 0]
  /\ wheel = [open |-> FALSE, gen |-> 0, y |-> 0, sum |-> 0]
  /\ inbox = [m \in Message |-> 0] /\ done = FALSE

Arrives ==
  \/ \E s \in Sizes : WindowSizeMsg(s[1], s[2])
  \/ \E th \in {"dark", "light"} : BackgroundColorMsg(th)
  \/ \E k \in Key : handleKey(k) \/ dispatchClick(k)
  \/ \E y \in WheelRow : \E d \in {-1, 1} : handleWheel(y, d)
  \/ \E of \in {"sync", "backfill"}, on \in BOOLEAN : Progress(of, on)
  \/ \E n \in 0..MaxOutbox : OutboxCountMsg(n)
  \/ \E undo \in BOOLEAN : ToastMsg(undo)
  \/ BannerMsg

Comes ==
  \/ \E g \in 1..MaxTimers : tickToast(g) \/ tickSpinner(g) \/ flushWheelTimer(g)
  \/ \E y \in WheelRow, d \in -MaxSum..MaxSum : dispatchWheel(y, d)
  \/ \E yes \in BOOLEAN : ConfirmAnsweredMsg(yes)
  \/ quitYesMsg
  \/ Leave

Next == Arrives \/ Comes
Spec == Init /\ [][Next]_vars
-----------------------------------------------------------------------------
(* Properties. *)

\* At most one screen is pushed: a dialog never covers help nor help a dialog.
OneScreenUp == Len(stack) <= 1

\* A banner is kept at full height only, and has its row whenever the terminal
\* is wide enough to paint one, whichever of a resize, an Esc and the engine's
\* message came last; and every screen, out of sight or
\* pushed, was told of the layout and theme in force and scrolls within them.
ScreensFit ==
  /\ OneScreenUp
  /\ banner => HeightClass(layout) = Full
  /\ layout.BannerRow = (banner /\ ~ChromeFree(layout))
  /\ children = [layout |-> layout, theme |-> theme]
  /\ \A i \in DOMAIN stack :
       /\ stack[i].layout = layout /\ stack[i].theme = theme
       /\ stack[i].scroll = clampScroll(stack[i].scroll, Lines(layout), viewportHeight(layout))

\* An open toast, a turning spinner and an open gesture each have exactly one
\* timer under way that will move them: none stalls, none runs double.
TimersLive ==
  /\ toast.active => inbox[toastTick(toast.gen)] = 1
  /\ spin.ticking => inbox[spinTick(spin.gen)] = 1
  /\ wheel.open => inbox[wheelFlush(wheel.gen)] = 1

\* "So quitting never discards either in silence" (handleQuit).  No run lists it:
\* it does not hold of an offer that comes in after q, or after a yes, has sent
\* for the end and before the end comes; the README has the steps.
DiscardIsTold == done => ~UndoOpen
=============================================================================
