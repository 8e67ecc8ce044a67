---------------------------- MODULE ShellProofs -----------------------------
(***************************************************************************)
(* Theorems about ShellLayout, at every terminal size, and Shell, for any  *)
(* surfaces and bounds: panes and bands fit, every screen knows the layout *)
(* in force and each timer runs once.                                      *)
(***************************************************************************)
EXTENDS Shell, TLAPS

-----------------------------------------------------------------------------
(* Layout. *)

\* dropPanes never drops: wherever a class of width wants a pane, all the panes it
\* wants fit, so the drop order of layout.go decides nothing at any width.
THEOREM NothingIsDropped ==
  ASSUME NEW width \in Nat
  PROVE  Kept(width) = Wanted(classifyWidth(width))
<1> DEFINE class == classifyWidth(width)
<1>1. CASE width < widthStandardMin
  <2>1. class \in {Floor, Spartan}
    BY <1>1 DEF classifyWidth, Floor, Spartan, widthSpartanMin, widthStandardMin, widthWideMin
  <2>2. Wanted(class) = {"content"}
    BY <2>1 DEF Wanted, Floor, Spartan, Standard, Wide
  <2> HIDE DEF class
  <2>3. Wanted(class) \ {"split"} = Wanted(class) /\ Wanted(class) \ {"split", "sidebar"} = Wanted(class)
    BY <2>2
  <2> QED  BY <2>3 DEF Kept, dropPanes, class
<1>2. CASE width >= widthStandardMin /\ width < widthWideMin
  <2>1. class = Standard
    BY <1>2 DEF classifyWidth, Floor, Spartan, Standard, widthSpartanMin, widthStandardMin, widthWideMin
  <2>2. Wanted(class) = {"content", "sidebar"}
    BY <2>1 DEF Wanted, Standard, Wide
  <2>3. sumMin(Wanted(class), class) = 55
    BY <2>1, <2>2 DEF sumMin, MinIn, MinOf, Standard, Wide, paneX, railWidth, GapPane
  <2> QED  BY <1>2, <2>3 DEF Kept, dropPanes, widthStandardMin
<1>3. CASE width >= widthWideMin
  <2>1. class = Wide
    BY <1>3 DEF classifyWidth, Floor, Spartan, Standard, Wide, widthSpartanMin, widthStandardMin, widthWideMin
  <2>2. Wanted(class) = {"content", "sidebar", "split"}
    BY <2>1 DEF Wanted, Standard, Wide
  <2>3. sumMin(Wanted(class), class) = 129
    BY <2>1, <2>2 DEF sumMin, MinIn, MinOf, Standard, Wide, paneX, railWidth, GapPane, listWidth
  <2> QED  BY <1>3, <2>3 DEF Kept, dropPanes, widthWideMin
<1> QED  BY <1>1, <1>2, <1>3 DEF widthStandardMin, widthWideMin

\* ComputeLayout's panes: the sidebar, the content and the reader card lie in the
\* terminal from left to right without touching, each at least as wide as its
\* minimum, wherever chrome is painted.
THEOREM PanesFit ==
  ASSUME NEW width \in Nat, width >= widthSpartanMin
  PROVE  /\ Size(SidebarSpan(width)) \in {0, railWidth}
         /\ SidebarSpan(width).to <= ContentSpan(width).from
         /\ Size(ContentSpan(width)) >= MinOf("content", classifyWidth(width))
         /\ ContentSpan(width).to <= width
         /\ "split" \in Kept(width) =>
              /\ ContentSpan(width).to + GapPane <= SplitSpan(width).from
              /\ SplitSpan(width).to + GapPane <= width
              /\ Size(SplitSpan(width)) \in 40..readerCardCap
<1> USE DEF railWidth, paneX, GapPane, listWidth, PadCard, readerCardCap
<1>1. CASE width < widthStandardMin
  <2>1. classifyWidth(width) = Spartan
    BY <1>1 DEF classifyWidth, Floor, Spartan, widthSpartanMin, widthStandardMin, widthWideMin
  <2>2. Kept(width) = {"content"}
    BY <2>1, NothingIsDropped DEF Wanted, Spartan, Standard, Wide
  <2> QED  BY <2>1, <2>2 DEF SidebarSpan, ContentSpan, ContentFrom, Size, Span, NoSpan, MinOf, Spartan, Wide, widthSpartanMin
<1>2. CASE width >= widthStandardMin /\ width < widthWideMin
  <2>1. classifyWidth(width) = Standard
    BY <1>2 DEF classifyWidth, Floor, Spartan, Standard, widthSpartanMin, widthStandardMin, widthWideMin
  <2>2. Kept(width) = {"content", "sidebar"}
    BY <2>1, NothingIsDropped DEF Wanted, Standard, Wide
  <2> QED  BY <1>2, <2>1, <2>2 DEF SidebarSpan, ContentSpan, ContentFrom, Size, Span, NoSpan, MinOf, Standard, Wide, widthStandardMin
<1>3. CASE width >= widthWideMin
  <2>1. classifyWidth(width) = Wide
    BY <1>3 DEF classifyWidth, Floor, Spartan, Standard, Wide, widthSpartanMin, widthStandardMin, widthWideMin
  <2>2. Kept(width) = {"content", "sidebar", "split"}
    BY <2>1, NothingIsDropped DEF Wanted, Standard, Wide
  <2>3. SidebarSpan(width) = Span(0, 22) /\ ContentSpan(width) = Span(25, 87)
    BY <2>2 DEF SidebarSpan, ContentSpan, ContentFrom
  <2>4. SplitSpan(width) = readerCard(89, width)
    BY <2>2 DEF SplitSpan, ContentFrom
  <2> DEFINE avail == width - 89 - 2
             room  == IF avail <= 104 THEN avail ELSE 104
             left  == 89 + (avail - room) \div 2
  <2>5. SplitSpan(width) = Span(left, left + room)
    BY <2>4 DEF readerCard
  <2>6. avail \in Int /\ avail >= 49 /\ room \in 40..104 /\ room <= avail
    BY <1>3 DEF widthWideMin
  <2>7. left \in Int /\ left >= 89 /\ left + room <= 89 + avail
    <3> DEFINE spare == avail - room
    <3>1. spare \in Nat  BY <2>6
    <3> HIDE DEF spare
    <3>2. spare \div 2 \in Nat /\ spare \div 2 <= spare  BY <3>1
    <3> QED  BY <2>6, <3>1, <3>2 DEF spare
  <2> HIDE DEF left, room
  <2>8. SplitSpan(width).from = left /\ SplitSpan(width).to = left + room
    BY <2>5 DEF Span
  <2>9. /\ SidebarSpan(width).from = 0 /\ SidebarSpan(width).to = 22
        /\ ContentSpan(width).from = 25 /\ ContentSpan(width).to = 87
    BY <2>3 DEF Span
  <2>10. MinOf("content", classifyWidth(width)) = 62
    BY <2>1 DEF MinOf, Wide
  <2> QED  BY <1>3, <2>6, <2>7, <2>8, <2>9, <2>10 DEF Size, widthWideMin
<1> QED  BY <1>1, <1>2, <1>3 DEF widthStandardMin, widthWideMin

\* ComputeLayout's bands cover the terminal's rows from top to bottom with no gap
\* and no overlap, the floor's one band included, and chrome leaves the screens
\* thirteen rows at least.
THEOREM BandsTile ==
  ASSUME NEW width \in Nat, NEW height \in Nat, NEW wants \in BOOLEAN
  PROVE  LET lm == ComputeLayout(width, height, wants)
         IN  IF ChromeFree(lm)
             THEN lm.Main = Span(0, height) /\ ~lm.BannerRow
             ELSE /\ lm.StatusRow.from = 0
                  /\ lm.StatusRow.to = (IF lm.BannerRow THEN lm.Banner.from ELSE lm.Main.from)
                  /\ lm.BannerRow => wants /\ lm.Banner.to = lm.Main.from
                  /\ Size(lm.Main) >= 13
                  /\ lm.Main.to = lm.Footer.from /\ lm.Footer.to = height
<1> DEFINE lm == ComputeLayout(width, height, wants)
<1>1. /\ lm.width = width /\ lm.height = height
      /\ lm.BannerRow = (~AtFloor(width, height) /\ wants /\ classifyHeight(height) = Full)
  BY DEF ComputeLayout
<1>2. CASE AtFloor(width, height)
  BY <1>2 DEF ComputeLayout, ChromeFree
<1>3. CASE ~AtFloor(width, height)
  <2>1. height >= 15
    BY <1>3 DEF AtFloor, classifyHeight, Floor, heightShortMin
  <2>2. lm.BannerRow => height >= 20
    <3>1. classifyHeight(height) = Full => height >= 20
      BY DEF classifyHeight, Floor, Short, Full, heightShortMin, heightFullMin
    <3> HIDE DEF lm
    <3> QED  BY <1>1, <3>1
  <2>3. /\ lm.StatusRow = Span(0, 1) /\ lm.Footer = Span(height - 1, height)
        /\ lm.Main = Span(IF lm.BannerRow THEN 2 ELSE 1, height - 1)
        /\ lm.Banner = (IF lm.BannerRow THEN Span(1, 2) ELSE NoSpan)
    BY <1>3 DEF ComputeLayout
  <2>4. ~ChromeFree(lm)
    BY <1>1, <1>3 DEF ChromeFree
  <2>5. lm.BannerRow => wants
    BY <1>1
  <2>6. lm.BannerRow \in BOOLEAN
    BY <1>1
  <2> HIDE DEF lm
  <2> QED  BY <2>1, <2>2, <2>3, <2>4, <2>5, <2>6 DEF Span, Size, lm
<1> QED  BY <1>2, <1>3
-----------------------------------------------------------------------------
(* Screens. *)

Laid(lm, wants) == \E w, h \in Nat : lm = ComputeLayout(w, h, wants)
InPlace(lm) == {n \in Int : clampScroll(n, Lines(lm), viewportHeight(lm)) = n}
Shown(is, lm, th, n) == [is |-> is, layout |-> lm, theme |-> th, scroll |-> n]
Pushed(lm, th) == {<<>>} \cup {<<Shown(is, lm, th, n)>> : is \in {"help", "confirm"}, n \in InPlace(lm)}

\* One screen at most is pushed, and it and the surfaces know what is in force.
Fitting ==
  /\ banner \in BOOLEAN /\ Laid(layout, banner)
  /\ banner => HeightClass(layout) = Full
  /\ children = [layout |-> layout, theme |-> theme]
  /\ stack \in Pushed(layout, theme)

LEMMA LaidAgain ==
  ASSUME NEW lm, NEW wants, Laid(lm, wants)
  PROVE  /\ lm.width \in Nat /\ lm.height \in Nat
         /\ lm = ComputeLayout(lm.width, lm.height, wants)
         /\ lm.BannerRow = (wants /\ HeightClass(lm) = Full /\ ~ChromeFree(lm))
         /\ viewportHeight(lm) \in Int /\ Lines(lm) \in Int
<1>1. PICK w \in Nat, h \in Nat : lm = ComputeLayout(w, h, wants)
  BY DEF Laid
<1>2. lm.width = w /\ lm.height = h
  BY <1>1 DEF ComputeLayout
<1>3. lm.BannerRow = (~AtFloor(w, h) /\ wants /\ classifyHeight(h) = Full)
  BY <1>1, Zenon DEF ComputeLayout
<1>4. lm.BannerRow = (wants /\ HeightClass(lm) = Full /\ ~ChromeFree(lm))
  BY <1>2, <1>3, Zenon DEF HeightClass, ChromeFree
<1>5. viewportHeight(lm) \in Int
  BY <1>1 DEF viewportHeight, Size, ComputeLayout, Span
<1>6. Lines(lm) \in Int
  BY DEF Lines
<1> QED BY <1>1, <1>2, <1>4, <1>5, <1>6

LEMMA ClampHolds ==
  ASSUME NEW lm, NEW wants, Laid(lm, wants), NEW n \in Int
  PROVE  clampScroll(n, Lines(lm), viewportHeight(lm)) \in InPlace(lm)
<1>1. viewportHeight(lm) \in Int /\ Lines(lm) \in Int
  BY LaidAgain
<1> QED BY <1>1 DEF InPlace, clampScroll

LEMMA Absorbed ==
  ASSUME NEW is, NEW from, NEW was, NEW n, NEW lm, NEW th
  PROVE  Absorb(Shown(is, from, was, n), lm, th)
           = Shown(is, lm, th, clampScroll(n, Lines(lm), viewportHeight(lm)))
<1> DEFINE s == Shown(is, from, was, n)
           m == clampScroll(n, Lines(lm), viewportHeight(lm))
<1>1. s.scroll = n
  BY DEF Shown
<1> HIDE DEF m
<1>2. [s EXCEPT !.layout = lm, !.theme = th, !.scroll = m] = Shown(is, lm, th, m)
  <2>1. [Shown(is, from, was, n) EXCEPT !.layout = lm] = Shown(is, lm, was, n)
    BY DEF Shown
  <2>2. [Shown(is, lm, was, n) EXCEPT !.theme = th] = Shown(is, lm, th, n)
    BY DEF Shown
  <2>3. [Shown(is, lm, th, n) EXCEPT !.scroll = m] = Shown(is, lm, th, m)
    BY DEF Shown
  <2>4. [s EXCEPT !.layout = lm, !.theme = th, !.scroll = m]
          = [[[s EXCEPT !.layout = lm] EXCEPT !.theme = th] EXCEPT !.scroll = m]
    OBVIOUS
  <2> QED BY <2>1, <2>2, <2>3, <2>4
<1>3. Absorb(s, lm, th) = [s EXCEPT !.layout = lm, !.theme = th, !.scroll = m]
  BY <1>1 DEF Absorb, m
<1> QED BY <1>2, <1>3 DEF m

\* LayoutMsg and ThemeMsg leave a pushed screen fitting.
LEMMA ChildrenUpdated ==
  ASSUME Fitting, NEW lm, NEW wants, Laid(lm, wants), NEW th, updateChildren(lm, th)
  PROVE  children' = [layout |-> lm, theme |-> th] /\ stack' \in Pushed(lm, th)
<1>1. children' = [layout |-> lm, theme |-> th] /\ stack' = [i \in DOMAIN stack |-> Absorb(stack[i], lm, th)]
  BY DEF updateChildren
<1>2. CASE stack = <<>>
  BY <1>1, <1>2 DEF Pushed
<1>3. CASE stack # <<>>
  <2>1. PICK is \in {"help", "confirm"}, n \in InPlace(layout) : stack = <<Shown(is, layout, theme, n)>>
    BY <1>3 DEF Fitting, Pushed
  <2> DEFINE m == clampScroll(n, Lines(lm), viewportHeight(lm))
  <2>2. n \in Int
    BY DEF InPlace
  <2>3. m \in InPlace(lm)
    BY <2>2, ClampHolds
  <2>4. Absorb(Shown(is, layout, theme, n), lm, th) = Shown(is, lm, th, m)
    BY Absorbed
  <2>5. stack' = <<Shown(is, lm, th, m)>>
    BY <1>1, <2>1, <2>4
  <2> QED BY <1>1, <2>3, <2>5 DEF Pushed
<1> QED BY <1>2, <1>3

LEMMA ScreenPushed ==
  ASSUME Fitting, stack = <<>>, NEW is \in {"help", "confirm"}, push(is)
  PROVE  stack' \in Pushed(layout, theme)
<1> DEFINE m == clampScroll(0, Lines(layout), viewportHeight(layout))
<1>1. m \in InPlace(layout)
  BY ClampHolds DEF Fitting
<1>2. Absorb([is |-> is, layout |-> layout, theme |-> theme, scroll |-> 0], layout, theme) = Shown(is, layout, theme, m)
  BY Absorbed DEF Shown
<1>3. stack' = <<Shown(is, layout, theme, m)>>
  BY <1>2 DEF push
<1> QED BY <1>1, <1>3 DEF Pushed

LEMMA ScreenPopped ==
  ASSUME Fitting, Pop
  PROVE  stack' = <<>> /\ stack' \in Pushed(layout, theme)
<1>1. stack = <<>> \/ Len(stack) = 1
  BY DEF Fitting, Pushed
<1>2. stack' = <<>>
  BY <1>1 DEF Pop, Fitting, Pushed
<1> QED BY <1>2 DEF Pushed

LEMMA ScreenScrolled ==
  ASSUME Fitting, stack # <<>>, NEW to \in Int, stack' = [stack EXCEPT ![Len(stack)] = ScrolledTo(@, to)]
  PROVE  stack' \in Pushed(layout, theme)
<1>1. PICK is \in {"help", "confirm"}, n \in InPlace(layout) : stack = <<Shown(is, layout, theme, n)>>
  BY DEF Fitting, Pushed
<1> DEFINE m == clampScroll(to, Lines(layout), viewportHeight(layout))
<1>2. m \in InPlace(layout)
  BY ClampHolds DEF Fitting
<1>3. ScrolledTo(Shown(is, layout, theme, n), to) = Shown(is, layout, theme, m)
  BY DEF ScrolledTo, Shown
<1>4. stack' = <<Shown(is, layout, theme, m)>>
  BY <1>1, <1>3
<1> QED BY <1>2, <1>4 DEF Pushed

\* What a key or a wheel tick asks of the screen on top is a line.
LEMMA TopScroll ==
  ASSUME Fitting, stack # <<>>
  PROVE  Top.scroll \in Int /\ \A k \in ScrollKey : applyKey(Top, k) \in Int
<1>1. PICK is \in {"help", "confirm"}, n \in InPlace(layout) : stack = <<Shown(is, layout, theme, n)>>
  BY DEF Fitting, Pushed
<1>2. Top = Shown(is, layout, theme, n) /\ n \in Int
  BY <1>1 DEF Top, InPlace
<1>3. Top.scroll \in Int /\ Top.layout = layout
  BY <1>2 DEF Shown
<1>4. viewportHeight(layout) \in Int /\ Lines(layout) \in Int
  BY LaidAgain DEF Fitting
<1> QED BY <1>3, <1>4 DEF applyKey, ScrollKey
\* What handles a key changes no more of a screen than the screen allows.
LEMMA KeyFits ==
  ASSUME Fitting, NEW k, handleKey(k)
  PROVE  Fitting'
<1> USE DEF look, timers
<1>1. CASE Back
  <2>1. CASE banner
    <3>1. banner' = FALSE /\ layout' = ComputeLayout(layout.width, layout.height, FALSE)
          /\ updateChildren(layout', theme) /\ theme' = theme
      BY <1>1, <2>1 DEF Back
    <3>2. Laid(layout', FALSE)
      BY <3>1, LaidAgain DEF Fitting, Laid
    <3>3. children' = [layout |-> layout', theme |-> theme] /\ stack' \in Pushed(layout', theme)
      BY <3>1, <3>2, ChildrenUpdated
    <3> QED BY <3>1, <3>2, <3>3 DEF Fitting
  <2>2. CASE ~banner
    BY <1>1, <2>2, ScreenPopped DEF Back, Fitting
  <2> QED BY <2>1, <2>2
<1>2. CASE Help
  <2>1. stack' \in Pushed(layout, theme)
    <3>1. CASE stack # <<>> /\ Top.is = "help"
      BY <1>2, <3>1, ScreenPopped DEF Help
    <3>2. CASE ~(stack # <<>> /\ Top.is = "help")
      <4>1. stack = <<>>
        BY <1>2, <3>2 DEF Help, Front, Fitting, Pushed, Shown, Top
      <4> QED BY <1>2, <3>2, <4>1, ScreenPushed DEF Help
    <3> QED BY <3>1, <3>2
  <2> QED BY <1>2, <2>1 DEF Help, Fitting
<1>3. CASE Undo
  BY <1>3 DEF Undo, Fitting
<1>4. CASE k \in Surface /\ SwitchTo(k)
  BY <1>4, ScreenPopped DEF SwitchTo, Fitting
<1>5. CASE handleQuit
  <2>1. stack' \in Pushed(layout, theme)
    BY <1>5, ScreenPushed DEF handleQuit, Fitting
  <2> QED BY <1>5, <2>1 DEF handleQuit, Fitting
<1>6. CASE answer(k)
  BY <1>6 DEF answer, Fitting
<1>7. CASE k \in ScrollKey /\ ScrollHelp(k)
  <2>1. stack # <<>> /\ UNCHANGED look
    BY <1>7 DEF ScrollHelp
  <2>2. stack' = [stack EXCEPT ![Len(stack)] = ScrolledTo(@, applyKey(Top, k))]
    BY <1>7 DEF ScrollHelp, Top
  <2>3. stack' \in Pushed(layout, theme)
    BY <1>7, <2>1, <2>2, TopScroll, ScreenScrolled
  <2> QED BY <2>1, <2>3 DEF Fitting
<1> QED BY <1>1, <1>2, <1>3, <1>4, <1>5, <1>6, <1>7 DEF handleKey

LEMMA ArrivesFits ==
  ASSUME Fitting, Arrives
  PROVE  Fitting'
<1> USE DEF look, timers
<1>1. CASE \E s \in Sizes : WindowSizeMsg(s[1], s[2])
  <2>1. PICK s \in Sizes : WindowSizeMsg(s[1], s[2])
    BY <1>1
  <2>2. s[1] \in Nat /\ s[2] \in Nat
    BY ShellInputs
  <2> DEFINE demote == banner /\ classifyHeight(s[2]) # Full
  <2>3. /\ banner' = (banner /\ ~demote) /\ layout' = ComputeLayout(s[1], s[2], banner')
        /\ updateChildren(layout', theme) /\ theme' = theme
    BY <2>1 DEF WindowSizeMsg
  <2>4. Laid(layout', banner')
    BY <2>2, <2>3 DEF Laid
  <2>5. children' = [layout |-> layout', theme |-> theme'] /\ stack' \in Pushed(layout', theme')
    BY <2>3, <2>4, ChildrenUpdated
  <2>6. layout'.height = s[2]
    BY <2>3 DEF ComputeLayout
  <2>7. banner' \in BOOLEAN
    BY <2>3
  <2>8. banner' => classifyHeight(layout'.height) = Full
    BY <2>3, <2>6, Zenon
  <2> QED BY <2>4, <2>5, <2>7, <2>8 DEF Fitting, HeightClass
<1>2. CASE \E th \in {"dark", "light"} : BackgroundColorMsg(th)
  <2>1. PICK th \in {"dark", "light"} : BackgroundColorMsg(th)
    BY <1>2
  <2>2. theme' = th /\ updateChildren(layout, th) /\ UNCHANGED <<layout, banner>>
    BY <2>1 DEF BackgroundColorMsg
  <2>3. children' = [layout |-> layout, theme |-> th] /\ stack' \in Pushed(layout, th)
    BY <2>2, ChildrenUpdated DEF Fitting
  <2> QED BY <2>2, <2>3 DEF Fitting
<1>3. CASE \E k \in Key : handleKey(k) \/ dispatchClick(k)
  BY <1>3, KeyFits DEF dispatchClick
<1>4. CASE BannerMsg
  <2>1. CASE HeightClass(layout) # Full /\ UNCHANGED <<look, stack>>
    BY <2>1 DEF Fitting
  <2>2. CASE /\ HeightClass(layout) = Full /\ banner' = TRUE
             /\ layout' = ComputeLayout(layout.width, layout.height, TRUE)
             /\ updateChildren(layout', theme) /\ theme' = theme
    <3>1. Laid(layout', TRUE) /\ layout'.height = layout.height
      BY <2>2, LaidAgain DEF Fitting, Laid, ComputeLayout
    <3>2. children' = [layout |-> layout', theme |-> theme] /\ stack' \in Pushed(layout', theme)
      BY <2>2, <3>1, ChildrenUpdated
    <3> QED BY <2>2, <3>1, <3>2 DEF Fitting, HeightClass
  <2> QED BY <1>4, <2>1, <2>2 DEF BannerMsg
<1>5. CASE \E y \in WheelRow : \E d \in {-1, 1} : handleWheel(y, d)
  BY <1>5 DEF handleWheel, Fitting
<1>6. CASE \E of \in {"sync", "backfill"}, on \in BOOLEAN : Progress(of, on)
  BY <1>6 DEF Progress, Fitting
<1>7. CASE \E n \in 0..MaxOutbox : OutboxCountMsg(n)
  BY <1>7 DEF OutboxCountMsg, Fitting
<1>8. CASE \E undo \in BOOLEAN : ToastMsg(undo)
  BY <1>8 DEF ToastMsg, Fitting
<1> QED BY <1>1, <1>2, <1>3, <1>4, <1>5, <1>6, <1>7, <1>8 DEF Arrives

LEMMA ComesFits ==
  ASSUME Fitting, Comes
  PROVE  Fitting'
<1> USE DEF look, timers
<1>1. CASE \E g \in 1..MaxTimers : tickToast(g) \/ tickSpinner(g) \/ flushWheelTimer(g)
  BY <1>1 DEF tickToast, tickSpinner, flushWheelTimer, Fitting
<1>2. CASE \E y \in WheelRow, d \in -MaxSum..MaxSum : dispatchWheel(y, d)
  <2>1. PICK y \in WheelRow, d \in -MaxSum..MaxSum : dispatchWheel(y, d)
    BY <1>2
  <2>2. UNCHANGED look
    BY <2>1 DEF dispatchWheel
  <2>3. stack' \in Pushed(layout, theme)
    <3>1. CASE stack # <<>> /\ stack' = [stack EXCEPT ![Len(stack)] = ScrolledTo(@, @.scroll + d)]
      <4>1. stack' = [stack EXCEPT ![Len(stack)] = ScrolledTo(@, Top.scroll + d)]
        BY <3>1 DEF Top
      <4>2. Top.scroll + d \in Int
        BY <3>1, TopScroll, ShellInputs
      <4> QED BY <3>1, <4>1, <4>2, ScreenScrolled
    <3>2. CASE UNCHANGED stack
      BY <3>2 DEF Fitting
    <3> QED BY <2>1, <3>1, <3>2 DEF dispatchWheel
  <2> QED BY <2>2, <2>3 DEF Fitting
<1>3. CASE \E yes \in BOOLEAN : ConfirmAnsweredMsg(yes)
  BY <1>3, ScreenPopped DEF ConfirmAnsweredMsg, Fitting
<1>4. CASE quitYesMsg \/ Leave
  BY <1>4 DEF quitYesMsg, Leave, Fitting
<1> QED BY <1>1, <1>2, <1>3, <1>4 DEF Comes

\* Whichever of a resize, an Esc, a banner and the terminal's answer came last, the
\* banner's row, the surfaces and the screen on top agree with the layout in force.
THEOREM EveryScreenFits == Spec => []ScreensFit
<1>1. Init => Fitting
  <2> SUFFICES ASSUME Init PROVE Fitting
    OBVIOUS
  <2>1. layout = ComputeLayout(0, 0, FALSE) /\ banner = FALSE
    BY DEF Init
  <2>2. Laid(layout, banner)
    BY <2>1 DEF Laid
  <2>3. stack \in Pushed(layout, theme) /\ children = [layout |-> layout, theme |-> theme]
    BY DEF Init, Pushed
  <2> QED BY <2>1, <2>2, <2>3 DEF Fitting
<1>2. Fitting /\ [Next]_vars => Fitting'
  <2>1. Fitting /\ UNCHANGED vars => Fitting'
    BY DEF Fitting, vars, look
  <2> QED BY <2>1, ArrivesFits, ComesFits DEF Next
<1>3. Fitting => ScreensFit
  <2> SUFFICES ASSUME Fitting PROVE ScreensFit
    OBVIOUS
  <2>1. layout.BannerRow = (banner /\ ~ChromeFree(layout))
    <3>1. layout.BannerRow = (banner /\ HeightClass(layout) = Full /\ ~ChromeFree(layout))
      BY LaidAgain DEF Fitting
    <3>2. banner => HeightClass(layout) = Full
      BY DEF Fitting
    <3> QED BY <3>1, <3>2, Zenon
  <2>2. CASE stack = <<>>
    BY <2>1, <2>2 DEF Fitting, ScreensFit, OneScreenUp
  <2>3. CASE stack # <<>>
    <3>1. PICK is \in {"help", "confirm"}, n \in InPlace(layout) : stack = <<Shown(is, layout, theme, n)>>
      BY <2>3 DEF Fitting, Pushed
    <3>2. Len(stack) = 1 /\ DOMAIN stack = {1} /\ stack[1] = Shown(is, layout, theme, n)
      BY <3>1
    <3> QED BY <2>1, <3>2 DEF Fitting, ScreensFit, OneScreenUp, Shown, InPlace
  <2> QED BY <2>2, <2>3
<1> QED BY <1>1, <1>2, <1>3, PTL DEF Spec
-----------------------------------------------------------------------------
(* Timers. *)

Inboxes == [Message -> Nat]

LEMMA MessagesDiffer ==
  ASSUME NEW g, NEW h, NEW yes \in BOOLEAN, NEW y, NEW d
  PROVE  /\ toastTick(g) # spinTick(h) /\ toastTick(g) # wheelFlush(h) /\ spinTick(g) # wheelFlush(h)
         /\ toastTick(g) = toastTick(h) => g = h
         /\ spinTick(g) = spinTick(h) => g = h
         /\ wheelFlush(g) = wheelFlush(h) => g = h
         /\ {QuitMsg, quitYes, Answered(yes), WheelMsg(y, d)}
              \cap {toastTick(g), spinTick(g), wheelFlush(g)} = {}
         /\ QuitMsg # quitYes /\ quitYes # Answered(yes) /\ quitYes # WheelMsg(y, d)
         /\ QuitMsg # Answered(yes) /\ QuitMsg # WheelMsg(y, d)
  BY DEF toastTick, spinTick, wheelFlush, QuitMsg, quitYes, Answered, WheelMsg

LEMMA AreMessages ==
  /\ QuitMsg \in Message /\ quitYes \in Message
  /\ \A g \in 1..MaxTimers : {toastTick(g), spinTick(g), wheelFlush(g)} \subseteq Message
<1> DEFINE ticks  == UNION {{toastTick(n), spinTick(n), wheelFlush(n)} : n \in 1..MaxTimers}
           wheels == {WheelMsg(y, d) : y \in WheelRow, d \in -MaxSum..MaxSum}
           others == {Answered(TRUE), Answered(FALSE), quitYes, QuitMsg}
<1>1. ASSUME NEW g \in 1..MaxTimers
      PROVE  {toastTick(g), spinTick(g), wheelFlush(g)} \subseteq ticks
  OBVIOUS
<1>2. Message = ticks \cup wheels \cup others
  BY DEF Message
<1>3. QuitMsg \in others /\ quitYes \in others
  OBVIOUS
<1> HIDE DEF ticks, wheels, others
<1> QED BY <1>1, <1>2, <1>3

\* One more, or one less, of a message under way.
LEMMA OneMore ==
  ASSUME NEW box \in Inboxes, NEW m
  PROVE  LET new == [box EXCEPT ![m] = @ + 1] IN
         /\ new \in Inboxes /\ \A x \in Message : x # m => new[x] = box[x]
         /\ m \in Message => new[m] = box[m] + 1
<1> DEFINE new == [box EXCEPT ![m] = @ + 1]
<1>1. CASE m \in Message
  <2>1. box[m] + 1 \in Nat
    BY <1>1 DEF Inboxes
  <2> QED BY <1>1, <2>1 DEF Inboxes
<1>2. CASE m \notin Message
  BY <1>2 DEF Inboxes
<1> QED BY <1>1, <1>2

LEMMA OneLess ==
  ASSUME NEW box \in Inboxes, NEW m, box[m] > 0
  PROVE  LET new == [box EXCEPT ![m] = @ - 1] IN
         /\ new \in Inboxes /\ \A x \in Message : x # m => new[x] = box[x]
         /\ m \in Message => new[m] = box[m] - 1
<1> DEFINE new == [box EXCEPT ![m] = @ - 1]
<1>1. CASE m \in Message
  <2>1. box[m] - 1 \in Nat
    BY <1>1 DEF Inboxes
  <2> QED BY <1>1, <2>1 DEF Inboxes
<1>2. CASE m \notin Message
  BY <1>2 DEF Inboxes
<1> QED BY <1>1, <1>2

\* What the parts of a step leave under way.
LEMMA SendLeaves ==
  ASSUME inbox \in Inboxes, NEW m, Send(m)
  PROVE  /\ inbox' \in Inboxes /\ \A x \in Message : x # m => inbox'[x] = inbox[x]
         /\ m \in Message => inbox'[m] = inbox[m] + 1
  BY OneMore DEF Send

LEMMA TakeLeaves ==
  ASSUME inbox \in Inboxes, NEW m, Take(m)
  PROVE  /\ inbox' \in Inboxes /\ \A x \in Message : x # m => inbox'[x] = inbox[x]
         /\ m \in Message => inbox'[m] = inbox[m] - 1
  BY OneLess DEF Take, Taken

LEMMA TakeSendLeaves ==
  ASSUME inbox \in Inboxes, NEW m, NEW k, TakeSend(m, k)
  PROVE  /\ inbox' \in Inboxes /\ \A x \in Message : x # m /\ x # k => inbox'[x] = inbox[x]
         /\ m \in Message /\ m = k => inbox'[m] = inbox[m]
         /\ m \in Message /\ m # k => inbox'[m] = inbox[m] - 1
         /\ k \in Message /\ m # k => inbox'[k] = inbox[k] + 1
<1> DEFINE box == Taken(m)
<1>1. inbox[m] > 0 /\ inbox' = [box EXCEPT ![k] = @ + 1]
  BY DEF TakeSend
<1>2. /\ box \in Inboxes /\ \A x \in Message : x # m => box[x] = inbox[x]
      /\ m \in Message => box[m] = inbox[m] - 1
  BY <1>1, OneLess DEF Taken
<1> HIDE DEF box
<1>3. /\ inbox' \in Inboxes /\ \A x \in Message : x # k => inbox'[x] = box[x]
      /\ k \in Message => inbox'[k] = box[k] + 1
  BY <1>1, <1>2, OneMore
<1>4. m \in Message => inbox[m] \in Nat
  BY DEF Inboxes
<1> QED BY <1>2, <1>3, <1>4

LEMMA Send2Leaves ==
  ASSUME inbox \in Inboxes, NEW m, NEW k, m # k, Send2(m, k)
  PROVE  /\ inbox' \in Inboxes /\ \A x \in Message : x # m /\ x # k => inbox'[x] = inbox[x]
         /\ m \in Message => inbox'[m] = inbox[m] + 1
         /\ k \in Message => inbox'[k] = inbox[k] + 1
<1> DEFINE box == [inbox EXCEPT ![m] = @ + 1]
<1>1. inbox' = [box EXCEPT ![k] = @ + 1]
  BY DEF Send2
<1>2. /\ box \in Inboxes /\ \A x \in Message : x # m => box[x] = inbox[x]
      /\ m \in Message => box[m] = inbox[m] + 1
  BY OneMore
<1> HIDE DEF box
<1>3. /\ inbox' \in Inboxes /\ \A x \in Message : x # k => inbox'[x] = box[x]
      /\ k \in Message => inbox'[k] = box[k] + 1
  BY <1>1, <1>2, OneMore
<1> QED BY <1>2, <1>3

\* How many ticks of each number are under way, for each kind of timer.
Kind == {"toast", "spin", "wheel"}
Tick == [kind \in Kind |->
           [g \in 1..MaxTimers |-> CASE kind = "toast" -> toastTick(g)
                                     [] kind = "spin" -> spinTick(g)
                                     [] kind = "wheel" -> wheelFlush(g)]]
Under(box, kind) == [g \in 1..MaxTimers |-> box[Tick[kind][g]]]

\* A timer's ticks: none of a number it has not reached, and one of the number it
\* is at while it runs.
Wound(on, gen, ticks) ==
  /\ on \in BOOLEAN /\ gen \in 0..MaxTimers /\ (on => gen > 0)
  /\ ticks \in [1..MaxTimers -> Nat]
  /\ \A g \in 1..MaxTimers : (g > gen => ticks[g] = 0) /\ (on /\ g = gen => ticks[g] = 1)

Toasts == [active : BOOLEAN, undo : BOOLEAN, remaining : Nat, gen : Nat]
Spins == [ticking : BOOLEAN, gen : Nat]
Wheels == [open : BOOLEAN, gen : Nat, y : Nat, sum : Int]

Timed ==
  /\ inbox \in Inboxes
  /\ toast \in Toasts /\ spin \in Spins /\ wheel \in Wheels
  /\ Started <= MaxTimers
  /\ Wound(toast.active, toast.gen, Under(inbox, "toast"))
  /\ Wound(spin.ticking, spin.gen, Under(inbox, "spin"))
  /\ Wound(wheel.open, wheel.gen, Under(inbox, "wheel"))

LEMMA TicksAre ==
  ASSUME NEW g \in 1..MaxTimers
  PROVE  /\ Tick["toast"][g] = toastTick(g) /\ Tick["spin"][g] = spinTick(g) /\ Tick["wheel"][g] = wheelFlush(g)
         /\ \A kind \in Kind : Tick[kind][g] \in Message
<1>1. Tick["toast"][g] = toastTick(g) /\ Tick["spin"][g] = spinTick(g) /\ Tick["wheel"][g] = wheelFlush(g)
  BY DEF Tick, Kind
<1> QED BY <1>1, AreMessages DEF Kind

LEMMA UnderIs ==
  ASSUME NEW box \in Inboxes, NEW kind \in Kind
  PROVE  Under(box, kind) \in [1..MaxTimers -> Nat]
  BY TicksAre DEF Under, Inboxes

\* Ticks of different kinds or numbers are different messages, and no other
\* message is a tick.
LEMMA TicksDiffer ==
  ASSUME NEW kind \in Kind, NEW g \in 1..MaxTimers
  PROVE  /\ \A of \in Kind, h \in 1..MaxTimers : Tick[kind][g] = Tick[of][h] => kind = of /\ g = h
         /\ Tick[kind][g] # QuitMsg /\ Tick[kind][g] # quitYes
         /\ \A yes \in BOOLEAN : Tick[kind][g] # Answered(yes)
         /\ \A y, d : Tick[kind][g] # WheelMsg(y, d)
<1>1. \A h \in 1..MaxTimers : Tick["toast"][h] = toastTick(h) /\ Tick["spin"][h] = spinTick(h) /\ Tick["wheel"][h] = wheelFlush(h)
  BY TicksAre
<1>2. ASSUME NEW of \in Kind, NEW h \in 1..MaxTimers, Tick[kind][g] = Tick[of][h]
      PROVE  kind = of /\ g = h
  <2>1. ASSUME NEW a \in Kind, NEW n \in 1..MaxTimers
        PROVE  /\ Tick[a][n].n = n
               /\ Tick[a][n].is = (IF a = "toast" THEN "toastTick" ELSE IF a = "spin" THEN "spinTick" ELSE "wheelFlush")
    <3>1. /\ toastTick(n).n = n /\ toastTick(n).is = "toastTick"
          /\ spinTick(n).n = n /\ spinTick(n).is = "spinTick"
          /\ wheelFlush(n).n = n /\ wheelFlush(n).is = "wheelFlush"
      BY DEF toastTick, spinTick, wheelFlush
    <3>2. Tick["toast"][n] = toastTick(n) /\ Tick["spin"][n] = spinTick(n) /\ Tick["wheel"][n] = wheelFlush(n)
      BY <1>1
    <3> QED BY <3>1, <3>2 DEF Kind
  <2>2. g = h
    BY <1>2, <2>1
  <2>3. Tick[kind][g].is = Tick[of][h].is
    BY <1>2
  <2> QED BY <2>1, <2>2, <2>3 DEF Kind
<1>3. Tick[kind][g] \in {toastTick(g), spinTick(g), wheelFlush(g)}
  BY <1>1 DEF Kind
<1>4. \A yes \in BOOLEAN : Tick[kind][g] # Answered(yes)
  BY <1>3 DEF toastTick, spinTick, wheelFlush, Answered
<1>5. \A y, d : Tick[kind][g] # WheelMsg(y, d)
  BY <1>3 DEF toastTick, spinTick, wheelFlush, WheelMsg
<1>6. Tick[kind][g] # QuitMsg /\ Tick[kind][g] # quitYes
  BY <1>3 DEF toastTick, spinTick, wheelFlush, QuitMsg, quitYes
<1> QED BY <1>2, <1>4, <1>5, <1>6

\* A timer is started under a new number, is stopped, or loses a tick that is stale.
LEMMA WoundStarts ==
  ASSUME NEW on, NEW gen, NEW ticks, NEW new, Wound(on, gen, ticks), gen < MaxTimers,
         new \in [1..MaxTimers -> Nat], new[gen + 1] = ticks[gen + 1] + 1,
         \A g \in 1..MaxTimers : g # gen + 1 => new[g] = ticks[g]
  PROVE  Wound(TRUE, gen + 1, new)
  BY ShellInputs DEF Wound

LEMMA WoundStops ==
  ASSUME NEW on, NEW gen, NEW ticks, NEW new, Wound(on, gen, ticks),
         new \in [1..MaxTimers -> Nat], \A g \in 1..MaxTimers : g > gen => new[g] = ticks[g]
  PROVE  Wound(FALSE, gen, new)
  BY DEF Wound

LEMMA WoundDrops ==
  ASSUME NEW on, NEW gen, NEW ticks, NEW new, Wound(on, gen, ticks),
         NEW g \in 1..MaxTimers, ticks[g] > 0, ~on \/ g # gen, new \in [1..MaxTimers -> Nat],
         \A h \in 1..MaxTimers : h # g => new[h] = ticks[h]
  PROVE  Wound(on, gen, new)
  BY DEF Wound

\* No tick of any kind and number.
Tickless(m) == \A kind \in Kind, g \in 1..MaxTimers : Tick[kind][g] # m

\* What changes no more than one tick and one message that is none leaves every
\* other tick as it was.
LEMMA OthersCounted ==
  ASSUME NEW box \in Inboxes, NEW new \in Inboxes, NEW kind \in Kind, NEW g \in 1..MaxTimers,
         NEW m, Tickless(m), \A x \in Message : x # Tick[kind][g] /\ x # m => new[x] = box[x]
  PROVE  /\ \A of \in Kind \ {kind} : Under(new, of) = Under(box, of)
         /\ Under(new, kind) \in [1..MaxTimers -> Nat]
         /\ \A h \in 1..MaxTimers : h # g => Under(new, kind)[h] = Under(box, kind)[h]
         /\ Under(new, kind)[g] = new[Tick[kind][g]] /\ Under(box, kind)[g] = box[Tick[kind][g]]
<1>1. \A of \in Kind, h \in 1..MaxTimers : (of # kind \/ h # g) => new[Tick[of][h]] = box[Tick[of][h]]
  BY TicksDiffer, TicksAre DEF Tickless
<1>2. Under(new, kind) \in [1..MaxTimers -> Nat]
  BY UnderIs
<1> QED BY <1>1, <1>2 DEF Under

LEMMA NothingCounted ==
  ASSUME NEW box \in Inboxes, NEW new \in Inboxes, NEW m, Tickless(m), NEW k, Tickless(k),
         \A x \in Message : x # m /\ x # k => new[x] = box[x]
  PROVE  \A of \in Kind : Under(new, of) = Under(box, of)
<1>1. \A of \in Kind, h \in 1..MaxTimers : new[Tick[of][h]] = box[Tick[of][h]]
  BY TicksAre DEF Tickless
<1> QED BY <1>1 DEF Under

LEMMA AreTickless ==
  /\ Tickless(QuitMsg) /\ Tickless(quitYes)
  /\ \A yes \in BOOLEAN : Tickless(Answered(yes))
  /\ \A y, d : Tickless(WheelMsg(y, d))
  BY TicksDiffer DEF Tickless

\* The ticks as the definitions name them.
LEMMA TickNames ==
  ASSUME NEW g \in 1..MaxTimers
  PROVE  /\ toastTick(g) = Tick["toast"][g] /\ spinTick(g) = Tick["spin"][g] /\ wheelFlush(g) = Tick["wheel"][g]
         /\ "toast" \in Kind /\ "spin" \in Kind /\ "wheel" \in Kind
  BY TicksAre DEF Kind

\* A tick is asked for, taken, or taken and asked for again.
LEMMA TickSent ==
  ASSUME inbox \in Inboxes, NEW kind \in Kind, NEW g \in 1..MaxTimers, Send(Tick[kind][g])
  PROVE  /\ inbox' \in Inboxes
         /\ \A of \in Kind \ {kind} : Under(inbox', of) = Under(inbox, of)
         /\ Under(inbox', kind) \in [1..MaxTimers -> Nat]
         /\ \A h \in 1..MaxTimers : h # g => Under(inbox', kind)[h] = Under(inbox, kind)[h]
         /\ Under(inbox', kind)[g] = Under(inbox, kind)[g] + 1
<1>1. /\ inbox' \in Inboxes /\ \A x \in Message : x # Tick[kind][g] => inbox'[x] = inbox[x]
      /\ inbox'[Tick[kind][g]] = inbox[Tick[kind][g]] + 1
  BY SendLeaves, TicksAre
<1> QED BY <1>1, OthersCounted, AreTickless

LEMMA TickTaken ==
  ASSUME inbox \in Inboxes, NEW kind \in Kind, NEW g \in 1..MaxTimers, Take(Tick[kind][g])
  PROVE  /\ inbox' \in Inboxes
         /\ \A of \in Kind \ {kind} : Under(inbox', of) = Under(inbox, of)
         /\ Under(inbox', kind) \in [1..MaxTimers -> Nat]
         /\ \A h \in 1..MaxTimers : h # g => Under(inbox', kind)[h] = Under(inbox, kind)[h]
         /\ Under(inbox, kind)[g] > 0
<1>1. inbox' \in Inboxes /\ \A x \in Message : x # Tick[kind][g] => inbox'[x] = inbox[x]
  BY TakeLeaves, TicksAre
<1>2. inbox[Tick[kind][g]] > 0
  BY DEF Take
<1> QED BY <1>1, <1>2, OthersCounted, AreTickless

LEMMA TickExchanged ==
  ASSUME inbox \in Inboxes, NEW kind \in Kind, NEW g \in 1..MaxTimers, NEW k, Tickless(k),
         TakeSend(Tick[kind][g], k)
  PROVE  /\ inbox' \in Inboxes
         /\ \A of \in Kind \ {kind} : Under(inbox', of) = Under(inbox, of)
         /\ Under(inbox', kind) \in [1..MaxTimers -> Nat]
         /\ \A h \in 1..MaxTimers : h # g => Under(inbox', kind)[h] = Under(inbox, kind)[h]
         /\ Under(inbox, kind)[g] > 0
<1>1. inbox' \in Inboxes /\ \A x \in Message : x # Tick[kind][g] /\ x # k => inbox'[x] = inbox[x]
  BY TakeSendLeaves, TicksAre
<1>2. inbox[Tick[kind][g]] > 0
  BY DEF TakeSend
<1> QED BY <1>1, <1>2, OthersCounted

LEMMA TickRenewed ==
  ASSUME inbox \in Inboxes, NEW kind \in Kind, NEW g \in 1..MaxTimers,
         TakeSend(Tick[kind][g], Tick[kind][g])
  PROVE  inbox' \in Inboxes /\ \A of \in Kind : Under(inbox', of) = Under(inbox, of)
<1>1. inbox' \in Inboxes /\ \A x \in Message : inbox'[x] = inbox[x]
  BY TakeSendLeaves, TicksAre
<1> QED BY <1>1, NothingCounted, AreTickless

\* Steps that send and take other messages.
LEMMA NoTick ==
  ASSUME inbox \in Inboxes, NEW m, Tickless(m), NEW k, Tickless(k),
         Send(m) \/ Take(m) \/ TakeSend(m, k)
  PROVE  inbox' \in Inboxes /\ \A of \in Kind : Under(inbox', of) = Under(inbox, of)
<1>1. inbox' \in Inboxes /\ \A x \in Message : x # m /\ x # k => inbox'[x] = inbox[x]
  BY SendLeaves, TakeLeaves, TakeSendLeaves
<1> QED BY <1>1, NothingCounted

\* Such a step, with timers that go on or are switched off, keeps Timed.
LEMMA Undisturbed ==
  ASSUME Timed, inbox' \in Inboxes, \A of \in Kind : Under(inbox', of) = Under(inbox, of),
         UNCHANGED <<spin, wheel>>, toast' \in {toast, [toast EXCEPT !.active = FALSE]}
  PROVE  Timed'
<1>1. toast' \in Toasts /\ toast'.gen = toast.gen /\ toast'.active \in {toast.active, FALSE}
  BY DEF Timed, Toasts
<1>2. Wound(toast'.active, toast.gen, Under(inbox, "toast"))
  <2>1. Wound(FALSE, toast.gen, Under(inbox, "toast"))
    BY DEF Timed, Wound
  <2> QED BY <1>1, <2>1 DEF Timed
<1>3. {"toast", "spin", "wheel"} \subseteq Kind
  BY DEF Kind
<1> QED BY <1>1, <1>2, <1>3 DEF Timed, Started

LEMMA ToastShown ==
  ASSUME Timed, NEW undo \in BOOLEAN, showToast(undo), UNCHANGED <<spin, wheel>>
  PROVE  Timed'
<1>1. toast.gen + 1 \in 1..MaxTimers /\ toast.gen < MaxTimers /\ Started + 1 <= MaxTimers
  BY ShellInputs DEF showToast, MayStart, Started, Timed, Toasts, Spins, Wheels
<1>2. Send(Tick["toast"][toast.gen + 1])
  BY <1>1, TickNames DEF showToast
<1>3. toast' = [active |-> TRUE, undo |-> undo, remaining |-> undoWindowSeconds - 1, gen |-> toast.gen + 1]
  BY DEF showToast
<1>4. toast' \in Toasts /\ toast'.active = TRUE /\ toast'.gen = toast.gen + 1
  BY <1>1, <1>3, ShellInputs DEF Toasts
<1>5. /\ inbox' \in Inboxes
      /\ Under(inbox', "spin") = Under(inbox, "spin") /\ Under(inbox', "wheel") = Under(inbox, "wheel")
      /\ Under(inbox', "toast") \in [1..MaxTimers -> Nat]
      /\ \A h \in 1..MaxTimers : h # toast.gen + 1 => Under(inbox', "toast")[h] = Under(inbox, "toast")[h]
      /\ Under(inbox', "toast")[toast.gen + 1] = Under(inbox, "toast")[toast.gen + 1] + 1
  BY <1>1, <1>2, TickSent DEF Timed, Kind
<1>6. Wound(toast'.active, toast'.gen, Under(inbox', "toast"))
  <2>1. Wound(toast.active, toast.gen, Under(inbox, "toast"))
    BY DEF Timed
  <2> DEFINE new == Under(inbox', "toast")
             ticks == Under(inbox, "toast")
  <2>2. /\ new \in [1..MaxTimers -> Nat] /\ new[toast.gen + 1] = ticks[toast.gen + 1] + 1
        /\ \A h \in 1..MaxTimers : h # toast.gen + 1 => new[h] = ticks[h]
    BY <1>5
  <2> HIDE DEF new, ticks
  <2>3. Wound(TRUE, toast.gen + 1, new)
    BY <1>1, <2>1, <2>2, WoundStarts DEF ticks
  <2> QED BY <1>4, <2>3 DEF new
<1>7. Started' <= MaxTimers
  BY <1>1, <1>4 DEF Started, Timed, Toasts, Spins, Wheels
<1> QED BY <1>4, <1>5, <1>6, <1>7 DEF Timed

LEMMA ToastTicked ==
  ASSUME Timed, NEW g \in 1..MaxTimers, tickToast(g)
  PROVE  Timed'
<1>1. toastTick(g) = Tick["toast"][g] /\ "toast" \in Kind
  BY TickNames
<1>2. UNCHANGED <<spin, wheel>>
  BY DEF tickToast
<1>3. CASE ~toast.active \/ g # toast.gen
  <2>1. Take(Tick["toast"][g]) /\ toast' = toast
    BY <1>1, <1>3 DEF tickToast
  <2>2. /\ inbox' \in Inboxes
        /\ Under(inbox', "spin") = Under(inbox, "spin") /\ Under(inbox', "wheel") = Under(inbox, "wheel")
        /\ Under(inbox', "toast") \in [1..MaxTimers -> Nat]
        /\ \A h \in 1..MaxTimers : h # g => Under(inbox', "toast")[h] = Under(inbox, "toast")[h]
        /\ Under(inbox, "toast")[g] > 0
    BY <2>1, TickTaken DEF Timed, Kind
  <2>3. Wound(toast.active, toast.gen, Under(inbox', "toast"))
    BY <1>3, <2>2, WoundDrops DEF Timed
  <2> QED BY <1>2, <2>1, <2>2, <2>3 DEF Timed, Started
<1>4. CASE toast.active /\ g = toast.gen /\ toast.remaining = 0
  <2>1. Take(Tick["toast"][g]) /\ toast' = [toast EXCEPT !.active = FALSE]
    BY <1>1, <1>4 DEF tickToast
  <2>2. /\ inbox' \in Inboxes
        /\ Under(inbox', "spin") = Under(inbox, "spin") /\ Under(inbox', "wheel") = Under(inbox, "wheel")
        /\ Under(inbox', "toast") \in [1..MaxTimers -> Nat]
        /\ \A h \in 1..MaxTimers : h # g => Under(inbox', "toast")[h] = Under(inbox, "toast")[h]
    BY <2>1, TickTaken DEF Timed, Kind
  <2>3. toast' \in Toasts /\ toast'.gen = toast.gen /\ toast'.active = FALSE
    BY <2>1 DEF Timed, Toasts
  <2>4. \A h \in 1..MaxTimers : h > toast.gen => Under(inbox', "toast")[h] = Under(inbox, "toast")[h]
    BY <1>4, <2>2
  <2>5. Wound(FALSE, toast.gen, Under(inbox', "toast"))
    BY <2>2, <2>4, WoundStops DEF Timed
  <2> QED BY <1>2, <2>2, <2>3, <2>5 DEF Timed, Started
<1>5. CASE toast.active /\ g = toast.gen /\ toast.remaining # 0
  <2>1. TakeSend(Tick["toast"][g], Tick["toast"][g]) /\ toast' = [toast EXCEPT !.remaining = @ - 1]
    BY <1>1, <1>5 DEF tickToast
  <2>2. inbox' \in Inboxes /\ \A of \in Kind : Under(inbox', of) = Under(inbox, of)
    BY <1>1, <2>1, TickRenewed DEF Timed
  <2>3. toast' \in Toasts /\ toast'.gen = toast.gen /\ toast'.active = toast.active
    <3>1. toast \in Toasts /\ toast.remaining - 1 \in Nat
      BY <1>5 DEF Timed, Toasts
    <3> QED BY <2>1, <3>1 DEF Toasts
  <2> QED BY <1>2, <2>2, <2>3 DEF Timed, Started, Kind
<1> QED BY <1>3, <1>4, <1>5 DEF Timed, Toasts

LEMMA SpinnerReconciled ==
  ASSUME Timed, NEW now, reconcileSpinner(now), UNCHANGED <<toast, wheel>>
  PROVE  Timed'
<1>1. CASE UNCHANGED <<spin, inbox>>
  BY <1>1 DEF Timed, Started
<1>2. CASE spin' = [spin EXCEPT !.ticking = FALSE] /\ UNCHANGED inbox
  <2>1. spin' \in Spins /\ spin'.gen = spin.gen /\ spin'.ticking = FALSE
    BY <1>2 DEF Timed, Spins
  <2>2. Wound(FALSE, spin.gen, Under(inbox, "spin"))
    BY DEF Timed, Wound
  <2> QED BY <1>2, <2>1, <2>2 DEF Timed, Started
<1>3. CASE MayStart /\ spin' = [ticking |-> TRUE, gen |-> spin.gen + 1] /\ Send(spinTick(spin.gen + 1))
  <2>1. spin.gen + 1 \in 1..MaxTimers /\ spin.gen < MaxTimers /\ Started + 1 <= MaxTimers
    BY <1>3, ShellInputs DEF MayStart, Started, Timed, Toasts, Spins, Wheels
  <2>2. Send(Tick["spin"][spin.gen + 1])
    BY <1>3, <2>1, TickNames
  <2>3. spin' \in Spins /\ spin'.gen = spin.gen + 1 /\ spin'.ticking = TRUE
    BY <1>3, <2>1 DEF Spins
  <2>4. /\ inbox' \in Inboxes
        /\ Under(inbox', "toast") = Under(inbox, "toast") /\ Under(inbox', "wheel") = Under(inbox, "wheel")
        /\ Under(inbox', "spin") \in [1..MaxTimers -> Nat]
        /\ \A h \in 1..MaxTimers : h # spin.gen + 1 => Under(inbox', "spin")[h] = Under(inbox, "spin")[h]
        /\ Under(inbox', "spin")[spin.gen + 1] = Under(inbox, "spin")[spin.gen + 1] + 1
    BY <2>1, <2>2, TickSent DEF Timed, Kind
  <2>5. Wound(spin'.ticking, spin'.gen, Under(inbox', "spin"))
    <3>1. Wound(spin.ticking, spin.gen, Under(inbox, "spin"))
      BY DEF Timed
    <3> DEFINE new == Under(inbox', "spin")
               ticks == Under(inbox, "spin")
    <3>2. /\ new \in [1..MaxTimers -> Nat] /\ new[spin.gen + 1] = ticks[spin.gen + 1] + 1
          /\ \A h \in 1..MaxTimers : h # spin.gen + 1 => new[h] = ticks[h]
      BY <2>4
    <3> HIDE DEF new, ticks
    <3>3. Wound(TRUE, spin.gen + 1, new)
      BY <2>1, <3>1, <3>2, WoundStarts DEF ticks
    <3> QED BY <2>3, <3>3 DEF new
  <2>6. Started' <= MaxTimers
    BY <2>1, <2>3 DEF Started, Timed, Toasts, Spins, Wheels
  <2> QED BY <2>3, <2>4, <2>5, <2>6 DEF Timed
<1> QED BY <1>1, <1>2, <1>3 DEF reconcileSpinner

LEMMA SpinnerTicked ==
  ASSUME Timed, NEW g \in 1..MaxTimers, tickSpinner(g)
  PROVE  Timed'
<1>1. spinTick(g) = Tick["spin"][g] /\ "spin" \in Kind /\ UNCHANGED timers
  BY TickNames DEF tickSpinner
<1>2. CASE spin.ticking /\ g = spin.gen
  <2>1. TakeSend(Tick["spin"][g], Tick["spin"][g])
    BY <1>1, <1>2 DEF tickSpinner
  <2>2. inbox' \in Inboxes /\ \A of \in Kind : Under(inbox', of) = Under(inbox, of)
    BY <1>1, <2>1, TickRenewed DEF Timed
  <2> QED BY <1>1, <2>2 DEF Timed, Started, Kind, timers
<1>3. CASE ~(spin.ticking /\ g = spin.gen)
  <2>1. Take(Tick["spin"][g])
    BY <1>1, <1>3 DEF tickSpinner
  <2>2. /\ inbox' \in Inboxes
        /\ Under(inbox', "toast") = Under(inbox, "toast") /\ Under(inbox', "wheel") = Under(inbox, "wheel")
        /\ Under(inbox', "spin") \in [1..MaxTimers -> Nat]
        /\ \A h \in 1..MaxTimers : h # g => Under(inbox', "spin")[h] = Under(inbox, "spin")[h]
        /\ Under(inbox, "spin")[g] > 0
    BY <2>1, TickTaken DEF Timed, Kind
  <2>3. Wound(spin.ticking, spin.gen, Under(inbox', "spin"))
    BY <1>3, <2>2, WoundDrops DEF Timed
  <2> QED BY <1>1, <2>2, <2>3 DEF Timed, Started, timers
<1> QED BY <1>2, <1>3

LEMMA WheelTurned ==
  ASSUME Timed, NEW y \in WheelRow, NEW d \in {-1, 1}, handleWheel(y, d)
  PROVE  Timed'
<1>1. UNCHANGED <<spin, toast>> /\ y \in Nat
  BY ShellInputs DEF handleWheel
<1>2. CASE wheel.sum + d \in -MaxSum..MaxSum /\ wheel' = [wheel EXCEPT !.sum = @ + d] /\ UNCHANGED inbox
  <2>1. wheel.sum + d \in Int
    BY DEF Timed, Wheels
  <2>2. wheel' \in Wheels /\ wheel'.gen = wheel.gen /\ wheel'.open = wheel.open
    BY <1>2, <2>1 DEF Timed, Wheels
  <2> QED BY <1>1, <1>2, <2>2 DEF Timed, Started
<1>3. CASE /\ MayStart /\ wheel' = openWheelGesture(y, d)
           /\ IF wheel.open THEN Send2(wheelFlush(wheel'.gen), WheelMsg(wheel.y, wheel.sum))
              ELSE Send(wheelFlush(wheel'.gen))
  <2> DEFINE g == wheel.gen + 1
  <2>1. g \in 1..MaxTimers /\ wheel.gen < MaxTimers /\ Started + 1 <= MaxTimers
    BY <1>3, ShellInputs DEF MayStart, Started, Timed, Toasts, Spins, Wheels
  <2>2. wheel' \in Wheels /\ wheel'.gen = g /\ wheel'.open = TRUE
    BY <1>1, <1>3, <2>1 DEF Wheels, openWheelGesture
  <2>3. wheelFlush(g) = Tick["wheel"][g] /\ "wheel" \in Kind
    BY <2>1, TickNames
  <2> DEFINE new == Under(inbox', "wheel")
             ticks == Under(inbox, "wheel")
  <2>4. /\ inbox' \in Inboxes
        /\ Under(inbox', "toast") = Under(inbox, "toast") /\ Under(inbox', "spin") = Under(inbox, "spin")
        /\ new \in [1..MaxTimers -> Nat]
        /\ \A h \in 1..MaxTimers : h # g => new[h] = ticks[h]
        /\ new[g] = ticks[g] + 1
    <3>1. CASE wheel.open
      <4> DEFINE m == WheelMsg(wheel.y, wheel.sum)
      <4>1. Tickless(m) /\ m # Tick["wheel"][g]
        BY <2>1, <2>3, AreTickless DEF Tickless
      <4>2. Send2(Tick["wheel"][g], m)
        BY <1>3, <2>2, <2>3, <3>1
      <4>3. inbox \in Inboxes /\ Tick["wheel"][g] \in Message
        BY <2>1, <2>3, TicksAre DEF Timed
      <4> HIDE DEF m, g
      <4>4. /\ inbox' \in Inboxes /\ \A x \in Message : x # Tick["wheel"][g] /\ x # m => inbox'[x] = inbox[x]
            /\ inbox'[Tick["wheel"][g]] = inbox[Tick["wheel"][g]] + 1
        BY <4>1, <4>2, <4>3, Send2Leaves
      <4> QED BY <2>1, <2>3, <4>1, <4>3, <4>4, OthersCounted DEF Kind
    <3>2. CASE ~wheel.open
      <4>1. Send(Tick["wheel"][g])
        BY <1>3, <2>2, <2>3, <3>2
      <4> HIDE DEF g
      <4> QED BY <2>1, <2>3, <4>1, TickSent DEF Timed, Kind
    <3> QED BY <3>1, <3>2
  <2>5. Wound(wheel'.open, wheel'.gen, new)
    <3>1. Wound(wheel.open, wheel.gen, ticks)
      BY DEF Timed
    <3> HIDE DEF new, ticks
    <3>2. Wound(TRUE, wheel.gen + 1, new)
      BY <2>1, <2>4, <3>1, WoundStarts
    <3> QED BY <2>2, <3>2
  <2>6. Started' <= MaxTimers
    BY <1>1, <2>1, <2>2 DEF Started, Timed, Toasts, Spins, Wheels
  <2> QED BY <1>1, <2>2, <2>4, <2>5, <2>6 DEF Timed
<1> QED BY <1>2, <1>3 DEF handleWheel

LEMMA WheelFlushed ==
  ASSUME Timed, NEW g \in 1..MaxTimers, flushWheelTimer(g)
  PROVE  Timed'
<1>1. wheelFlush(g) = Tick["wheel"][g] /\ "wheel" \in Kind
  BY TickNames
<1>2. UNCHANGED <<spin, toast>>
  BY DEF flushWheelTimer
<1>3. CASE wheel.open /\ g = wheel.gen
  <2>1. /\ TakeSend(Tick["wheel"][g], WheelMsg(wheel.y, wheel.sum))
        /\ wheel' = [open |-> FALSE, gen |-> wheel.gen, y |-> 0, sum |-> 0]
    BY <1>1, <1>3 DEF flushWheelTimer
  <2>2. wheel' \in Wheels /\ wheel'.gen = wheel.gen /\ wheel'.open = FALSE
    BY <2>1 DEF Timed, Wheels
  <2>3. /\ inbox' \in Inboxes
        /\ Under(inbox', "toast") = Under(inbox, "toast") /\ Under(inbox', "spin") = Under(inbox, "spin")
        /\ Under(inbox', "wheel") \in [1..MaxTimers -> Nat]
        /\ \A h \in 1..MaxTimers : h # g => Under(inbox', "wheel")[h] = Under(inbox, "wheel")[h]
    BY <1>1, <2>1, TickExchanged, AreTickless DEF Timed, Kind
  <2>4. \A h \in 1..MaxTimers : h > wheel.gen => Under(inbox', "wheel")[h] = Under(inbox, "wheel")[h]
    BY <1>3, <2>3
  <2>5. Wound(FALSE, wheel.gen, Under(inbox', "wheel"))
    BY <2>3, <2>4, WoundStops DEF Timed
  <2> QED BY <1>2, <2>2, <2>3, <2>5 DEF Timed, Started
<1>4. CASE ~(wheel.open /\ g = wheel.gen)
  <2>1. Take(Tick["wheel"][g]) /\ wheel' = wheel
    BY <1>1, <1>4 DEF flushWheelTimer
  <2>2. /\ inbox' \in Inboxes
        /\ Under(inbox', "toast") = Under(inbox, "toast") /\ Under(inbox', "spin") = Under(inbox, "spin")
        /\ Under(inbox', "wheel") \in [1..MaxTimers -> Nat]
        /\ \A h \in 1..MaxTimers : h # g => Under(inbox', "wheel")[h] = Under(inbox, "wheel")[h]
        /\ Under(inbox, "wheel")[g] > 0
    BY <2>1, TickTaken DEF Timed, Kind
  <2>3. Wound(wheel.open, wheel.gen, Under(inbox', "wheel"))
    BY <1>4, <2>2, WoundDrops DEF Timed
  <2> QED BY <1>2, <2>1, <2>2, <2>3 DEF Timed, Started
<1> QED BY <1>3, <1>4

LEMMA KeyTimed ==
  ASSUME Timed, NEW k, handleKey(k)
  PROVE  Timed'
<1> USE DEF look, timers
<1>1. CASE Back \/ Help \/ (k \in Surface /\ SwitchTo(k)) \/ (k \in ScrollKey /\ ScrollHelp(k))
  BY <1>1 DEF Back, Help, SwitchTo, ScrollHelp, Timed, Started
<1>2. CASE Undo
  BY <1>2, Undisturbed DEF Undo, Timed
<1>3. CASE handleQuit
  <2>1. CASE Send(QuitMsg)
    BY <1>3, <2>1, NoTick, AreTickless, Undisturbed DEF handleQuit, Timed
  <2>2. CASE UNCHANGED inbox
    BY <1>3, <2>2, Undisturbed DEF handleQuit, Timed
  <2> QED BY <1>3, <2>1, <2>2 DEF handleQuit
<1>4. CASE answer(k)
  BY <1>4, NoTick, AreTickless, Undisturbed DEF answer, Timed
<1> QED BY <1>1, <1>2, <1>3, <1>4 DEF handleKey

LEMMA ArrivesTimed ==
  ASSUME Timed, Arrives
  PROVE  Timed'
<1> USE DEF look, timers
<1>1. CASE \E s \in Sizes : WindowSizeMsg(s[1], s[2])
  <2>1. showToast(FALSE) \/ UNCHANGED <<toast, inbox>>
    BY <1>1 DEF WindowSizeMsg
  <2>2. UNCHANGED <<spin, wheel>>
    BY <1>1 DEF WindowSizeMsg
  <2> QED BY <2>1, <2>2, ToastShown DEF Timed, Started
<1>2. CASE \E th \in {"dark", "light"} : BackgroundColorMsg(th)
  BY <1>2 DEF BackgroundColorMsg, Timed, Started
<1>3. CASE \E k \in Key : handleKey(k) \/ dispatchClick(k)
  BY <1>3, KeyTimed DEF dispatchClick
<1>4. CASE BannerMsg
  <2>1. (showToast(FALSE) \/ UNCHANGED <<toast, inbox>>) /\ UNCHANGED <<spin, wheel>>
    BY <1>4 DEF BannerMsg
  <2> QED BY <2>1, ToastShown DEF Timed, Started
<1>5. CASE \E y \in WheelRow : \E d \in {-1, 1} : handleWheel(y, d)
  BY <1>5, WheelTurned
<1>6. CASE \E of \in {"sync", "backfill"}, on \in BOOLEAN : Progress(of, on)
  <2>1. PICK of \in {"sync", "backfill"}, on \in BOOLEAN : Progress(of, on)
    BY <1>6
  <2>2. UNCHANGED <<toast, wheel>>
    BY <2>1 DEF Progress
  <2>3. reconcileSpinner(busy')
    BY <2>1 DEF Progress
  <2> QED BY <2>2, <2>3, SpinnerReconciled
<1>7. CASE \E n \in 0..MaxOutbox : OutboxCountMsg(n)
  BY <1>7 DEF OutboxCountMsg, Timed, Started
<1>8. CASE \E undo \in BOOLEAN : ToastMsg(undo)
  BY <1>8, ToastShown DEF ToastMsg
<1> QED BY <1>1, <1>2, <1>3, <1>4, <1>5, <1>6, <1>7, <1>8 DEF Arrives

LEMMA ComesTimed ==
  ASSUME Timed, Comes
  PROVE  Timed'
<1> USE DEF look, timers
<1>1. CASE \E g \in 1..MaxTimers : tickToast(g) \/ tickSpinner(g) \/ flushWheelTimer(g)
  BY <1>1, ToastTicked, SpinnerTicked, WheelFlushed
<1>2. CASE \E y \in WheelRow, d \in -MaxSum..MaxSum : dispatchWheel(y, d)
  <2>1. PICK y \in WheelRow, d \in -MaxSum..MaxSum : dispatchWheel(y, d)
    BY <1>2
  <2>2. Take(WheelMsg(y, d)) /\ UNCHANGED timers
    BY <2>1 DEF dispatchWheel
  <2>3. inbox' \in Inboxes /\ \A of \in Kind : Under(inbox', of) = Under(inbox, of)
    BY <2>2, NoTick, AreTickless DEF Timed
  <2> QED BY <2>2, <2>3, Undisturbed
<1>3. CASE \E yes \in BOOLEAN : ConfirmAnsweredMsg(yes)
  <2>1. PICK yes \in BOOLEAN : ConfirmAnsweredMsg(yes)
    BY <1>3
  <2>2. (Take(Answered(yes)) \/ TakeSend(Answered(yes), quitYes)) /\ UNCHANGED timers
    BY <2>1 DEF ConfirmAnsweredMsg
  <2>3. inbox' \in Inboxes /\ \A of \in Kind : Under(inbox', of) = Under(inbox, of)
    BY <2>2, NoTick, AreTickless DEF Timed
  <2> QED BY <2>2, <2>3, Undisturbed
<1>4. CASE quitYesMsg
  <2>1. TakeSend(quitYes, QuitMsg) /\ toast' = [toast EXCEPT !.active = FALSE] /\ UNCHANGED <<spin, wheel>>
    BY <1>4 DEF quitYesMsg
  <2>2. inbox' \in Inboxes /\ \A of \in Kind : Under(inbox', of) = Under(inbox, of)
    BY <2>1, NoTick, AreTickless DEF Timed
  <2> QED BY <2>1, <2>2, Undisturbed
<1>5. CASE Leave
  <2>1. Take(QuitMsg) /\ UNCHANGED timers
    BY <1>5 DEF Leave
  <2>2. inbox' \in Inboxes /\ \A of \in Kind : Under(inbox', of) = Under(inbox, of)
    BY <2>1, NoTick, AreTickless DEF Timed
  <2> QED BY <2>1, <2>2, Undisturbed
<1> QED BY <1>1, <1>2, <1>3, <1>4, <1>5 DEF Comes

LEMMA TimedAlways == Spec => []Timed
<1>1. Init => Timed
  <2> SUFFICES ASSUME Init PROVE Timed
    OBVIOUS
  <2>1. inbox \in Inboxes /\ \A m \in Message : inbox[m] = 0
    BY DEF Init, Inboxes
  <2>2. \A kind \in Kind : Under(inbox, kind) \in [1..MaxTimers -> Nat] /\ \A g \in 1..MaxTimers : Under(inbox, kind)[g] = 0
    BY <2>1, UnderIs, TicksAre DEF Under
  <2>3. /\ toast \in Toasts /\ spin \in Spins /\ wheel \in Wheels /\ Started <= MaxTimers
        /\ toast.active = FALSE /\ toast.gen = 0 /\ spin.ticking = FALSE /\ spin.gen = 0
        /\ wheel.open = FALSE /\ wheel.gen = 0
    BY ShellInputs DEF Init, Toasts, Spins, Wheels, Started
  <2>4. \A kind \in Kind : Wound(FALSE, 0, Under(inbox, kind))
    BY <2>2, ShellInputs DEF Wound
  <2> QED BY <2>1, <2>3, <2>4 DEF Timed, Kind
<1>2. Timed /\ [Next]_vars => Timed'
  <2>1. Timed /\ UNCHANGED vars => Timed'
    BY DEF Timed, Started, vars, timers
  <2> QED BY <2>1, ArrivesTimed, ComesTimed DEF Next
<1> QED BY <1>1, <1>2, PTL DEF Spec

\* However often toasts replace each other, the engine's activity stops and starts
\* and the wheel turns, and in whatever order the old ticks come in: what is open
\* has exactly one tick that will move it.
THEOREM TimersRunOnce == Spec => []TimersLive
<1>1. Timed => TimersLive
  <2> SUFFICES ASSUME Timed PROVE TimersLive
    OBVIOUS
  <2>1. ASSUME NEW kind \in Kind, NEW g \in 1..MaxTimers
        PROVE  Under(inbox, kind)[g] = inbox[Tick[kind][g]]
    BY DEF Under
  <2>2. toast.active => inbox[toastTick(toast.gen)] = 1
    BY <2>1, TickNames DEF Timed, Wound
  <2>3. spin.ticking => inbox[spinTick(spin.gen)] = 1
    BY <2>1, TickNames DEF Timed, Wound
  <2>4. wheel.open => inbox[wheelFlush(wheel.gen)] = 1
    BY <2>1, TickNames DEF Timed, Wound
  <2> QED BY <2>2, <2>3, <2>4 DEF TimersLive
<1> QED BY <1>1, TimedAlways, PTL
=============================================================================
