---------------------------- MODULE ShellLayout -----------------------------
(***************************************************************************)
(* The pure formulas of the terminal shell: what a terminal of a given     *)
(* size shows, in rows and columns.  A band is an interval of rows, a pane *)
(* an interval of columns, each [from, to) as image.Rectangle has them.    *)
(***************************************************************************)
EXTENDS Integers, FiniteSets

\* theme's spacing roles and the sizes of the shell exemplar.
GapPane == 2
railWidth == 22
paneX == railWidth + 1 + GapPane
listWidth == 62
PadCard == 2
readerCardCap == 100 + 2 * PadCard

widthSpartanMin == 60
widthStandardMin == 100
widthWideMin == 140
heightShortMin == 15
heightFullMin == 20

Span(a, b) == [from |-> a, to |-> b]
NoSpan == Span(0, 0)
Size(s) == s.to - s.from

\* Classes in their declared order, so that they compare.
Floor == 0
Spartan == 1
Standard == 2
Wide == 3
Short == 1
Full == 2

classifyWidth(width) ==
  IF width < widthSpartanMin THEN Floor
  ELSE IF width < widthStandardMin THEN Spartan
  ELSE IF width < widthWideMin THEN Standard ELSE Wide

classifyHeight(height) ==
  IF height < heightShortMin THEN Floor ELSE IF height < heightFullMin THEN Short ELSE Full
-----------------------------------------------------------------------------
(* Panes. *)

\* The panes a class of width wants beside the content, and each pane's minimum.
Wanted(class) == {"content"} \cup (IF class >= Standard THEN {"sidebar"} ELSE {})
                             \cup (IF class = Wide THEN {"split"} ELSE {})
MinOf(pane, class) ==
  CASE pane = "content" -> (IF class = Wide THEN listWidth ELSE 30)
    [] pane = "sidebar" -> paneX
    [] pane = "split"   -> GapPane + 40
MinIn(pane, panes, class) == IF pane \in panes THEN MinOf(pane, class) ELSE 0
sumMin(panes, class) ==
  MinIn("content", panes, class) + MinIn("sidebar", panes, class) + MinIn("split", panes, class)

\* The split goes before the sidebar; the content never goes.
dropPanes(width, panes, class) ==
  IF sumMin(panes, class) <= width THEN panes
  ELSE IF sumMin(panes \ {"split"}, class) <= width THEN panes \ {"split"}
  ELSE panes \ {"split", "sidebar"}

Kept(width) == dropPanes(width, Wanted(classifyWidth(width)), classifyWidth(width))

\* The floating reader card: what is left, capped, the surplus on both sides.
readerCard(from, right) ==
  LET avail == right - from - GapPane
      width == IF avail <= readerCardCap THEN avail ELSE readerCardCap
      left  == from + (avail - width) \div 2
  IN  Span(left, left + width)

SidebarSpan(width) == IF "sidebar" \in Kept(width) THEN Span(0, railWidth) ELSE NoSpan
ContentFrom(width) == IF "sidebar" \in Kept(width) THEN paneX ELSE 0
ContentSpan(width) ==
  Span(ContentFrom(width), IF "split" \in Kept(width) THEN ContentFrom(width) + listWidth ELSE width)
SplitSpan(width) ==
  IF "split" \in Kept(width) THEN readerCard(ContentFrom(width) + listWidth + GapPane, width) ELSE NoSpan
-----------------------------------------------------------------------------
(* Bands. *)

AtFloor(width, height) == classifyWidth(width) = Floor \/ classifyHeight(height) = Floor

\* A banner has a row of its own at full height only.  At the floor the one
\* band is the whole terminal.
ComputeLayout(width, height, banner) ==
  LET chrome == ~AtFloor(width, height)
      row    == chrome /\ banner /\ classifyHeight(height) = Full
  IN [width     |-> width,
      height    |-> height,
      BannerRow |-> row,
      StatusRow |-> IF chrome THEN Span(0, 1) ELSE NoSpan,
      Banner    |-> IF row THEN Span(1, 2) ELSE NoSpan,
      Main      |-> IF chrome THEN Span(IF row THEN 2 ELSE 1, height - 1) ELSE Span(0, height),
      Footer    |-> IF chrome THEN Span(height - 1, height) ELSE NoSpan]

Class(lm) == classifyWidth(lm.width)
HeightClass(lm) == classifyHeight(lm.height)
ChromeFree(lm) == AtFloor(lm.width, lm.height)
=============================================================================
