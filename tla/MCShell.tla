------------------------------- MODULE MCShell ------------------------------
(* A small instance of Shell. *)
EXTENDS Shell
\* Below the floor; short and narrow, where help scrolls; full with room for a
\* banner's row, narrow and wide.
MCSizes == {<<50, 40>>, <<60, 15>>, <<60, 20>>, <<140, 20>>}
\* The spinner, the wheel, the theme and the surface in front do not bear on one
\* another, nor on a reported queue: one of them stirs in a behaviour.
Focus ==
  Cardinality({i \in 1..5 : <<spin.gen > 0, wheel.gen > 0, bgAnswered, active # "1", outbox > 0>>[i]}) <= 1
=============================================================================
