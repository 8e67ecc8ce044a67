----------------------------- MODULE MCStartup ------------------------------
(* Small instances of Startup. *)
EXTENDS Startup
CONSTANTS p1, p2
\* p1 is the older build.
MCBuild == [p \in Process |-> IF p = p1 THEN 1 ELSE 2]
=============================================================================
