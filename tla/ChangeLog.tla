----------------------------- MODULE ChangeLog -----------------------------
(***************************************************************************)
(* An account as its server keeps it, for one kind of record: the changes  *)
(* ever made, in order.  A state token stands for a length of this log,    *)
(* and a record's version for the place of the change that gave it.        *)
(* Server ids are never given again, so a destroyed record stays so.       *)
(***************************************************************************)
EXTENDS Integers, Sequences, FiniteSets, FiniteSetsExt

Ops == {"create", "update", "destroy"}
Entry(R) == [rec : R, op : Ops]

\* The version of record r after the first i changes, 0 before it exists.
Ver(log, r, i) == Max({0} \cup {j \in 1..i : log[j].rec = r})

Alive(log, r, i) == Ver(log, r, i) # 0 /\ log[Ver(log, r, i)].op # "destroy"
Dead(log, r, i)  == Ver(log, r, i) # 0 /\ log[Ver(log, r, i)].op = "destroy"

\* Nothing follows a record's end.
Final(log) == \A i, j \in DOMAIN log : i < j /\ log[i].rec = log[j].rec => log[i].op # "destroy"

\* A version r has had, and was not its end.
Held(log, r, v) == v \in DOMAIN log /\ log[v].rec = r /\ log[v].op # "destroy"

\* What may be done next to r.
Legal(log, r, op) ==
  CASE op = "create" -> Ver(log, r, Len(log)) = 0
    [] OTHER         -> Alive(log, r, Len(log))

\* The last of the first i changes that altered which records there are.
Listing(log, i) == Max({0} \cup {j \in 1..i : log[j].op # "update"})
=============================================================================
