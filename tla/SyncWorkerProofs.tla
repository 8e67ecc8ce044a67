--------------------------- MODULE SyncWorkerProofs --------------------------
(***************************************************************************)
(* Theorems about SyncWorker, for any account, page, chunk and scan sizes, *)
(* and bounds: its variables are well typed, only rows of destroyed        *)
(* records are ever deleted, the watermark promises no more than the rows  *)
(* keep, and the rows are a Replica of the server.                         *)
(***************************************************************************)
EXTENDS SyncWorker, FiniteSetTheorems, WellFoundedInduction, TLAPS

-----------------------------------------------------------------------------
(* Numbers and ranks. *)

\* A bounded non-empty set of naturals has a greatest, and Max is it.
LEMMA Greatest ==
  ASSUME NEW T \in SUBSET Nat, T # {}, NEW b \in Nat, \A x \in T : x <= b
  PROVE  Max(T) \in T /\ \A y \in T : y <= Max(T)
<1> DEFINE gaps == {b - x : x \in T}
           less == OpToRel(<, Nat)
<1>1. gaps \subseteq Nat /\ gaps # {}
  <2> SUFFICES ASSUME NEW x \in T PROVE b - x \in Nat
    OBVIOUS
  <2>1. x \in Nat /\ x <= b
    OBVIOUS
  <2> QED BY <2>1
<1>2. IsWellFoundedOn(less, Nat)
  BY NatLessThanWellFounded
<1>3. PICK d \in gaps : \A e \in gaps : ~(<<e, d>> \in less)
  <2> HIDE DEF less, gaps
  <2> QED BY <1>1, <1>2, WFMin
<1>4. PICK x \in T : d = b - x
  OBVIOUS
<1>5. ASSUME NEW y \in T PROVE y <= x
  <2>1. b - y \in gaps /\ b - y \in Nat /\ d \in Nat
    <3>1. b - y \in gaps
      OBVIOUS
    <3> QED BY <3>1, <1>1
  <2>2. ~(b - y < d)
    BY <1>3, <2>1 DEF OpToRel
  <2>3. x \in Nat /\ y \in Nat
    OBVIOUS
  <2> QED BY <1>4, <2>1, <2>2, <2>3
<1> QED BY <1>5 DEF Max

\* The same with zero added, as the definitions use it.
LEMMA GreatestOrZero ==
  ASSUME NEW T \in SUBSET Nat, NEW b \in Nat, \A x \in T : x <= b
  PROVE  /\ Max({0} \cup T) \in {0} \cup T /\ Max({0} \cup T) \in 0..b
         /\ \A x \in T : x <= Max({0} \cup T)
<1> DEFINE U == {0} \cup T
<1>1. U \in SUBSET Nat /\ U # {} /\ (\A x \in U : x <= b) /\ T \subseteq U
  OBVIOUS
<1> HIDE DEF U
<1>2. Max(U) \in U /\ \A x \in U : x <= Max(U)
  BY <1>1, Greatest
<1>3. Max(U) \in 0..b
  <2>1. Max(U) \in Nat /\ Max(U) <= b
    BY <1>1, <1>2
  <2> QED BY <2>1
<1> QED BY <1>1, <1>2, <1>3 DEF U

LEMMA RecordsFinite ==
  /\ Record \subseteq Nat \ {0} /\ IsFiniteSet(Record) /\ None \notin Record
  /\ \A S \in SUBSET Record : IsFiniteSet(S) /\ Cardinality(S) \in Nat
<1>1. Record \subseteq Nat \ {0} /\ IsFiniteSet(Record) /\ None \notin Record
  BY SyncSizes, FS_Interval DEF Record, None
<1> QED BY <1>1, FS_Subset, FS_CardinalityType

\* How many of a set stand above one of its members orders them.
Above(S, r) == {q \in S : q > r}
Rank(S, r) == Cardinality(Above(S, r))

LEMMA RankType ==
  ASSUME NEW S \in SUBSET Record, NEW r \in S
  PROVE  /\ Rank(S, r) \in Nat /\ Rank(S, r) < Cardinality(S)
         /\ \A q \in S : q > r => Rank(S, q) < Rank(S, r)
<1>1. Above(S, r) \in SUBSET S /\ r \notin Above(S, r) /\ S \subseteq Nat
  BY RecordsFinite DEF Above
<1>2. IsFiniteSet(S) /\ Cardinality(S) \in Nat /\ Rank(S, r) \in Nat /\ IsFiniteSet(Above(S, r))
  BY <1>1, RecordsFinite, FS_Subset DEF Rank
<1>3. Rank(S, r) < Cardinality(S)
  BY <1>1, <1>2, FS_Subset DEF Rank
<1>4. ASSUME NEW q \in S, q > r
      PROVE  Rank(S, q) < Rank(S, r)
  <2>1. Above(S, q) \in SUBSET Above(S, r) /\ q \in Above(S, r) /\ q \notin Above(S, q)
    <3>1. r \in Nat /\ q \in Nat
      BY <1>1
    <3>2. ASSUME NEW x \in S, x > q PROVE x > r
      BY <1>1, <1>4, <3>1, <3>2
    <3>3. \A x \in Above(S, q) : x \in Above(S, r)
      BY <3>2 DEF Above
    <3>4. q \in Above(S, r) /\ q \notin Above(S, q)
      BY <1>4, <3>1 DEF Above
    <3> QED BY <3>3, <3>4
  <2>2. Rank(S, q) \in Nat
    BY RecordsFinite DEF Rank, Above
  <2>3. Cardinality(Above(S, q)) <= Cardinality(Above(S, r))
        /\ Cardinality(Above(S, q)) # Cardinality(Above(S, r))
    BY <1>2, <2>1, FS_Subset
  <2> QED BY <1>2, <2>2, <2>3 DEF Rank
<1> QED BY <1>2, <1>3, <1>4

LEMMA RankDiffers ==
  ASSUME NEW S \in SUBSET Record, NEW r \in S, NEW q \in S, Rank(S, r) = Rank(S, q)
  PROVE  r = q
<1>1. r \in Nat /\ q \in Nat
  BY RecordsFinite
<1>2. ~(q > r) /\ ~(r > q)
  <2>1. Rank(S, r) \in Nat /\ Rank(S, q) \in Nat
    BY RankType
  <2> QED BY <2>1, RankType
<1> QED BY <1>1, <1>2

\* Records of consecutive ranks are no more than there are ranks.
LEMMA RanksBound ==
  ASSUME NEW S \in SUBSET Record, NEW T \in SUBSET S, NEW a \in Nat, NEW b \in Nat, a <= b,
         \A r \in T : Rank(S, r) >= a /\ Rank(S, r) < b
  PROVE  Cardinality(T) <= b - a
<1> DEFINE rank == [r \in T |-> Rank(S, r)]
<1>1. \A r \in T : Rank(S, r) \in Nat
  BY RankType
<1>2. rank \in [T -> a..(b - 1)]
  BY <1>1
<1>3. \A r, q \in T : rank[r] = rank[q] => r = q
  BY RankDiffers
<1>4. rank \in Injection(T, a..(b - 1))
  BY <1>2, <1>3 DEF Injection, IsInjective
<1>5. IsFiniteSet(a..(b - 1)) /\ Cardinality(a..(b - 1)) = b - a
  <2>1. a \in Int /\ b - 1 \in Int
    OBVIOUS
  <2>2. IsFiniteSet(a..(b - 1)) /\ Cardinality(a..(b - 1)) = IF a > b - 1 THEN 0 ELSE (b - 1) - a + 1
    BY <2>1, FS_Interval
  <2> QED BY <2>2
<1> HIDE DEF rank
<1> QED BY <1>4, <1>5, FS_Injection

LEMMA NewestIs ==
  ASSUME NEW S \in SUBSET Record, NEW n
  PROVE  Newest(S, n) = {r \in S : Rank(S, r) < n}
  BY DEF Newest, Rank, Above

\* The next page of a listing in order is no more than it should be, and when
\* there is none the listing is complete.
LEMMA PageOfListing ==
  ASSUME NEW S \in SUBSET Record, NEW n \in Nat
  PROVE  LET page_ == Newest(S, n + PageSize) \ Newest(S, n) IN
         /\ page_ \subseteq S /\ Cardinality(page_) \in Nat /\ Cardinality(page_) <= PageSize
         /\ Newest(S, n + Cardinality(page_)) \subseteq Newest(S, n) \cup page_
         /\ page_ = {} => Newest(S, n) = S
         /\ page_ # {} => Cardinality(page_) > 0
         /\ n + Cardinality(page_) >= Cardinality(S) => S = Newest(S, n) \cup page_
<1> DEFINE listed == Newest(S, n + PageSize) \ Newest(S, n)
<1>1. \A r \in S : Rank(S, r) \in Nat /\ Rank(S, r) < Cardinality(S)
  BY RankType
<1>2. listed = {r \in S : Rank(S, r) >= n /\ Rank(S, r) < n + PageSize}
  BY <1>1, SyncSizes, NewestIs
<1>3. listed \subseteq S /\ Cardinality(listed) \in Nat
  BY <1>2, RecordsFinite
<1>4. Cardinality(listed) <= PageSize
  <2>1. \A r \in listed : Rank(S, r) >= n /\ Rank(S, r) < n + PageSize
    BY <1>2
  <2> HIDE DEF listed
  <2>2. n + PageSize \in Nat /\ n <= n + PageSize /\ (n + PageSize) - n = PageSize
    BY SyncSizes
  <2>3. listed \in SUBSET S
    BY <1>3
  <2>4. Cardinality(listed) <= (n + PageSize) - n
    BY <2>1, <2>2, <2>3, RanksBound
  <2> QED BY <2>2, <2>4
<1> HIDE DEF listed
<1>5. Newest(S, n + Cardinality(listed)) \subseteq Newest(S, n) \cup listed
  <2> SUFFICES ASSUME NEW r \in S, Rank(S, r) < n + Cardinality(listed), ~(Rank(S, r) < n)
               PROVE  r \in listed
    BY NewestIs
  <2>1. Rank(S, r) \in Nat /\ Rank(S, r) >= n /\ Rank(S, r) < n + PageSize
    BY <1>1, <1>3, <1>4, SyncSizes
  <2> QED BY <1>2, <2>1
<1>6. ASSUME listed = {} PROVE Newest(S, n) = S
  <2> DEFINE rest == {r \in S : Rank(S, r) >= n}
  <2>1. SUFFICES ASSUME rest # {} PROVE FALSE
    <3>1. Newest(S, n) = {r \in S : Rank(S, r) < n}
      BY NewestIs
    <3>2. \A r \in S : ~(Rank(S, r) >= n)
      BY <2>1
    <3> QED BY <1>1, <3>1, <3>2
  <2>2. rest \in SUBSET Nat /\ \A r \in rest : r <= NRecords
    <3>1. \A r \in Record : r \in Nat /\ r <= NRecords
      BY SyncSizes DEF Record
    <3>2. rest \subseteq Record
      OBVIOUS
    <3> HIDE DEF rest
    <3> QED BY <3>1, <3>2
  <2>3. Max(rest) \in rest /\ \A r \in rest : r <= Max(rest)
    <3> HIDE DEF rest
    <3> QED BY <2>1, <2>2, Greatest, SyncSizes
  <2> DEFINE top == Max(rest)
  <2>4. top \in S /\ Rank(S, top) >= n /\ top \in Nat
    BY <2>2, <2>3
  <2>5. \A q \in Above(S, top) : Rank(S, q) >= 0 /\ Rank(S, q) < n
    <3> SUFFICES ASSUME NEW q \in S, q > top PROVE Rank(S, q) < n /\ Rank(S, q) >= 0
      BY DEF Above
    <3>1. q \notin rest
      BY <2>2, <2>3, <2>4
    <3> QED BY <1>1, <3>1
  <2>6. Above(S, top) \in SUBSET S
    BY DEF Above
  <2> HIDE DEF top, rest
  <2>7. Rank(S, top) <= n
    BY <2>5, <2>6, RanksBound DEF Rank
  <2>8. top \in listed
    BY <1>1, <1>2, <2>4, <2>7, SyncSizes
  <2> QED BY <1>6, <2>8
<1>7. listed # {} => Cardinality(listed) > 0
  BY <1>3, RecordsFinite, FS_EmptySet
<1>8. ASSUME n + Cardinality(listed) >= Cardinality(S) PROVE S = Newest(S, n) \cup listed
  <2>1. Cardinality(S) \in Nat
    BY RecordsFinite
  <2>2. \A r \in S : Rank(S, r) < n + Cardinality(listed)
    BY <1>1, <1>3, <1>8, <2>1
  <2>3. S = Newest(S, n + Cardinality(listed))
    BY <2>2, NewestIs
  <2>4. listed \subseteq S /\ Newest(S, n) \subseteq S
    BY <1>3, NewestIs
  <2> QED BY <1>5, <2>3, <2>4
<1> QED BY <1>3, <1>4, <1>5, <1>6, <1>7, <1>8 DEF listed
-----------------------------------------------------------------------------
(* The server's log. *)

LEMMA VerIs ==
  ASSUME NEW l, NEW r, NEW i \in Int
  PROVE  /\ Ver(l, r, i) \in Nat
         /\ Ver(l, r, i) = 0 \/ (Ver(l, r, i) \in 1..i /\ l[Ver(l, r, i)].rec = r)
         /\ \A j \in 1..i : l[j].rec = r => j <= Ver(l, r, i)
<1> DEFINE T == {j \in 1..i : l[j].rec = r}
           b == IF i < 0 THEN 0 ELSE i
<1>1. T \in SUBSET Nat /\ b \in Nat /\ \A j \in T : j <= b
  OBVIOUS
<1>2. Ver(l, r, i) = Max({0} \cup T)
  BY DEF Ver
<1>3. \A j : j \in T <=> j \in 1..i /\ l[j].rec = r
  OBVIOUS
<1> HIDE DEF T, b
<1>4. Max({0} \cup T) \in {0} \cup T /\ Max({0} \cup T) \in 0..b /\ \A j \in T : j <= Max({0} \cup T)
  BY <1>1, GreatestOrZero
<1>5. Max({0} \cup T) \in Nat
  BY <1>1, <1>4
<1>6. Max({0} \cup T) = 0 \/ Max({0} \cup T) \in T
  BY <1>4
<1> QED BY <1>2, <1>3, <1>4, <1>5, <1>6

\* What is the greatest place of a change to r among the first i is r's version.
LEMMA VerFrom ==
  ASSUME NEW l, NEW r, NEW i \in Int, NEW v \in Nat, v = 0 \/ (v \in 1..i /\ l[v].rec = r),
         \A j \in 1..i : l[j].rec = r => j <= v
  PROVE  Ver(l, r, i) = v
<1>1. /\ Ver(l, r, i) \in Nat
      /\ Ver(l, r, i) = 0 \/ (Ver(l, r, i) \in 1..i /\ l[Ver(l, r, i)].rec = r)
      /\ \A j \in 1..i : l[j].rec = r => j <= Ver(l, r, i)
  BY VerIs
<1>2. Ver(l, r, i) <= v
  BY <1>1
<1>3. v <= Ver(l, r, i)
  BY <1>1
<1> QED BY <1>1, <1>2, <1>3

LEMMA VerGrows ==
  ASSUME NEW l, NEW r, NEW i \in Int, NEW j \in Int, i <= j
  PROVE  /\ Ver(l, r, i) <= Ver(l, r, j)
         /\ Ver(l, r, j) <= i => Ver(l, r, j) = Ver(l, r, i)
<1>1. /\ Ver(l, r, i) \in Nat /\ Ver(l, r, j) \in Nat
      /\ Ver(l, r, i) = 0 \/ (Ver(l, r, i) \in 1..i /\ l[Ver(l, r, i)].rec = r)
      /\ Ver(l, r, j) = 0 \/ (Ver(l, r, j) \in 1..j /\ l[Ver(l, r, j)].rec = r)
      /\ \A k \in 1..i : l[k].rec = r => k <= Ver(l, r, i)
      /\ \A k \in 1..j : l[k].rec = r => k <= Ver(l, r, j)
  BY VerIs
<1>2. Ver(l, r, i) <= Ver(l, r, j)
  BY <1>1
<1>3. ASSUME Ver(l, r, j) <= i PROVE Ver(l, r, j) <= Ver(l, r, i)
  BY <1>1, <1>3
<1> QED BY <1>1, <1>2, <1>3

LEMMA AliveOrDead ==
  ASSUME NEW l, NEW r, NEW i
  PROVE  /\ Ver(l, r, i) # 0 <=> Alive(l, r, i) \/ Dead(l, r, i)
         /\ ~(Alive(l, r, i) /\ Dead(l, r, i))
  BY DEF Alive, Dead

\* A version held is one the record has had.
LEMMA HeldIsOld ==
  ASSUME NEW l, NEW r, NEW v, NEW i \in 0..Len(l), Len(l) \in Nat, DOMAIN l = 1..Len(l), Held(l, r, v), v <= i
  PROVE  v \in Nat /\ v # 0 /\ v <= Ver(l, r, i) /\ Ver(l, r, i) # 0
<1>1. v \in 1..i /\ l[v].rec = r
  BY DEF Held
<1>2. v <= Ver(l, r, i) /\ Ver(l, r, i) \in Nat
  BY <1>1, VerIs
<1> QED BY <1>1, <1>2

LEMMA AliveIsHeld ==
  ASSUME NEW l, NEW r, NEW i \in 0..Len(l), Len(l) \in Nat, DOMAIN l = 1..Len(l), Alive(l, r, i)
  PROVE  Held(l, r, Ver(l, r, i)) /\ Ver(l, r, i) \in 1..i
<1>1. Ver(l, r, i) \in 1..i /\ l[Ver(l, r, i)].rec = r /\ l[Ver(l, r, i)].op # "destroy"
  BY VerIs DEF Alive
<1> QED BY <1>1 DEF Held

\* Nothing follows a record's end.
LEMMA DeadStays ==
  ASSUME NEW l, Len(l) \in Nat, DOMAIN l = 1..Len(l), Final(l),
         NEW r, NEW i \in 0..Len(l), NEW j \in i..Len(l)
  PROVE  /\ Dead(l, r, i) => Dead(l, r, j) /\ Ver(l, r, j) = Ver(l, r, i)
         /\ Alive(l, r, j) /\ Ver(l, r, i) # 0 => Alive(l, r, i)
<1>1. ASSUME Dead(l, r, i)
      PROVE  Dead(l, r, j) /\ Ver(l, r, j) = Ver(l, r, i)
  <2>1. Ver(l, r, i) \in 1..i /\ l[Ver(l, r, i)].rec = r /\ l[Ver(l, r, i)].op = "destroy"
    BY <1>1, VerIs DEF Dead
  <2>2. Ver(l, r, j) = 0 \/ (Ver(l, r, j) \in 1..j /\ l[Ver(l, r, j)].rec = r)
    BY VerIs
  <2>3. Ver(l, r, i) <= Ver(l, r, j) /\ Ver(l, r, j) \in Nat
    BY VerGrows, VerIs
  <2>4. ~(Ver(l, r, i) < Ver(l, r, j))
    BY <2>1, <2>2, <2>3 DEF Final
  <2>5. Ver(l, r, j) = Ver(l, r, i)
    BY <2>1, <2>3, <2>4
  <2> QED BY <1>1, <2>5 DEF Dead
<1> QED BY <1>1, AliveOrDead

\* One more change.
LEMMA LogGrows ==
  ASSUME NEW l \in Seq(Entry(Record)), NEW q \in Record, NEW op \in Ops
  PROVE  LET new == Append(l, [rec |-> q, op |-> op]) IN
         /\ new \in Seq(Entry(Record)) /\ Len(new) = Len(l) + 1 /\ DOMAIN new = 1..(Len(l) + 1)
         /\ DOMAIN l = 1..Len(l) /\ Len(l) \in Nat
         /\ \A i \in 1..Len(l) : new[i] = l[i]
         /\ new[Len(l) + 1].rec = q /\ new[Len(l) + 1].op = op
<1> DEFINE e == [rec |-> q, op |-> op]
<1>1. e \in Entry(Record) /\ e.rec = q /\ e.op = op
  BY DEF Entry
<1> HIDE DEF e
<1> QED BY <1>1 DEF e

LEMMA VersionsStay ==
  ASSUME NEW l \in Seq(Entry(Record)), NEW q \in Record, NEW op \in Ops, NEW r,
         NEW i \in Int, i <= Len(l)
  PROVE  LET new == Append(l, [rec |-> q, op |-> op]) IN
         /\ Ver(new, r, i) = Ver(l, r, i)
         /\ Alive(new, r, i) = Alive(l, r, i) /\ Dead(new, r, i) = Dead(l, r, i)
<1> DEFINE new == Append(l, [rec |-> q, op |-> op])
           v == Ver(l, r, i)
<1>1. \A j \in 1..i : new[j] = l[j]
  BY LogGrows
<1> HIDE DEF new
<1>2. v \in Nat /\ (v = 0 \/ (v \in 1..i /\ l[v].rec = r)) /\ \A j \in 1..i : l[j].rec = r => j <= v
  BY VerIs
<1>3. Ver(new, r, i) = v
  <2> HIDE DEF v
  <2> QED BY <1>1, <1>2, VerFrom
<1> QED BY <1>1, <1>2, <1>3 DEF new, Alive, Dead

LEMMA VersionNow ==
  ASSUME NEW l \in Seq(Entry(Record)), NEW q \in Record, NEW op \in Ops, NEW r
  PROVE  LET new == Append(l, [rec |-> q, op |-> op]) IN
         /\ r = q => Ver(new, r, Len(l) + 1) = Len(l) + 1
         /\ r # q => /\ Ver(new, r, Len(l) + 1) = Ver(l, r, Len(l))
                     /\ Alive(new, r, Len(l) + 1) = Alive(l, r, Len(l))
                     /\ Dead(new, r, Len(l) + 1) = Dead(l, r, Len(l))
<1> DEFINE new == Append(l, [rec |-> q, op |-> op])
           v == Ver(l, r, Len(l))
<1>1. \A i \in 1..Len(l) : new[i] = l[i]
  BY LogGrows
<1>2. new[Len(l) + 1].rec = q /\ Len(l) \in Nat
  BY LogGrows
<1> HIDE DEF new
<1>3. v \in Nat /\ (v = 0 \/ (v \in 1..Len(l) /\ l[v].rec = r)) /\ \A j \in 1..Len(l) : l[j].rec = r => j <= v
  BY <1>2, VerIs
<1>4. CASE r = q
  <2>1. Ver(new, r, Len(l) + 1) = Len(l) + 1
    BY <1>2, <1>4, VerFrom
  <2> QED BY <1>4, <2>1 DEF new
<1>5. CASE r # q
  <2> HIDE DEF v
  <2>1. \A j \in 1..(Len(l) + 1) : new[j].rec = r => j \in 1..Len(l) /\ l[j].rec = r
    <3> SUFFICES ASSUME NEW j \in 1..(Len(l) + 1), new[j].rec = r PROVE j \in 1..Len(l) /\ l[j].rec = r
      OBVIOUS
    <3>1. j # Len(l) + 1
      BY <1>2, <1>5
    <3>2. j \in 1..Len(l)
      BY <1>2, <3>1
    <3> QED BY <1>1, <3>2
  <2>2. \A j \in 1..(Len(l) + 1) : new[j].rec = r => j <= v
    BY <1>3, <2>1
  <2>3. v = 0 \/ (v \in 1..(Len(l) + 1) /\ new[v].rec = r)
    BY <1>1, <1>2, <1>3
  <2>4. Ver(new, r, Len(l) + 1) = v
    <3>1. v \in Nat /\ Len(l) + 1 \in Int
      BY <1>2, <1>3
    <3> QED BY <2>2, <2>3, <3>1, VerFrom
  <2>5. v # 0 => new[v] = l[v]
    BY <1>1, <1>3
  <2> QED BY <1>5, <2>4, <2>5 DEF new, v, Alive, Dead
<1> QED BY <1>4, <1>5

\* What a legal change does to the end, the life and the listing of records.
LEMMA FinalStays ==
  ASSUME NEW l \in Seq(Entry(Record)), NEW q \in Record, NEW op \in Ops, Final(l), Legal(l, q, op)
  PROVE  Final(Append(l, [rec |-> q, op |-> op]))
<1> DEFINE new == Append(l, [rec |-> q, op |-> op])
<1>1. /\ DOMAIN new = 1..(Len(l) + 1) /\ DOMAIN l = 1..Len(l) /\ Len(l) \in Nat
      /\ \A i \in 1..Len(l) : new[i] = l[i]
      /\ new[Len(l) + 1].rec = q
  BY LogGrows
<1>2. /\ Ver(l, q, Len(l)) = 0 \/ (Ver(l, q, Len(l)) \in 1..Len(l) /\ l[Ver(l, q, Len(l))].rec = q)
      /\ \A j \in 1..Len(l) : l[j].rec = q => j <= Ver(l, q, Len(l))
  BY <1>1, VerIs
<1> HIDE DEF new
<1> SUFFICES ASSUME NEW i \in DOMAIN new, NEW j \in DOMAIN new, i < j, new[i].rec = new[j].rec,
                    new[i].op = "destroy"
             PROVE  FALSE
  BY DEF Final, new
<1>3. i \in 1..Len(l) /\ new[i] = l[i]
  BY <1>1
<1>4. CASE j \in 1..Len(l)
  <2>1. new[j] = l[j]
    BY <1>1, <1>4
  <2> QED BY <1>1, <1>3, <1>4, <2>1 DEF Final
<1>5. CASE j = Len(l) + 1
  <2>1. l[i].rec = q /\ l[i].op = "destroy"
    BY <1>1, <1>3, <1>5
  <2>2. i <= Ver(l, q, Len(l)) /\ Ver(l, q, Len(l)) # 0
    BY <1>2, <1>3, <2>1
  <2>3. Alive(l, q, Len(l))
    BY <2>2 DEF Legal
  <2>4. i # Ver(l, q, Len(l))
    BY <2>1, <2>3 DEF Alive
  <2>5. i < Ver(l, q, Len(l)) /\ Ver(l, q, Len(l)) \in DOMAIN l /\ l[Ver(l, q, Len(l))].rec = q
    BY <1>1, <1>2, <1>3, <2>2, <2>4
  <2> QED BY <1>1, <1>3, <2>1, <2>5 DEF Final
<1> QED BY <1>1, <1>4, <1>5

LEMMA LifeGoesOn ==
  ASSUME NEW l \in Seq(Entry(Record)), NEW q \in Record, NEW op \in Ops, Final(l), Legal(l, q, op), NEW r
  PROVE  LET new == Append(l, [rec |-> q, op |-> op]) IN
         /\ Dead(l, r, Len(l)) => Dead(new, r, Len(l) + 1)
         /\ Alive(new, r, Len(l) + 1) => Alive(l, r, Len(l)) \/ Ver(l, r, Len(l)) = 0
         /\ op = "update" => (Alive(new, r, Len(l) + 1) <=> Alive(l, r, Len(l)))
<1> DEFINE new == Append(l, [rec |-> q, op |-> op])
<1>1. CASE r # q
  BY <1>1, VersionNow
<1>2. CASE r = q
  <2>1. ~Dead(l, r, Len(l))
    BY <1>2, AliveOrDead DEF Legal
  <2>2. Alive(l, r, Len(l)) \/ Ver(l, r, Len(l)) = 0
    BY <2>1, AliveOrDead
  <2>3. Ver(new, r, Len(l) + 1) = Len(l) + 1 /\ Len(l) \in Nat /\ new[Len(l) + 1].op = op
    BY <1>2, VersionNow, LogGrows
  <2>4. ASSUME op = "update" PROVE Alive(new, r, Len(l) + 1) /\ Alive(l, r, Len(l))
    <3> HIDE DEF new
    <3>1. Alive(l, r, Len(l))
      BY <1>2, <2>4 DEF Legal
    <3> QED BY <2>3, <2>4, <3>1 DEF Alive
  <2> QED BY <2>1, <2>2, <2>4
<1> QED BY <1>1, <1>2

LEMMA ListingIs ==
  ASSUME NEW l, NEW i \in Nat
  PROVE  /\ Listing(l, i) \in 0..i
         /\ Listing(l, i) = 0 \/ (Listing(l, i) \in 1..i /\ l[Listing(l, i)].op # "update")
         /\ \A j \in 1..i : l[j].op # "update" => j <= Listing(l, i)
<1> DEFINE T == {j \in 1..i : l[j].op # "update"}
<1>1. T \in SUBSET Nat /\ \A j \in T : j <= i
  OBVIOUS
<1>2. Listing(l, i) = Max({0} \cup T)
  BY DEF Listing
<1>3. \A j : j \in T <=> j \in 1..i /\ l[j].op # "update"
  OBVIOUS
<1> HIDE DEF T
<1>4. Max({0} \cup T) \in {0} \cup T /\ Max({0} \cup T) \in 0..i /\ \A j \in T : j <= Max({0} \cup T)
  BY <1>1, GreatestOrZero
<1>5. Max({0} \cup T) = 0 \/ Max({0} \cup T) \in T
  BY <1>4
<1> QED BY <1>2, <1>3, <1>4, <1>5

LEMMA ListingMoves ==
  ASSUME NEW l \in Seq(Entry(Record)), NEW q \in Record, NEW op \in Ops
  PROVE  Listing(Append(l, [rec |-> q, op |-> op]), Len(l) + 1)
           = IF op = "update" THEN Listing(l, Len(l)) ELSE Len(l) + 1
<1> DEFINE new == Append(l, [rec |-> q, op |-> op])
           n == Listing(new, Len(l) + 1)
           m == Listing(l, Len(l))
<1>1. /\ Len(l) \in Nat /\ new[Len(l) + 1].op = op
      /\ \A i \in 1..Len(l) : new[i] = l[i]
  BY LogGrows
<1> HIDE DEF new
<1>2. /\ n \in 0..(Len(l) + 1)
      /\ n = 0 \/ (n \in 1..(Len(l) + 1) /\ new[n].op # "update")
      /\ \A j \in 1..(Len(l) + 1) : new[j].op # "update" => j <= n
  BY <1>1, ListingIs
<1>3. /\ m \in 0..Len(l)
      /\ m = 0 \/ (m \in 1..Len(l) /\ l[m].op # "update")
      /\ \A j \in 1..Len(l) : l[j].op # "update" => j <= m
  BY <1>1, ListingIs
<1> HIDE DEF n, m
<1>4. CASE op # "update"
  <2>1. Len(l) + 1 <= n
    BY <1>1, <1>2, <1>4
  <2>2. n = Len(l) + 1
    BY <1>1, <1>2, <2>1
  <2> QED BY <1>4, <2>2 DEF n, new
<1>5. CASE op = "update"
  <2>1. n # Len(l) + 1
    BY <1>1, <1>2, <1>5
  <2>2. n \in 0..Len(l) /\ (n # 0 => l[n].op # "update")
    BY <1>1, <1>2, <2>1
  <2>3. n <= m
    BY <1>1, <1>3, <2>2
  <2>4. m <= n
    BY <1>1, <1>2, <1>3
  <2>5. n = m
    BY <1>1, <1>2, <1>3, <2>3, <2>4
  <2> QED BY <1>5, <2>5 DEF n, m, new
<1> QED BY <1>4, <1>5
-----------------------------------------------------------------------------
(* Rows. *)

\* Rows under bounded ids, at most one for each record.
Table(t) ==
  /\ \E b \in Nat : DOMAIN t \subseteq 1..b
  /\ \A i \in DOMAIN t : t[i] \in Row
  /\ \A i, j \in DOMAIN t : t[i].sid = t[j].sid /\ t[i].sid # None => i = j

LEMMA NewId ==
  ASSUME NEW t, Table(t)
  PROVE  NextId(t) \in Nat \ {0} /\ \A i \in DOMAIN t : i \in Nat \ {0} /\ i < NextId(t)
<1>1. PICK b \in Nat : DOMAIN t \subseteq 1..b
  BY DEF Table
<1> DEFINE T == DOMAIN t
<1>2. T \in SUBSET Nat /\ \A i \in T : i <= b /\ i \in Nat \ {0}
  BY <1>1
<1> HIDE DEF T
<1>3. Max({0} \cup T) \in 0..b /\ \A i \in T : i <= Max({0} \cup T)
  BY <1>2, GreatestOrZero
<1>4. NextId(t) = Max({0} \cup T) + 1
  BY DEF NextId, T
<1>5. \A i \in T : i \in Nat \ {0} /\ i < NextId(t)
  BY <1>2, <1>3, <1>4
<1> QED BY <1>3, <1>4, <1>5 DEF T

LEMMA SidsAre ==
  ASSUME NEW t, Table(t)
  PROVE  /\ Sids(t) \subseteq Record
         /\ \A r \in Record : r \in Sids(t) <=> \E i \in DOMAIN t : t[i].sid = r
         /\ \A i \in DOMAIN t : t[i].sid # None => t[i].sid \in Sids(t) /\ t[i].sid \in Record
         /\ \A r \in Sids(t) : RowOf(t, r) \in DOMAIN t /\ t[RowOf(t, r)].sid = r
         /\ \A i \in DOMAIN t : t[i].sid # None => RowOf(t, t[i].sid) = i
<1>1. \A i \in DOMAIN t : t[i].sid \in Record \cup {None}
  BY DEF Table, Row
<1>2. Sids(t) \subseteq Record
  BY <1>1 DEF Sids
<1>3. \A r \in Record : r \in Sids(t) <=> \E i \in DOMAIN t : t[i].sid = r
  BY RecordsFinite DEF Sids
<1>4. \A r \in Sids(t) : RowOf(t, r) \in DOMAIN t /\ t[RowOf(t, r)].sid = r
  BY <1>2, <1>3 DEF RowOf
<1>5. \A i \in DOMAIN t : t[i].sid # None => t[i].sid \in Sids(t) /\ t[i].sid \in Record
  BY <1>1, <1>3
<1>6. ASSUME NEW i \in DOMAIN t, t[i].sid # None PROVE RowOf(t, t[i].sid) = i
  <2>1. t[i].sid \in Sids(t)
    BY <1>5, <1>6
  <2>2. RowOf(t, t[i].sid) \in DOMAIN t /\ t[RowOf(t, t[i].sid)].sid = t[i].sid
    BY <1>4, <2>1
  <2> QED BY <1>6, <2>2 DEF Table
<1> QED BY <1>2, <1>3, <1>4, <1>5, <1>6

\* An upsert gives the records of S the version of then, in rows they have or in
\* new ones, and leaves the other rows as they were.
LEMMA UpsertIs ==
  ASSUME NEW t, Table(t), NEW S \in SUBSET Record, NEW at \in Nat
  PROVE  LET u == Upsert(t, S, at) IN
         /\ Table(u) /\ DOMAIN t \subseteq DOMAIN u /\ Sids(u) = Sids(t) \cup S
         /\ \A i \in DOMAIN t : u[i].sid = t[i].sid
         /\ \A i \in DOMAIN u : u[i].sid \in S => u[i].ver = Ver(log, u[i].sid, at)
         /\ \A i \in DOMAIN u : u[i].sid \notin S => i \in DOMAIN t /\ u[i].ver = t[i].ver
<1> DEFINE known == {i \in DOMAIN t : t[i].sid \in S}
           fresh == S \ Sids(t)
           IdOf(r) == NextId(t) + Cardinality({q \in fresh : q > r})
           added == {IdOf(r) : r \in fresh}
           Pick(i) == CHOOSE q \in fresh : IdOf(q) = i
           u == Upsert(t, S, at)
<1>1. u = [i \in DOMAIN t \cup added |->
             IF i \in known THEN [t[i] EXCEPT !.ver = Ver(log, t[i].sid, at)]
             ELSE IF i \in DOMAIN t THEN t[i]
             ELSE LET r == Pick(i) IN [sid |-> r, ver |-> Ver(log, r, at)]]
  BY DEF Upsert
<1>2. NextId(t) \in Nat \ {0} /\ \A i \in DOMAIN t : i \in Nat \ {0} /\ i < NextId(t)
  BY NewId
<1>3. fresh \in SUBSET Record /\ S \subseteq Record
  OBVIOUS
<1>4. \A r \in fresh : IdOf(r) = NextId(t) + Rank(fresh, r)
  BY DEF Rank, Above
<1> HIDE DEF fresh, IdOf, u
<1>5. \A r \in fresh : Rank(fresh, r) \in Nat /\ Rank(fresh, r) < Cardinality(fresh)
  BY <1>3, RankType
<1>6. Cardinality(fresh) \in Nat
  BY <1>3, RecordsFinite
<1>7. \A r \in fresh : IdOf(r) \in 1..(NextId(t) + Cardinality(fresh)) /\ IdOf(r) >= NextId(t)
  BY <1>2, <1>4, <1>5, <1>6
<1>8. \A r, q \in fresh : IdOf(r) = IdOf(q) => r = q
  <2> SUFFICES ASSUME NEW r \in fresh, NEW q \in fresh, IdOf(r) = IdOf(q) PROVE r = q
    OBVIOUS
  <2>1. Rank(fresh, r) = Rank(fresh, q)
    BY <1>2, <1>4, <1>5
  <2> QED BY <1>3, <2>1, RankDiffers
<1>9. added \cap DOMAIN t = {}
  BY <1>2, <1>7
<1>10. DOMAIN u = DOMAIN t \cup added
  BY <1>1
<1>11. \A i \in added : Pick(i) \in fresh /\ IdOf(Pick(i)) = i
  OBVIOUS
<1>12. \A r \in fresh : IdOf(r) \in added /\ Pick(IdOf(r)) = r
  BY <1>8, <1>11
<1>13. \A i \in DOMAIN t : t[i] \in Row
  BY DEF Table
<1> HIDE DEF added, Pick
<1>14. ASSUME NEW i \in known
       PROVE  i \in DOMAIN t /\ u[i].sid = t[i].sid /\ u[i].ver = Ver(log, t[i].sid, at) /\ u[i] \in Row
  <2>1. i \in DOMAIN t /\ t[i] \in Row /\ Ver(log, t[i].sid, at) \in Nat
    BY <1>13, VerIs
  <2>2. u[i] = [t[i] EXCEPT !.ver = Ver(log, t[i].sid, at)]
    BY <1>1, <1>14, <2>1
  <2> QED BY <2>1, <2>2 DEF Row
<1>15. \A i \in DOMAIN t \ known : u[i] = t[i]
  BY <1>1
<1>16. ASSUME NEW i \in added
       PROVE  u[i].sid = Pick(i) /\ u[i].ver = Ver(log, Pick(i), at) /\ u[i] \in Row
  <2>1. u[i] = [sid |-> Pick(i), ver |-> Ver(log, Pick(i), at)]
    BY <1>1, <1>9
  <2>2. Ver(log, Pick(i), at) \in Nat
    BY VerIs
  <2> QED BY <1>3, <1>11, <2>1, <2>2 DEF Row
<1>17. \A i \in DOMAIN t : u[i].sid = t[i].sid
  BY <1>14, <1>15
<1>18. \A i \in added : u[i].sid = Pick(i) /\ u[i].sid \in fresh
  BY <1>11, <1>16
<1>19. fresh \cap Sids(t) = {} /\ S \subseteq fresh \cup Sids(t) /\ fresh \subseteq S
  BY DEF fresh
<1>20. \A i \in DOMAIN t : t[i].sid # None => t[i].sid \in Sids(t)
  BY SidsAre
<1>21. None \notin fresh /\ None \notin S
  BY <1>3, RecordsFinite
<1>22. Table(u)
  <2>1. \E b \in Nat : DOMAIN u \subseteq 1..b
    <3>1. NextId(t) + Cardinality(fresh) \in Nat
      BY <1>2, <1>6
    <3>2. added \subseteq 1..(NextId(t) + Cardinality(fresh))
      BY <1>7 DEF added
    <3>3. DOMAIN t \subseteq 1..(NextId(t) + Cardinality(fresh))
      BY <1>2, <1>6
    <3> QED BY <1>10, <3>1, <3>2, <3>3
  <2>2. \A i \in DOMAIN u : u[i] \in Row
    BY <1>10, <1>13, <1>14, <1>15, <1>16
  <2>3. ASSUME NEW i \in DOMAIN u, NEW j \in DOMAIN u, u[i].sid = u[j].sid, u[i].sid # None
        PROVE  i = j
    <3>1. CASE i \in DOMAIN t /\ j \in DOMAIN t
      BY <1>17, <2>3, <3>1 DEF Table
    <3>2. CASE i \in added /\ j \in added
      BY <1>11, <1>18, <2>3, <3>2
    <3>3. CASE i \in DOMAIN t /\ j \in added
      BY <1>17, <1>18, <1>19, <1>20, <2>3, <3>3
    <3>4. CASE i \in added /\ j \in DOMAIN t
      BY <1>17, <1>18, <1>19, <1>20, <2>3, <3>4
    <3> QED BY <1>10, <3>1, <3>2, <3>3, <3>4
  <2> QED BY <2>1, <2>2, <2>3 DEF Table
<1>23. Sids(u) = Sids(t) \cup S
  <2>1. ASSUME NEW r \in Record, r \in Sids(u) PROVE r \in Sids(t) \cup S
    <3>1. PICK i \in DOMAIN u : u[i].sid = r
      BY <1>22, <2>1, SidsAre
    <3>2. r # None
      BY RecordsFinite
    <3> QED BY <1>10, <1>17, <1>18, <1>19, <1>20, <3>1, <3>2
  <2>2. ASSUME NEW r \in Sids(t) PROVE r \in Sids(u)
    <3>1. PICK i \in DOMAIN t : t[i].sid = r
      BY SidsAre
    <3>2. r \in Record
      BY SidsAre
    <3> QED BY <1>10, <1>17, <1>22, <3>1, <3>2, SidsAre
  <2>3. ASSUME NEW r \in fresh PROVE r \in Sids(u)
    <3>1. IdOf(r) \in DOMAIN u /\ u[IdOf(r)].sid = r
      BY <1>10, <1>12, <1>18
    <3> QED BY <1>3, <1>22, <3>1, SidsAre
  <2> QED BY <1>3, <1>19, <1>22, <2>1, <2>2, <2>3, SidsAre
<1>24. ASSUME NEW i \in DOMAIN u, u[i].sid \in S PROVE u[i].ver = Ver(log, u[i].sid, at)
  <2>1. CASE i \in DOMAIN t
    <3>1. i \in known
      BY <1>17, <1>24, <2>1
    <3> QED BY <1>14, <1>17, <3>1
  <2>2. CASE i \in added
    BY <1>16, <2>2
  <2> QED BY <1>10, <2>1, <2>2
<1>25. ASSUME NEW i \in DOMAIN u, u[i].sid \notin S PROVE i \in DOMAIN t /\ u[i].ver = t[i].ver
  <2>1. i \in DOMAIN t
    BY <1>10, <1>18, <1>19, <1>25
  <2>2. i \notin known
    BY <1>17, <1>25, <2>1
  <2> QED BY <1>15, <2>1, <2>2
<1>26. DOMAIN t \subseteq DOMAIN u
  BY <1>10
<1> HIDE DEF known
<1> QED BY <1>17, <1>22, <1>23, <1>24, <1>25, <1>26 DEF u

LEMMA DeleteIs ==
  ASSUME NEW t, Table(t), NEW ids
  PROVE  LET u == Delete(t, ids) IN
         /\ Table(u) /\ DOMAIN u = DOMAIN t \ ids /\ \A i \in DOMAIN u : u[i] = t[i]
         /\ Sids(u) \subseteq Sids(t)
         /\ \A r \in Sids(t) : r \in Sids(u) \/ (RowOf(t, r) \in ids /\ RowOf(t, r) \in DOMAIN t)
<1> DEFINE u == Delete(t, ids)
<1>1. DOMAIN u = DOMAIN t \ ids /\ \A i \in DOMAIN u : u[i] = t[i]
  BY DEF Delete
<1> HIDE DEF u
<1>2. Table(u)
  BY <1>1 DEF Table
<1>3. Sids(u) \subseteq Sids(t)
  BY <1>1 DEF Sids
<1>4. ASSUME NEW r \in Sids(t), RowOf(t, r) \notin ids PROVE r \in Sids(u)
  <2>1. RowOf(t, r) \in DOMAIN u /\ u[RowOf(t, r)].sid = r /\ r \in Record
    BY <1>1, <1>4, SidsAre
  <2> QED BY <1>2, <2>1, SidsAre
<1>5. \A r \in Sids(t) : RowOf(t, r) \in DOMAIN t
  BY SidsAre
<1> QED BY <1>1, <1>2, <1>3, <1>4, <1>5 DEF u
-----------------------------------------------------------------------------
(* What holds at every step. *)

\* A token the server has given, or the empty one.
Issued(t) ==
  /\ t \in Token
  /\ t.k = "none" => t = NoToken
  /\ t.k = "state" => t = StateToken(t.n) /\ t.n <= Now
  /\ t.k = "base" => t.query <= Listing(log, Now)

Typed ==
  /\ kind \in SyncKinds
  /\ log \in Seq(Entry(Record)) /\ Now <= MaxLog /\ Final(log)
  /\ oldest \in 0..Now /\ stuck \in BOOLEAN
  /\ Table(rows)
  /\ Issued(wm) /\ Issued(tok) /\ Issued(page.new)
  /\ pc \in {"idle", "fetch", "apply", "scan", "save"}
  /\ resync \in BOOLEAN /\ page \in Page /\ keep \subseteq Record
  /\ after \in Nat /\ stale \subseteq Nat
  /\ faults \in 0..MaxFaults /\ from \in -1..Now
  /\ torn \subseteq Record /\ buried \subseteq Record

InHand == pc \in {"apply", "scan", "save"}
\* The page at hand is of a baseline listing, or of changes.
Baseline == InHand /\ (resync \/ tok.k # "state")
Changes  == InHand /\ ~resync /\ tok.k = "state"

\* How a cycle's locals go together.
Placed ==
  /\ ~resync /\ pc # "idle" => tok = wm
  /\ resync => wm.k = "state" /\ pc # "idle"
  /\ pc = "scan" => resync
  /\ resync /\ pc = "fetch" => tok.k # "state" /\ (tok.k = "none" => keep = {})
  /\ resync /\ pc \in {"scan", "save"} => ~page.more
  /\ pc # "apply" => Left(page) = {}
  /\ pc # "scan" /\ ~(pc = "save" /\ resync) => after = None /\ stale = {}
  /\ InHand \/ wm.k # "none" => from # -1
  /\ from = -1 => Sids(rows) = {}

\* Rows and pages say what has been so.
Truthful ==
  /\ \A i \in DOMAIN rows : rows[i].sid # None => Held(log, rows[i].sid, rows[i].ver)
  /\ \A i \in DOMAIN rows : rows[i].sid = None => kind = "message"
  /\ \A r \in buried : Dead(log, r, Now)
  /\ InHand =>
       /\ page.at <= Now
       /\ wm.k = "state" => wm.n <= page.at
       /\ \A r \in page.created \cup page.updated : Alive(log, r, page.at) /\ r \notin buried
       /\ \A r \in page.destroyed : Dead(log, r, Now)
       /\ \A i \in DOMAIN rows : rows[i].sid # None => rows[i].ver <= page.at

\* What a baseline listing has come across.
Found == IF resync THEN keep ELSE Sids(rows) \cup page.created

\* A resume marker stands for what comes before it, while records are neither made
\* nor destroyed; the last page, for all there was.
Reaches(t, S) == t.k = "base" /\ t.query = Listing(log, Now) => Newest(AliveNow, t.n) \subseteq S
ListingKept ==
  /\ Reaches(wm, Sids(rows))
  /\ resync => keep \subseteq Sids(rows) \cup page.created
  /\ resync /\ pc = "fetch" => Reaches(tok, keep)
  /\ Baseline =>
       /\ page.updated = {} /\ page.destroyed = {} /\ page.created \subseteq Found
       /\ from <= page.at
       /\ page.more => page.new.k = "base" /\ Reaches(page.new, Found)
       /\ ~page.more => /\ page.new = StateToken(page.at)
                        /\ \A r \in AliveNow : Ver(log, r, page.at) # 0 => r \in Found

\* What the listing under way has listed is no older than its start.
Fresh ==
  /\ wm.k # "state" => \A i \in DOMAIN rows : rows[i].sid # None => rows[i].ver >= Ver(log, rows[i].sid, from)
  /\ resync => \A i \in DOMAIN rows : rows[i].sid \in keep \ page.created => rows[i].ver >= Ver(log, rows[i].sid, from)

\* Behind the scan's cursor are listed rows, and those yet to delete, which are of
\* destroyed records.
Scanning ==
  /\ \A i \in stale \cap DOMAIN rows : rows[i].sid \notin keep \cup {None} /\ Dead(log, rows[i].sid, Now)
  /\ pc = "scan" => \A i \in DOMAIN rows : i <= after /\ i \notin stale => rows[i].sid \in keep \cup {None}
  /\ pc = "save" /\ resync => \A i \in DOMAIN rows : rows[i].sid \in keep \cup {None}

\* What a page of changes has yet to do for the rows to be abreast of its state.
Changing ==
  Changes =>
    /\ page.new.k = "state" /\ tok.n <= page.new.n /\ page.new.n <= page.at
    /\ \A r \in page.created \cup page.updated : Ver(log, r, page.new.n) # 0
    /\ \A r \in AliveNow : Alive(log, r, page.new.n) => r \in Sids(rows) \cup page.created \cup page.updated
    /\ \A i \in DOMAIN rows :
         /\ rows[i].sid \notin Torn \cup {None} \cup Left(page) => Abreast(i, page.new.n)
         /\ rows[i].sid \notin torn \cup {None} => Ver(log, rows[i].sid, page.new.n) # 0

\* Between pages the watermark has seen every record there is a row of.
Seen ==
  wm.k = "state" /\ ~resync /\ ~InHand =>
    \A i \in DOMAIN rows : rows[i].sid \notin torn \cup {None} => Ver(log, rows[i].sid, wm.n) # 0

Cycling ==
  /\ Typed /\ Placed /\ Truthful /\ ListingKept /\ Fresh
  /\ Scanning /\ Changing /\ Seen /\ WatermarkHonest

LEMMA LogFacts ==
  ASSUME Typed
  PROVE  /\ Len(log) \in Nat /\ Now = Len(log) /\ DOMAIN log = 1..Len(log)
         /\ AliveNow \subseteq Record
         /\ \A r \in Record : r \in AliveNow <=> Alive(log, r, Len(log))
         /\ page.at \in Nat /\ page.more \in BOOLEAN /\ page.new \in Token
         /\ page.created \subseteq Record /\ page.updated \subseteq Record /\ page.destroyed \subseteq Record
         /\ wm.n \in Nat /\ tok.n \in Nat /\ page.new.n \in Nat
         /\ \A i \in DOMAIN rows : rows[i].ver \in Nat
<1>1. Len(log) \in Nat /\ DOMAIN log = 1..Len(log)
  BY DEF Typed
<1>2. AliveNow \subseteq Record /\ \A r \in Record : r \in AliveNow <=> Alive(log, r, Len(log))
  BY DEF AliveNow, Now
<1>3. /\ page.at \in Nat /\ page.more \in BOOLEAN /\ page.new \in Token
      /\ page.created \subseteq Record /\ page.updated \subseteq Record /\ page.destroyed \subseteq Record
  BY DEF Typed, Page
<1>4. wm.n \in Nat /\ tok.n \in Nat /\ page.new.n \in Nat
  BY DEF Typed, Issued, Token
<1>5. \A i \in DOMAIN rows : rows[i].ver \in Nat
  BY DEF Typed, Table, Row
<1> QED BY <1>1, <1>2, <1>3, <1>4, <1>5 DEF Now

-----------------------------------------------------------------------------
(* Applying a page. *)

\* What is left of a page after a chunk.
Shrinks(p, q, chunk) ==
  /\ q \in Page /\ q.at = p.at /\ q.new = p.new /\ q.more = p.more
  /\ q.created \subseteq p.created /\ q.updated \subseteq p.updated /\ q.destroyed \subseteq p.destroyed
  /\ p.created \subseteq q.created \cup chunk /\ p.updated \subseteq q.updated \cup chunk
  /\ p.destroyed \subseteq q.destroyed \cup chunk

\* The steps' frame: a chunk is written and the cycle goes on with what is left.
Applies(chunk) ==
  /\ pc = "apply" /\ Shrinks(page, page', chunk) /\ Continue(page')
  /\ UNCHANGED <<kind, server, wm, resync, keep, after, stale, faults, from, torn>>

LEMMA GoesOn ==
  ASSUME Cycling, NEW chunk, Applies(chunk)
  PROVE  /\ UNCHANGED <<kind, log, oldest, stuck, wm, resync, keep, after, stale, faults, from, torn>>
         /\ Now' = Now /\ AliveNow' = AliveNow
         /\ page' \in Page /\ page'.at = page.at /\ page'.new = page.new /\ page'.more = page.more
         /\ after = None /\ stale = {}
         /\ pc' \in {"apply", "save", "fetch", "scan"}
         /\ pc' = "apply" <=> Left(page') # {}
         /\ pc' = "save" => ~resync
         /\ pc' = "fetch" => resync /\ page.more
         /\ pc' = "scan" => resync /\ ~page.more
         /\ ~resync => tok' = tok
         /\ tok' = tok \/ (resync /\ tok' = page.new)
         /\ pc' = "fetch" => tok' = page.new
         /\ InHand /\ InHand' = (pc' # "fetch")
         /\ Baseline' => Baseline
         /\ Changes' => Changes
         /\ resync => Baseline
<1> USE DEF server, cycle
<1>1. /\ UNCHANGED <<kind, log, oldest, stuck, wm, resync, keep, after, stale, faults, from, torn>>
      /\ page' \in Page /\ page'.at = page.at /\ page'.new = page.new /\ page'.more = page.more
      /\ pc = "apply"
  BY DEF Applies, Shrinks
<1>2. Now' = Now /\ AliveNow' = AliveNow
  BY <1>1 DEF Now, AliveNow
<1>3. resync \in BOOLEAN
  BY DEF Cycling, Typed
<1>4. pc' = AfterPage(page') /\ tok' = (IF resync /\ Left(page') = {} THEN page'.new ELSE tok)
  BY DEF Applies, Continue
<1>5. /\ pc' \in {"apply", "save", "fetch", "scan"}
      /\ pc' = "apply" <=> Left(page') # {}
      /\ pc' = "save" => ~resync
      /\ pc' = "fetch" => resync /\ page'.more /\ Left(page') = {}
      /\ pc' = "scan" => resync /\ ~page'.more
  BY <1>3, <1>4 DEF AfterPage
<1>6. after = None /\ stale = {}
  BY <1>1 DEF Cycling, Placed
<1>7. InHand /\ InHand' = (pc' # "fetch")
  BY <1>1, <1>5 DEF InHand
<1>8. ~resync => tok' = tok
  BY <1>4
<1>9. (Baseline' => Baseline) /\ (Changes' => Changes) /\ (resync => Baseline)
  BY <1>1, <1>7, <1>8 DEF Baseline, Changes
<1>10. tok' = tok \/ (resync /\ tok' = page.new)
  BY <1>1, <1>4
<1>11. pc' = "fetch" => tok' = page.new
  BY <1>1, <1>4, <1>5
<1> QED BY <1>1, <1>2, <1>5, <1>6, <1>7, <1>8, <1>9, <1>10, <1>11

LEMMA UpsertTyped ==
  ASSUME Cycling, NEW chunk, chunk \subseteq page.created \cup page.updated, Applies(chunk),
         Commit(Upsert(rows, chunk, page.at))
  PROVE  /\ Typed' /\ Placed' /\ buried' = buried
         /\ DOMAIN rows \subseteq DOMAIN rows' /\ Sids(rows') = Sids(rows) \cup chunk
         /\ \A i \in DOMAIN rows : rows'[i].sid = rows[i].sid
         /\ \A i \in DOMAIN rows' : rows'[i].sid \in chunk => rows'[i].ver = Ver(log, rows'[i].sid, page.at)
         /\ \A i \in DOMAIN rows' : rows'[i].sid \notin chunk => i \in DOMAIN rows /\ rows'[i].ver = rows[i].ver
<1>1. /\ page.at \in Nat /\ chunk \in SUBSET Record /\ Table(rows)
      /\ page.created \subseteq Record /\ page.updated \subseteq Record
  BY LogFacts DEF Cycling, Typed
<1>2. rows' = Upsert(rows, chunk, page.at) /\ buried' = buried \cup (Sids(rows) \ Sids(rows'))
  BY DEF Commit
<1>3. /\ Table(rows') /\ DOMAIN rows \subseteq DOMAIN rows' /\ Sids(rows') = Sids(rows) \cup chunk
      /\ \A i \in DOMAIN rows : rows'[i].sid = rows[i].sid
      /\ \A i \in DOMAIN rows' : rows'[i].sid \in chunk => rows'[i].ver = Ver(log, rows'[i].sid, page.at)
      /\ \A i \in DOMAIN rows' : rows'[i].sid \notin chunk => i \in DOMAIN rows /\ rows'[i].ver = rows[i].ver
  <2> DEFINE u == Upsert(rows, chunk, page.at)
  <2>1. /\ Table(u) /\ DOMAIN rows \subseteq DOMAIN u /\ Sids(u) = Sids(rows) \cup chunk
        /\ \A i \in DOMAIN rows : u[i].sid = rows[i].sid
        /\ \A i \in DOMAIN u : u[i].sid \in chunk => u[i].ver = Ver(log, u[i].sid, page.at)
        /\ \A i \in DOMAIN u : u[i].sid \notin chunk => i \in DOMAIN rows /\ u[i].ver = rows[i].ver
    BY <1>1, UpsertIs
  <2> HIDE DEF u
  <2>2. rows' = u
    BY <1>2 DEF u
  <2> QED BY <2>1, <2>2
<1>4. buried' = buried
  BY <1>2, <1>3
<1>5. Typed'
  <2>1. /\ UNCHANGED <<kind, log, oldest, stuck, wm, resync, keep, after, stale, faults, from, torn>>
        /\ Now' = Now /\ page' \in Page /\ page'.new = page.new
        /\ pc' \in {"apply", "save", "fetch", "scan"} /\ (tok' = tok \/ tok' = page.new)
    BY GoesOn
  <2>2. Issued(wm)' /\ Issued(tok)' /\ Issued(page.new)'
    BY <2>1 DEF Cycling, Typed, Issued
  <2> QED BY <1>3, <1>4, <2>1, <2>2 DEF Cycling, Typed
<1>6. Placed'
  <2>1. /\ UNCHANGED <<wm, resync, keep, after, stale, from>>
        /\ page'.new = page.new /\ page'.more = page.more
        /\ after = None /\ stale = {} /\ InHand
        /\ pc' \in {"apply", "save", "fetch", "scan"}
        /\ pc' = "apply" <=> Left(page') # {}
        /\ pc' = "save" => ~resync
        /\ pc' = "fetch" => resync /\ page.more
        /\ pc' = "scan" => resync /\ ~page.more
        /\ ~resync => tok' = tok
        /\ pc' = "fetch" => tok' = page.new
        /\ resync => Baseline
    BY GoesOn
  <2>2. pc = "apply" /\ (resync => wm.k = "state") /\ (~resync => tok = wm) /\ from # -1
    BY <2>1 DEF Applies, Cycling, Placed
  <2>3. Baseline /\ page.more => page.new.k = "base"
    BY DEF Cycling, ListingKept
  <2> QED BY <2>1, <2>2, <2>3 DEF Placed
<1> QED BY <1>3, <1>4, <1>5, <1>6

LEMMA UpsertKeeps ==
  ASSUME Cycling, NEW chunk, chunk \subseteq page.created \cup page.updated, Applies(chunk),
         Commit(Upsert(rows, chunk, page.at))
  PROVE  Cycling'
<1> DEFINE at == page.at
<1>1. /\ UNCHANGED <<kind, log, oldest, stuck, wm, resync, keep, after, stale, faults, from, torn>>
      /\ Now' = Now /\ AliveNow' = AliveNow
      /\ page' \in Page /\ page'.at = page.at /\ page'.new = page.new /\ page'.more = page.more
      /\ after = None /\ stale = {}
      /\ pc' \in {"apply", "save", "fetch", "scan"}
      /\ pc' = "save" => ~resync
      /\ pc' = "fetch" => resync /\ page.more
      /\ pc' = "scan" => resync /\ ~page.more
      /\ ~resync => tok' = tok
      /\ pc' = "fetch" => tok' = page.new
      /\ InHand /\ InHand' = (pc' # "fetch")
      /\ Baseline' => Baseline
      /\ Changes' => Changes
      /\ resync => Baseline
  BY GoesOn
<1>2. /\ Typed' /\ Placed' /\ buried' = buried
      /\ DOMAIN rows \subseteq DOMAIN rows' /\ Sids(rows') = Sids(rows) \cup chunk
      /\ \A i \in DOMAIN rows : rows'[i].sid = rows[i].sid
      /\ \A i \in DOMAIN rows' : rows'[i].sid \in chunk => rows'[i].ver = Ver(log, rows'[i].sid, page.at)
      /\ \A i \in DOMAIN rows' : rows'[i].sid \notin chunk => i \in DOMAIN rows /\ rows'[i].ver = rows[i].ver
  BY UpsertTyped
<1>3. /\ page'.created \subseteq page.created /\ page'.updated \subseteq page.updated /\ page'.destroyed \subseteq page.destroyed
      /\ page.created \subseteq page'.created \cup chunk /\ page.updated \subseteq page'.updated \cup chunk
      /\ page.destroyed \subseteq page'.destroyed \cup chunk
  BY DEF Applies, Shrinks
<1>4. /\ Len(log) \in Nat /\ Now = Len(log) /\ DOMAIN log = 1..Len(log) /\ at \in 0..Len(log)
      /\ from \in Int /\ wm.n \in Nat /\ page.new.n \in Nat
      /\ None \notin chunk /\ chunk \subseteq Record
      /\ \A i \in DOMAIN rows : rows[i].ver \in Nat
  BY <1>1, LogFacts, RecordsFinite DEF Cycling, Truthful, Typed
<1>5. \A r \in chunk : Alive(log, r, at) /\ Held(log, r, Ver(log, r, at)) /\ Ver(log, r, at) \in 1..at
  <2>1. \A r \in chunk : Alive(log, r, at)
    BY <1>1 DEF Cycling, Truthful
  <2> QED BY <1>4, <2>1, AliveIsHeld
<1>6. \A i \in DOMAIN rows' : rows'[i].sid \notin chunk =>
        i \in DOMAIN rows /\ rows'[i].sid = rows[i].sid /\ rows'[i].ver = rows[i].ver
  BY <1>2
<1>7. \A r, n : n \in Int /\ n <= at => Ver(log, r, n) <= Ver(log, r, at)
  BY <1>4, VerGrows
<1>8. Truthful'
  <2>1. /\ \A i \in DOMAIN rows : rows[i].sid # None => Held(log, rows[i].sid, rows[i].ver)
        /\ \A i \in DOMAIN rows : rows[i].sid = None => kind = "message"
        /\ \A r \in buried : Dead(log, r, Now)
        /\ page.at <= Now
        /\ wm.k = "state" => wm.n <= page.at
        /\ \A r \in page.created \cup page.updated : Alive(log, r, page.at) /\ r \notin buried
        /\ \A r \in page.destroyed : Dead(log, r, Now)
        /\ \A i \in DOMAIN rows : rows[i].sid # None => rows[i].ver <= page.at
    BY <1>1 DEF Cycling, Truthful
  <2>2. \A i \in DOMAIN rows' : rows'[i].sid # None => Held(log, rows'[i].sid, rows'[i].ver)
    BY <1>2, <1>5, <1>6, <2>1
  <2>3. \A i \in DOMAIN rows' : rows'[i].sid = None => kind = "message"
    BY <1>4, <1>6, <2>1
  <2>4. \A i \in DOMAIN rows' : rows'[i].sid # None => rows'[i].ver <= page.at
    BY <1>2, <1>4, <1>5, <1>6, <2>1
  <2> QED BY <1>1, <1>2, <1>3, <2>1, <2>2, <2>3, <2>4 DEF Truthful
<1>9. ListingKept'
  <2>1. Found \subseteq Found'
    BY <1>1, <1>2, <1>3 DEF Found
  <2>2. Reaches(wm, Sids(rows))'
    BY <1>1, <1>2 DEF Cycling, ListingKept, Reaches
  <2>3. (resync => keep \subseteq Sids(rows) \cup page.created)'
    BY <1>1, <1>2, <1>3 DEF Cycling, ListingKept
  <2>4. (resync /\ pc = "fetch" => Reaches(tok, keep))'
    BY <1>1 DEF Cycling, ListingKept, Reaches, Found
  <2>5. Baseline =>
          /\ page.updated = {} /\ page.destroyed = {} /\ page.created \subseteq Found
          /\ from <= page.at
          /\ page.more => page.new.k = "base" /\ Reaches(page.new, Found)
          /\ ~page.more => /\ page.new = StateToken(page.at)
                           /\ \A r \in AliveNow : Ver(log, r, page.at) # 0 => r \in Found
    BY DEF Cycling, ListingKept
  <2>6. Reaches(page.new, Found) => Reaches(page.new, Found)'
    BY <1>1, <2>1 DEF Reaches
  <2> QED BY <1>1, <1>3, <2>1, <2>2, <2>3, <2>4, <2>5, <2>6 DEF ListingKept
<1>10. Fresh'
  <2>1. Baseline => from <= at
    BY DEF Cycling, ListingKept
  <2>2. wm.k # "state" => Baseline
    BY <1>1 DEF Cycling, Placed, Baseline, InHand
  <2>3. Baseline => \A i \in DOMAIN rows' : rows'[i].sid \in chunk => rows'[i].ver >= Ver(log, rows'[i].sid, from)
    BY <1>2, <1>4, <1>5, <1>7, <2>1, VerIs
  <2>4. wm.k # "state" => \A i \in DOMAIN rows : rows[i].sid # None => rows[i].ver >= Ver(log, rows[i].sid, from)
    BY DEF Cycling, Fresh
  <2>5. resync => \A i \in DOMAIN rows : rows[i].sid \in keep \ page.created => rows[i].ver >= Ver(log, rows[i].sid, from)
    BY DEF Cycling, Fresh
  <2>6. wm.k # "state" => \A i \in DOMAIN rows' : rows'[i].sid # None => rows'[i].ver >= Ver(log, rows'[i].sid, from)
    BY <1>6, <2>2, <2>3, <2>4
  <2>7. resync => \A i \in DOMAIN rows' : rows'[i].sid \in keep \ page'.created => rows'[i].ver >= Ver(log, rows'[i].sid, from)
    BY <1>1, <1>3, <1>6, <2>3, <2>5
  <2> QED BY <1>1, <2>6, <2>7 DEF Fresh
<1>11. Scanning'
  <2>1. \A i \in DOMAIN rows' : i \in Nat \ {0}
    BY <1>2 DEF Typed, Table
  <2> QED BY <1>1, <2>1 DEF Scanning, None
<1>12. Changing'
  <2> SUFFICES ASSUME Changes'
               PROVE  Changing!2'
    BY DEF Changing
  <2>1. /\ page.new.k = "state" /\ tok.n <= page.new.n /\ page.new.n <= page.at
        /\ \A r \in page.created \cup page.updated : Ver(log, r, page.new.n) # 0
        /\ \A r \in AliveNow : Alive(log, r, page.new.n) => r \in Sids(rows) \cup page.created \cup page.updated
        /\ \A i \in DOMAIN rows :
             /\ rows[i].sid \notin Torn \cup {None} \cup Left(page) => Abreast(i, page.new.n)
             /\ rows[i].sid \notin torn \cup {None} => Ver(log, rows[i].sid, page.new.n) # 0
    BY <1>1 DEF Cycling, Changing
  <2>2. tok' = tok /\ ~resync
    BY <1>1 DEF Changes
  <2>3. Torn' = Torn
    BY <1>1, <2>2 DEF Torn
  <2>4. \A r \in AliveNow : Alive(log, r, page.new.n) => r \in Sids(rows') \cup page'.created \cup page'.updated
    BY <1>2, <1>3, <2>1
  <2>5. ASSUME NEW i \in DOMAIN rows', rows'[i].sid \notin Torn \cup {None} \cup Left(page')
        PROVE  Abreast(i, page.new.n)'
    <3>1. CASE rows'[i].sid \in chunk
      BY <1>1, <1>2, <1>4, <1>7, <2>1, <3>1 DEF Abreast
    <3>2. CASE rows'[i].sid \notin chunk
      <4>1. i \in DOMAIN rows /\ rows'[i].sid = rows[i].sid /\ rows'[i].ver = rows[i].ver
        BY <1>6, <3>2
      <4>2. rows[i].sid \notin Left(page)
        BY <1>3, <2>5, <3>2, <4>1 DEF Left
      <4> QED BY <1>1, <2>1, <2>5, <4>1, <4>2 DEF Abreast
    <3> QED BY <3>1, <3>2
  <2>6. ASSUME NEW i \in DOMAIN rows', rows'[i].sid \notin torn \cup {None}
        PROVE  Ver(log, rows'[i].sid, page.new.n) # 0
    BY <1>6, <2>1, <2>6
  <2> QED BY <1>1, <1>3, <2>1, <2>2, <2>3, <2>4, <2>5, <2>6
<1>13. Seen'
  BY <1>1 DEF Seen
<1>14. WatermarkHonest'
  <2> SUFFICES ASSUME wm.k = "state"
               PROVE  WatermarkHonest!2'
    BY <1>1 DEF WatermarkHonest
  <2>1. /\ \A r \in AliveNow : Alive(log, r, wm.n) => r \in Sids(rows)
        /\ \A i \in DOMAIN rows : rows[i].sid \notin torn \cup {None} => Abreast(i, wm.n)
    BY DEF Cycling, WatermarkHonest
  <2>2. wm.n <= at
    BY <1>1 DEF Cycling, Truthful
  <2>3. ASSUME NEW i \in DOMAIN rows', rows'[i].sid \notin torn \cup {None}
        PROVE  Abreast(i, wm.n)'
    <3>1. CASE rows'[i].sid \in chunk
      BY <1>1, <1>2, <1>4, <1>7, <2>2, <3>1 DEF Abreast
    <3>2. CASE rows'[i].sid \notin chunk
      BY <1>1, <1>6, <2>1, <2>3, <3>2 DEF Abreast
    <3> QED BY <3>1, <3>2
  <2> QED BY <1>1, <1>2, <2>1, <2>3
<1> QED BY <1>2, <1>8, <1>9, <1>10, <1>11, <1>12, <1>13, <1>14 DEF Cycling

\* A page less some of one of its lists.
LEMMA ChunkShrinks ==
  ASSUME NEW p \in Page, NEW chunk
  PROVE  /\ Shrinks(p, [p EXCEPT !.created = @ \ chunk], chunk)
         /\ Shrinks(p, [p EXCEPT !.updated = @ \ chunk], chunk)
         /\ Shrinks(p, [p EXCEPT !.destroyed = @ \ chunk], chunk)
<1>1. Shrinks(p, [p EXCEPT !.created = @ \ chunk], chunk)
  BY DEF Shrinks, Page
<1>2. Shrinks(p, [p EXCEPT !.updated = @ \ chunk], chunk)
  BY DEF Shrinks, Page
<1>3. Shrinks(p, [p EXCEPT !.destroyed = @ \ chunk], chunk)
  BY DEF Shrinks, Page
<1> QED BY <1>1, <1>2, <1>3

\* Each chunk of the records made and changed is an upsert.
LEMMA ChunkApplies ==
  ASSUME Cycling, ApplyCreated \/ ApplyUpdated
  PROVE  \E chunk \in SUBSET (page.created \cup page.updated) :
           Applies(chunk) /\ Commit(Upsert(rows, chunk, page.at))
<1>1. page \in Page
  BY DEF Cycling, Typed
<1>2. CASE ApplyCreated
  <2> DEFINE chunk == Newest(page.created, ChunkSize)
  <2>1. /\ pc = "apply" /\ Commit(Upsert(rows, chunk, page.at))
        /\ Continue([page EXCEPT !.created = @ \ chunk])
        /\ UNCHANGED <<kind, server, wm, resync, keep, after, stale, faults, from, torn>>
    BY <1>2 DEF ApplyCreated
  <2>2. chunk \subseteq page.created \cup page.updated
    BY DEF Newest
  <2> HIDE DEF chunk
  <2>3. page' = [page EXCEPT !.created = @ \ chunk]
    BY <2>1 DEF Continue
  <2>4. Shrinks(page, page', chunk) /\ Continue(page')
    BY <1>1, <2>1, <2>3, ChunkShrinks
  <2> QED BY <2>1, <2>2, <2>4 DEF Applies
<1>3. CASE ApplyUpdated
  <2> DEFINE chunk == Newest(page.updated, ChunkSize)
  <2>1. /\ pc = "apply" /\ Commit(Upsert(rows, chunk, page.at))
        /\ Continue([page EXCEPT !.updated = @ \ chunk])
        /\ UNCHANGED <<kind, server, wm, resync, keep, after, stale, faults, from, torn>>
    BY <1>3 DEF ApplyUpdated
  <2>2. chunk \subseteq page.created \cup page.updated
    BY DEF Newest
  <2> HIDE DEF chunk
  <2>3. page' = [page EXCEPT !.updated = @ \ chunk]
    BY <2>1 DEF Continue
  <2>4. Shrinks(page, page', chunk) /\ Continue(page')
    BY <1>1, <2>1, <2>3, ChunkShrinks
  <2> QED BY <2>1, <2>2, <2>4 DEF Applies
<1> QED BY <1>2, <1>3

LEMMA DeletesOf ==
  ASSUME Cycling, NEW S, Commit(DeleteRecords(rows, S))
  PROVE  /\ Table(rows') /\ DOMAIN rows' \subseteq DOMAIN rows /\ Sids(rows') \subseteq Sids(rows)
         /\ \A i \in DOMAIN rows' : rows'[i] = rows[i] /\ rows[i].sid \notin S
         /\ \A i \in DOMAIN rows \ DOMAIN rows' : rows[i].sid \in S
         /\ \A r \in Sids(rows) : r \in Sids(rows') \/ r \in S
         /\ \A r \in buried' : r \in buried \/ (r \in S /\ r \in Record)
<1> DEFINE ids == {i \in DOMAIN rows : rows[i].sid \in S}
           u == Delete(rows, ids)
<1>1. rows' = u /\ buried' = buried \cup (Sids(rows) \ Sids(rows'))
  BY DEF Commit, DeleteRecords
<1>2. Table(rows)
  BY DEF Cycling, Typed
<1>3. /\ Table(u) /\ DOMAIN u = DOMAIN rows \ ids /\ \A i \in DOMAIN u : u[i] = rows[i]
      /\ Sids(u) \subseteq Sids(rows)
      /\ \A r \in Sids(rows) : r \in Sids(u) \/ (RowOf(rows, r) \in ids /\ RowOf(rows, r) \in DOMAIN rows)
  BY <1>2, DeleteIs
<1>4. \A r \in Sids(rows) : rows[RowOf(rows, r)].sid = r /\ r \in Record
  BY <1>2, SidsAre
<1> HIDE DEF u
<1> QED BY <1>1, <1>3, <1>4

LEMMA DestroyedKeeps ==
  ASSUME Cycling, ApplyDestroyed
  PROVE  Cycling' /\ \A i \in DOMAIN rows \ DOMAIN rows' : Dead(log, rows[i].sid, Now)
<1> DEFINE chunk == Newest(page.destroyed, ChunkSize)
<1>1. /\ pc = "apply" /\ page.created = {} /\ page.updated = {} /\ page.destroyed # {}
      /\ Commit(DeleteRecords(rows, chunk))
      /\ Continue([page EXCEPT !.destroyed = @ \ chunk])
      /\ UNCHANGED <<kind, server, wm, resync, keep, after, stale, faults, from, torn>>
  BY DEF ApplyDestroyed
<1>2. page \in Page
  BY DEF Cycling, Typed
<1>3. chunk \subseteq page.destroyed
  BY DEF Newest
<1> HIDE DEF chunk
<1>4. page' = [page EXCEPT !.destroyed = @ \ chunk]
  BY <1>1 DEF Continue
<1>5. Shrinks(page, page', chunk) /\ Continue(page')
  BY <1>1, <1>2, <1>4, ChunkShrinks
<1>6. Applies(chunk)
  BY <1>1, <1>5 DEF Applies
<1>7. /\ UNCHANGED <<kind, log, oldest, stuck, wm, resync, keep, after, stale, faults, from, torn>>
      /\ Now' = Now /\ AliveNow' = AliveNow
      /\ page' \in Page /\ page'.at = page.at /\ page'.new = page.new /\ page'.more = page.more
      /\ after = None /\ stale = {}
      /\ pc' \in {"apply", "save", "fetch", "scan"}
      /\ pc' = "apply" <=> Left(page') # {}
      /\ pc' = "save" => ~resync
      /\ pc' = "fetch" => resync /\ page.more
      /\ pc' = "scan" => resync /\ ~page.more
      /\ ~resync => tok' = tok
      /\ pc' = "fetch" => tok' = page.new
      /\ InHand /\ InHand' = (pc' # "fetch")
      /\ Baseline' => Baseline
      /\ Changes' => Changes
  BY <1>6, GoesOn
<1>8. ~Baseline
  BY <1>1 DEF Cycling, ListingKept
<1>9. ~resync /\ tok.k = "state" /\ Changes /\ wm = tok /\ tok' = tok /\ ~Baseline' /\ pc' \in {"apply", "save"}
  <2>1. ~resync /\ tok.k = "state" /\ resync \in BOOLEAN
    BY <1>7, <1>8 DEF Baseline, Cycling, Typed
  <2> QED BY <1>1, <1>7, <1>8, <2>1 DEF Changes, Cycling, Placed
<1>10. /\ Table(rows') /\ DOMAIN rows' \subseteq DOMAIN rows /\ Sids(rows') \subseteq Sids(rows)
       /\ \A i \in DOMAIN rows' : rows'[i] = rows[i] /\ rows[i].sid \notin chunk
       /\ \A i \in DOMAIN rows \ DOMAIN rows' : rows[i].sid \in chunk
       /\ \A r \in Sids(rows) : r \in Sids(rows') \/ r \in chunk
       /\ \A r \in buried' : r \in buried \/ (r \in chunk /\ r \in Record)
  BY <1>1, DeletesOf
<1>11. /\ page'.created = {} /\ page'.updated = {} /\ page'.destroyed \subseteq page.destroyed
       /\ page.destroyed \subseteq page'.destroyed \cup chunk
  BY <1>1, <1>5 DEF Shrinks
<1>12. \A r \in chunk : Dead(log, r, Now) /\ ~Alive(log, r, Now) /\ r \notin AliveNow
  <2>1. \A r \in chunk : Dead(log, r, Now)
    BY <1>3, <1>7 DEF Cycling, Truthful
  <2> QED BY <2>1, AliveOrDead DEF AliveNow
<1>13. Typed'
  <2>1. Issued(wm)' /\ Issued(tok)' /\ Issued(page.new)'
    BY <1>7, <1>9 DEF Cycling, Typed, Issued
  <2> QED BY <1>7, <1>10, <2>1 DEF Cycling, Typed
<1>14. Placed'
  BY <1>1, <1>7, <1>9 DEF Cycling, Placed
<1>15. Truthful'
  BY <1>7, <1>10, <1>11, <1>12 DEF Cycling, Truthful
<1>16. ListingKept' /\ Fresh'
  <2>1. wm'.k = "state" /\ ~resync'
    BY <1>7, <1>9
  <2> QED BY <1>9, <2>1 DEF ListingKept, Reaches, Fresh
<1>17. Scanning'
  BY <1>7, <1>9 DEF Scanning
<1>18. Changing'
  <2>1. /\ page.new.k = "state" /\ tok.n <= page.new.n /\ page.new.n <= page.at
        /\ \A r \in page.created \cup page.updated : Ver(log, r, page.new.n) # 0
        /\ \A r \in AliveNow : Alive(log, r, page.new.n) => r \in Sids(rows) \cup page.created \cup page.updated
        /\ \A i \in DOMAIN rows :
             /\ rows[i].sid \notin Torn \cup {None} \cup Left(page) => Abreast(i, page.new.n)
             /\ rows[i].sid \notin torn \cup {None} => Ver(log, rows[i].sid, page.new.n) # 0
    BY <1>9 DEF Cycling, Changing
  <2>2. Torn' = Torn
    BY <1>7, <1>9 DEF Torn
  <2>3. \A r \in AliveNow : Alive(log, r, page.new.n) => r \in Sids(rows')
    BY <1>1, <1>10, <1>12, <2>1
  <2>4. ASSUME NEW i \in DOMAIN rows', rows'[i].sid \notin Torn \cup {None} \cup Left(page')
        PROVE  Abreast(i, page.new.n)'
    <3>1. i \in DOMAIN rows /\ rows'[i] = rows[i] /\ rows[i].sid \notin chunk
      BY <1>10
    <3>2. rows[i].sid \notin Left(page)
      BY <1>1, <1>11, <2>4, <3>1 DEF Left
    <3>3. Abreast(i, page.new.n)
      BY <2>1, <2>4, <3>1, <3>2
    <3> QED BY <1>7, <3>1, <3>3 DEF Abreast
  <2>5. \A i \in DOMAIN rows' : rows'[i].sid \notin torn \cup {None} => Ver(log, rows'[i].sid, page.new.n) # 0
    BY <1>10, <2>1
  <2> QED BY <1>7, <1>9, <1>11, <2>1, <2>2, <2>3, <2>4, <2>5 DEF Changing
<1>19. Seen'
  BY <1>7, <1>9 DEF Seen
<1>20. WatermarkHonest'
  <2>1. /\ \A r \in AliveNow : Alive(log, r, wm.n) => r \in Sids(rows)
        /\ \A i \in DOMAIN rows : rows[i].sid \notin torn \cup {None} => Abreast(i, wm.n)
    BY <1>9 DEF Cycling, WatermarkHonest
  <2>2. \A r \in AliveNow : Alive(log, r, wm.n) => r \in Sids(rows')
    BY <1>10, <1>12, <2>1
  <2>3. ASSUME NEW i \in DOMAIN rows', rows'[i].sid \notin torn \cup {None}
        PROVE  Abreast(i, wm.n)'
    BY <1>7, <1>10, <2>1, <2>3 DEF Abreast
  <2> QED BY <1>7, <2>2, <2>3 DEF WatermarkHonest
<1>21. \A i \in DOMAIN rows \ DOMAIN rows' : Dead(log, rows[i].sid, Now)
  BY <1>10, <1>12
<1> QED BY <1>13, <1>14, <1>15, <1>16, <1>17, <1>18, <1>19, <1>20, <1>21 DEF Cycling
-----------------------------------------------------------------------------
(* The ends of a cycle, and its stale scan. *)

LEMMA BeginKeeps ==
  ASSUME Cycling, Begin
  PROVE  Cycling'
<1>1. /\ pc = "idle" /\ pc' = "fetch" /\ tok' = wm
      /\ UNCHANGED <<kind, log, oldest, stuck, rows, wm, resync, page, keep, after, stale, faults, from, torn, buried>>
  BY DEF Begin, server
<1>2. ~resync /\ ~InHand /\ ~InHand' /\ Now' = Now /\ AliveNow' = AliveNow /\ resync \in BOOLEAN
  BY <1>1 DEF Cycling, Placed, Typed, InHand, Now, AliveNow
<1>3. Typed'
  <2>1. Issued(wm)' /\ Issued(tok)' /\ Issued(page.new)'
    BY <1>1, <1>2 DEF Cycling, Typed, Issued
  <2> QED BY <1>1, <1>2, <2>1 DEF Cycling, Typed, Table
<1>4. Placed'
  BY <1>1, <1>2 DEF Cycling, Placed, Left, Sids
<1>5. Truthful'
  BY <1>1, <1>2 DEF Cycling, Truthful
<1>6. ListingKept'
  BY <1>1, <1>2 DEF Cycling, ListingKept, Reaches, Baseline, Sids
<1>7. Fresh' /\ Scanning' /\ Changing' /\ Seen'
  BY <1>1, <1>2 DEF Cycling, Fresh, Scanning, Changing, Changes, Seen
<1>8. WatermarkHonest'
  BY <1>1, <1>2 DEF Cycling, WatermarkHonest, Abreast, Sids
<1> QED BY <1>3, <1>4, <1>5, <1>6, <1>7, <1>8 DEF Cycling

LEMMA ResetKeeps ==
  ASSUME Cycling, FetchReset
  PROVE  Cycling'
<1>1. /\ pc = "fetch" /\ tok.k = "state" /\ resync' = TRUE /\ tok' = NoToken /\ keep' = {}
      /\ UNCHANGED <<kind, log, oldest, stuck, rows, wm, pc, page, after, stale, faults, from, torn, buried>>
  BY DEF FetchReset, StateReset, server
<1>2. /\ ~resync /\ wm = tok /\ ~InHand /\ ~InHand' /\ Now' = Now /\ AliveNow' = AliveNow
      /\ resync \in BOOLEAN
  BY <1>1 DEF Cycling, Placed, Typed, InHand, Now, AliveNow
<1>3. tok'.k = "none" /\ tok' \in Token
  BY <1>1 DEF NoToken, Token
<1>4. Typed'
  <2>1. Issued(wm)' /\ Issued(tok)' /\ Issued(page.new)'
    BY <1>1, <1>2, <1>3 DEF Cycling, Typed, Issued
  <2> QED BY <1>1, <1>2, <2>1 DEF Cycling, Typed, Table
<1>5. Placed'
  BY <1>1, <1>2, <1>3 DEF Cycling, Placed, Left, Sids
<1>6. Truthful'
  BY <1>1, <1>2 DEF Cycling, Truthful
<1>7. ListingKept'
  BY <1>1, <1>2, <1>3 DEF Cycling, ListingKept, Reaches, Baseline, Sids
<1>8. Fresh' /\ Changing' /\ Seen'
  BY <1>1, <1>2 DEF Cycling, Fresh, Changing, Changes, Seen
<1>9. Scanning'
  BY <1>1, <1>2 DEF Cycling, Placed, Scanning
<1>10. WatermarkHonest'
  BY <1>1, <1>2 DEF Cycling, WatermarkHonest, Abreast, Sids
<1> QED BY <1>4, <1>5, <1>6, <1>7, <1>8, <1>9, <1>10 DEF Cycling

\* A listing always moves on.
LEMMA ListingAdvances ==
  ASSUME Cycling, tok.k # "state", NEW p \in Answers(tok)
  PROVE  Advanced(p)
<1> SUFFICES ASSUME p.more, p.new = tok PROVE FALSE
  BY DEF Advanced
<1>1. p = BaselineMailboxes \/ p = ListFrom(tok.n) \/ (p = ListFrom(0) /\ tok.k = "base" /\ tok.query # Listing(log, Now))
  BY DEF Answers, BaselineMessages
<1>2. p # BaselineMailboxes
  BY DEF BaselineMailboxes, NoPage
<1>3. PICK n \in Nat : p = ListFrom(n) /\ (n = tok.n \/ (tok.k = "base" /\ tok.query # Listing(log, Now)))
  BY <1>1, <1>2, LogFacts DEF Cycling
<1> DEFINE listed == Newest(AliveNow, n + PageSize) \ Newest(AliveNow, n)
           next == n + Cardinality(listed)
           last == listed = {} \/ next >= Cardinality(AliveNow)
<1>4. p.more = ~last /\ p.new = IF last THEN StateToken(Now) ELSE BaseToken(next, Listing(log, Now))
  BY <1>3 DEF ListFrom, NoPage
<1>5. Cardinality(listed) \in Nat /\ (listed # {} => Cardinality(listed) > 0)
  BY PageOfListing, LogFacts DEF Cycling
<1> HIDE DEF listed
<1>6. tok = BaseToken(next, Listing(log, Now)) /\ listed # {}
  BY <1>4
<1>7. tok.n = next /\ tok.query = Listing(log, Now)
  BY <1>6 DEF BaseToken
<1> QED BY <1>3, <1>5, <1>6, <1>7

LEMMA RefusedKeeps ==
  ASSUME Cycling, FetchRefused
  PROVE  Cycling'
<1>1. /\ pc = "fetch" /\ pc' = "idle" /\ tok' = NoToken /\ resync' = FALSE /\ page' = NoPage
      /\ keep' = {} /\ after' = None /\ stale' = {}
      /\ UNCHANGED <<kind, log, oldest, stuck, rows, wm, faults, from, torn, buried>>
  BY DEF FetchRefused, Return, server
<1>2. ~resync
  <2>1. PICK p \in Answers(tok) : ~Advanced(p)
    BY DEF FetchRefused
  <2>2. resync => tok.k # "state"
    BY <1>1 DEF Cycling, Placed
  <2> QED BY <2>1, <2>2, ListingAdvances
<1>3. /\ ~InHand /\ ~InHand' /\ Now' = Now /\ AliveNow' = AliveNow
  BY <1>1 DEF InHand, Now, AliveNow
<1>4. NoToken \in Token /\ NoToken.k = "none" /\ NoPage \in Page /\ NoPage.new = NoToken /\ Left(NoPage) = {}
  BY DEF NoToken, Token, NoPage, Page, Left
<1>5. Typed'
  <2>1. Issued(wm)' /\ Issued(tok)' /\ Issued(page.new)'
    BY <1>1, <1>3, <1>4 DEF Cycling, Typed, Issued
  <2> QED BY <1>1, <1>3, <1>4, <2>1 DEF Cycling, Typed, Table, None
<1>6. Placed'
  BY <1>1, <1>2, <1>3, <1>4 DEF Cycling, Placed, Left, Sids
<1>7. Truthful'
  BY <1>1, <1>3 DEF Cycling, Truthful
<1>8. ListingKept'
  BY <1>1, <1>3 DEF Cycling, ListingKept, Reaches, Baseline, Sids
<1>9. Fresh' /\ Scanning' /\ Changing' /\ Seen'
  BY <1>1, <1>2, <1>3 DEF Cycling, Fresh, Scanning, Changing, Changes, Seen
<1>10. WatermarkHonest'
  BY <1>1, <1>3 DEF Cycling, WatermarkHonest, Abreast, Sids
<1> QED BY <1>5, <1>6, <1>7, <1>8, <1>9, <1>10 DEF Cycling

LEMMA StopKeeps ==
  ASSUME Cycling, Stop
  PROVE  Cycling'
<1>1. /\ pc' = "idle" /\ tok' = NoToken /\ resync' = FALSE /\ page' = NoPage
      /\ keep' = {} /\ after' = None /\ stale' = {} /\ torn' = torn \cup Unseen
      /\ faults < MaxFaults /\ faults' = faults + 1
      /\ UNCHANGED <<kind, log, oldest, stuck, rows, wm, from, buried>>
  BY DEF Stop, Return, server
<1>2. ~InHand' /\ Now' = Now /\ AliveNow' = AliveNow
  BY <1>1 DEF InHand, Now, AliveNow
<1>3. NoToken \in Token /\ NoToken.k = "none" /\ NoPage \in Page /\ NoPage.new = NoToken /\ Left(NoPage) = {}
  BY DEF NoToken, Token, NoPage, Page, Left
<1>4. /\ Sids(rows) \subseteq Record /\ Unseen \subseteq Record
      /\ wm.k = "state" => \A r \in Sids(rows) \ Unseen : Ver(log, r, wm.n) # 0
      /\ \A i \in DOMAIN rows : rows[i].sid # None => rows[i].sid \in Sids(rows)
  BY SidsAre DEF Cycling, Typed, Unseen
<1>5. Typed'
  <2>1. Issued(wm)' /\ Issued(tok)' /\ Issued(page.new)'
    BY <1>1, <1>2, <1>3 DEF Cycling, Typed, Issued
  <2>2. faults' \in 0..MaxFaults
    BY <1>1, SyncSizes DEF Cycling, Typed
  <2> QED BY <1>1, <1>2, <1>3, <1>4, <2>1, <2>2 DEF Cycling, Typed, Table, None
<1>6. Placed'
  BY <1>1, <1>2, <1>3 DEF Cycling, Placed, Left, Sids
<1>7. Truthful'
  BY <1>1, <1>2 DEF Cycling, Truthful
<1>8. ListingKept'
  BY <1>1, <1>2 DEF Cycling, ListingKept, Reaches, Baseline, Sids
<1>9. Fresh' /\ Scanning' /\ Changing'
  BY <1>1, <1>2 DEF Cycling, Fresh, Scanning, Changing, Changes
<1>10. Seen'
  BY <1>1, <1>2, <1>4 DEF Seen
<1>11. WatermarkHonest'
  BY <1>1, <1>2 DEF Cycling, WatermarkHonest, Abreast, Sids
<1> QED BY <1>5, <1>6, <1>7, <1>8, <1>9, <1>10, <1>11 DEF Cycling

\* A non-empty set of naturals has a least.
LEMMA Least ==
  ASSUME NEW T \in SUBSET Nat, T # {}
  PROVE  \E x \in T : \A y \in T : x <= y
<1> DEFINE less == OpToRel(<, Nat)
<1>1. IsWellFoundedOn(less, Nat)
  BY NatLessThanWellFounded
<1>2. PICK x \in T : \A y \in T : ~(<<y, x>> \in less)
  <2> HIDE DEF less
  <2> QED BY <1>1, WFMin
<1>3. ASSUME NEW y \in T PROVE x <= y
  <2>1. x \in Nat /\ y \in Nat /\ ~(y < x)
    BY <1>2 DEF OpToRel
  <2> QED BY <2>1
<1> QED BY <1>3

\* A page of the scan is every row from the cursor to the new one, and there is
\* one as long as there are rows.
LEMMA ScanIs ==
  ASSUME NEW t, Table(t), NEW cursor \in Nat
  PROVE  /\ ScanRows(t, cursor) \subseteq DOMAIN t /\ Cursor(t, cursor) \in Nat
         /\ Cursor(t, cursor) = None => \A i \in DOMAIN t : i <= cursor
         /\ Cursor(t, cursor) # None =>
              \A i \in DOMAIN t : i <= Cursor(t, cursor) => i <= cursor \/ i \in ScanRows(t, cursor)
<1> DEFINE ids == DOMAIN t
           Between(i) == {j \in ids : cursor < j /\ j < i}
           seen == ScanRows(t, cursor)
<1>1. PICK b \in Nat : ids \subseteq 1..b
  BY DEF Table
<1>2. ids \subseteq Nat \ {0} /\ IsFiniteSet(ids) /\ \A i \in ids : i <= b
  <2>1. IsFiniteSet(1..b)
    BY FS_Interval
  <2>2. IsFiniteSet(ids)
    BY <1>1, <2>1, FS_Subset
  <2> QED BY <1>1, <2>2
<1> HIDE DEF ids
<1>3. seen = {i \in ids : i > cursor /\ Cardinality(Between(i)) < ScanPage}
  BY DEF ScanRows, ids
<1>4. \A i : IsFiniteSet(Between(i)) /\ Cardinality(Between(i)) \in Nat
  BY <1>2, FS_Subset, FS_CardinalityType
<1> HIDE DEF seen
<1>5. /\ Max({0} \cup seen) \in {0} \cup seen /\ Max({0} \cup seen) \in 0..b
      /\ \A i \in seen : i <= Max({0} \cup seen)
  <2>1. seen \in SUBSET Nat /\ \A i \in seen : i <= b
    BY <1>2, <1>3
  <2> QED BY <2>1, GreatestOrZero
<1> DEFINE top == Max({0} \cup seen)
<1>6. Cursor(t, cursor) = top
  BY DEF Cursor, None, seen
<1>7. top \in Nat /\ (top = 0 \/ top \in seen) /\ \A i \in seen : i <= top
  BY <1>5
<1> HIDE DEF top
<1>8. ASSUME top = 0, NEW i \in ids PROVE i <= cursor
  <2>1. SUFFICES ASSUME i > cursor PROVE FALSE
    BY <1>2
  <2> DEFINE rest == {j \in ids : j > cursor}
  <2>2. PICK x \in rest : \A y \in rest : x <= y
    <3>1. rest \in SUBSET Nat /\ rest # {}
      BY <1>2, <2>1
    <3> HIDE DEF rest
    <3> QED BY <3>1, Least
  <2>3. x \in ids /\ x > cursor /\ x \in Nat \ {0}
    BY <1>2
  <2>4. Between(x) = {}
    <3> SUFFICES ASSUME NEW j \in ids, cursor < j, j < x PROVE FALSE
      OBVIOUS
    <3>1. j \in Nat
      BY <1>2
    <3>2. x <= j
      BY <2>2, <3>1
    <3> QED BY <2>3, <3>1, <3>2
  <2>5. Cardinality(Between(x)) = 0
    BY <2>4, FS_EmptySet
  <2> HIDE DEF Between
  <2>6. x \in seen
    BY <1>3, <2>3, <2>5, SyncSizes
  <2> QED BY <1>7, <1>8, <2>3, <2>6
<1>9. ASSUME top # 0, NEW i \in ids, i <= top, ~(i <= cursor) PROVE i \in seen
  <2>1. top \in ids /\ top > cursor /\ Cardinality(Between(top)) < ScanPage /\ i \in Nat
    BY <1>2, <1>3, <1>7, <1>9
  <2>2. Between(i) \subseteq Between(top)
    <3> SUFFICES ASSUME NEW j \in ids, cursor < j, j < i PROVE j < top
      OBVIOUS
    <3>1. j \in Nat
      BY <1>2
    <3> QED BY <1>7, <1>9, <2>1, <3>1
  <2>3. Cardinality(Between(i)) <= Cardinality(Between(top))
    BY <1>4, <2>2, FS_Subset
  <2>4. Cardinality(Between(i)) \in Nat /\ Cardinality(Between(top)) \in Nat
    BY <1>4
  <2> HIDE DEF Between
  <2>5. Cardinality(Between(i)) < ScanPage
    BY <2>1, <2>3, <2>4, SyncSizes
  <2>6. i > cursor
    BY <1>9, <2>1
  <2> QED BY <1>3, <2>5, <2>6
<1>10. seen \subseteq ids
  BY <1>3
<1> QED BY <1>6, <1>7, <1>8, <1>9, <1>10 DEF None, ids, seen

LEMMA ScanKeeps ==
  ASSUME Cycling, Scan
  PROVE  Cycling'
<1> DEFINE next == Cursor(rows, after)
           seen == ScanRows(rows, after)
<1>1. /\ pc = "scan" /\ stale = {}
      /\ next = None => pc' = "save" /\ UNCHANGED <<after, stale>>
      /\ next # None => pc' = pc /\ after' = next /\ stale' = StaleIn(rows, seen)
      /\ UNCHANGED <<kind, log, oldest, stuck, rows, wm, tok, resync, page, keep, faults, from, torn, buried>>
  BY DEF Scan, server
<1>2. /\ seen \subseteq DOMAIN rows /\ next \in Nat
      /\ next = None => \A i \in DOMAIN rows : i <= after
      /\ next # None => \A i \in DOMAIN rows : i <= next => i <= after \/ i \in seen
  BY ScanIs DEF Cycling, Typed
<1> HIDE DEF next, seen
<1>3. /\ resync /\ InHand /\ InHand' /\ Baseline /\ ~page.more /\ page.created = {} /\ pc' \in {"scan", "save"}
      /\ Now' = Now /\ AliveNow' = AliveNow
  BY <1>1 DEF Cycling, Placed, InHand, Baseline, Now, AliveNow, Left
<1>4. \A i \in DOMAIN rows : i \in Nat \ {0}
  BY DEF Cycling, Typed, Table
<1>5. Typed'
  <2>1. Issued(wm)' /\ Issued(tok)' /\ Issued(page.new)'
    BY <1>1, <1>3 DEF Cycling, Typed, Issued
  <2>2. after' \in Nat
    BY <1>1, <1>2 DEF Cycling, Typed
  <2>3. stale' \subseteq Nat
    BY <1>1, <1>2, <1>4 DEF StaleIn
  <2> QED BY <1>1, <1>3, <2>1, <2>2, <2>3 DEF Cycling, Typed, Table
<1>6. Placed'
  BY <1>1, <1>3 DEF Cycling, Placed, Left, Sids
<1>7. Truthful'
  BY <1>1, <1>3 DEF Cycling, Truthful
<1>8. ListingKept'
  BY <1>1, <1>3 DEF Cycling, ListingKept, Reaches, Baseline, Sids, Found
<1>9. Fresh' /\ Changing' /\ Seen'
  BY <1>1, <1>3 DEF Cycling, Fresh, Changing, Changes, Seen
<1>10. Scanning'
  <2>1. \A i \in DOMAIN rows : i <= after => rows[i].sid \in keep \cup {None}
    BY <1>1 DEF Cycling, Scanning
  <2>2. ASSUME next = None PROVE Scanning'
    <3>1. \A i \in DOMAIN rows : rows[i].sid \in keep \cup {None}
      BY <1>2, <2>1, <2>2
    <3> QED BY <1>1, <2>2, <3>1 DEF Scanning
  <2>3. ASSUME next # None PROVE Scanning'
    <3>1. after' = next /\ stale' = StaleIn(rows, seen) /\ pc' = "scan"
      BY <1>1, <2>3
    <3>2. ASSUME NEW i \in DOMAIN rows, i <= next, i \notin stale'
          PROVE  rows[i].sid \in keep \cup {None}
      <4>1. i <= after \/ i \in seen
        BY <1>2, <2>3, <3>2
      <4> QED BY <2>1, <3>1, <3>2, <4>1 DEF StaleIn
    <3>3. ASSUME NEW i \in stale' \cap DOMAIN rows
          PROVE  rows[i].sid \notin keep \cup {None} /\ Dead(log, rows[i].sid, Now)
      <4>1. rows[i].sid \notin keep \cup {None}
        BY <3>1, <3>3 DEF StaleIn, Cycling, Truthful
      <4>2. /\ Held(log, rows[i].sid, rows[i].ver) /\ rows[i].ver <= page.at /\ page.at <= Now
            /\ \A r \in AliveNow : Ver(log, r, page.at) # 0 => r \in keep
        BY <1>3, <4>1 DEF Cycling, Truthful, ListingKept, Found
      <4>3. Len(log) \in Nat /\ Now = Len(log) /\ DOMAIN log = 1..Len(log) /\ page.at \in 0..Len(log)
            /\ \A r \in Record : r \in AliveNow <=> Alive(log, r, Len(log))
        BY <4>2, LogFacts DEF Cycling
      <4>4. rows[i].sid \in Record
        BY <4>1, SidsAre DEF Cycling, Typed
      <4>5. Ver(log, rows[i].sid, page.at) # 0 /\ rows[i].ver <= Len(log) /\ rows[i].ver \in Nat
        BY <4>2, <4>3, HeldIsOld DEF Held
      <4>6. Ver(log, rows[i].sid, Len(log)) # 0
        <5>1. Len(log) \in 0..Len(log)
          BY <4>3
        <5> QED BY <4>2, <4>3, <4>5, <5>1, HeldIsOld
      <4>7. ~Alive(log, rows[i].sid, Len(log))
        BY <4>1, <4>2, <4>3, <4>4, <4>5
      <4> QED BY <4>1, <4>3, <4>6, <4>7, AliveOrDead
    <3> QED BY <1>1, <1>3, <3>1, <3>2, <3>3 DEF Scanning
  <2> QED BY <2>2, <2>3
<1>11. WatermarkHonest'
  BY <1>1, <1>3 DEF Cycling, WatermarkHonest, Abreast, Sids
<1> QED BY <1>5, <1>6, <1>7, <1>8, <1>9, <1>10, <1>11 DEF Cycling

LEMMA DeleteStaleKeeps ==
  ASSUME Cycling, DeleteStale
  PROVE  Cycling' /\ \A i \in DOMAIN rows \ DOMAIN rows' : Dead(log, rows[i].sid, Now)
<1> DEFINE chunk == {i \in stale : Cardinality({j \in stale : j < i}) < ChunkSize}
           u == Delete(rows, chunk)
<1>1. /\ pc = "scan" /\ rows' = u /\ buried' = buried \cup (Sids(rows) \ Sids(rows'))
      /\ stale' = stale \ chunk
      /\ UNCHANGED <<kind, log, oldest, stuck, wm, pc, tok, resync, page, keep, after, faults, from, torn>>
  BY DEF DeleteStale, Commit, server
<1>2. chunk \subseteq stale
  OBVIOUS
<1> HIDE DEF chunk
<1>3. Table(rows)
  BY DEF Cycling, Typed
<1>4. /\ Table(u) /\ DOMAIN u = DOMAIN rows \ chunk /\ \A i \in DOMAIN u : u[i] = rows[i]
      /\ Sids(u) \subseteq Sids(rows)
      /\ \A r \in Sids(rows) : r \in Sids(u) \/ (RowOf(rows, r) \in chunk /\ RowOf(rows, r) \in DOMAIN rows)
  BY <1>3, DeleteIs
<1> HIDE DEF u
<1>5. /\ Table(rows') /\ DOMAIN rows' = DOMAIN rows \ chunk /\ \A i \in DOMAIN rows' : rows'[i] = rows[i]
      /\ Sids(rows') \subseteq Sids(rows)
  BY <1>1, <1>4
<1>6. /\ resync /\ InHand /\ InHand' /\ Baseline /\ page.created = {} /\ page.updated = {} /\ wm.k = "state"
      /\ Now' = Now /\ AliveNow' = AliveNow
  BY <1>1 DEF Cycling, Placed, InHand, Baseline, Now, AliveNow, Left
<1>7. \A i \in chunk \cap DOMAIN rows : rows[i].sid \notin keep \cup {None} /\ Dead(log, rows[i].sid, Now)
  BY <1>2 DEF Cycling, Scanning
<1>8. \A r \in Sids(rows) : r \in Sids(rows') \/ (r \notin keep /\ Dead(log, r, Now) /\ r \notin AliveNow)
  <2> SUFFICES ASSUME NEW r \in Sids(rows), r \notin Sids(rows')
               PROVE  r \notin keep /\ Dead(log, r, Now) /\ r \notin AliveNow
    OBVIOUS
  <2>1. RowOf(rows, r) \in chunk \cap DOMAIN rows
    BY <1>1, <1>4
  <2>2. rows[RowOf(rows, r)].sid = r
    BY <1>3, SidsAre
  <2>3. r \notin keep /\ Dead(log, r, Now)
    BY <1>7, <2>1, <2>2
  <2> QED BY <2>3, AliveOrDead DEF AliveNow
<1>9. Sids(rows) \subseteq Record
  BY <1>3, SidsAre
<1>10. Typed'
  <2>1. Issued(wm)' /\ Issued(tok)' /\ Issued(page.new)'
    BY <1>1, <1>6 DEF Cycling, Typed, Issued
  <2> QED BY <1>1, <1>5, <1>6, <1>9, <2>1 DEF Cycling, Typed
<1>11. Placed'
  BY <1>1, <1>6 DEF Cycling, Placed, Left
<1>12. Truthful'
  <2>1. \A r \in buried' : Dead(log, r, Now)
    BY <1>1, <1>8 DEF Cycling, Truthful
  <2> QED BY <1>1, <1>5, <1>6, <2>1 DEF Cycling, Truthful
<1>13. ListingKept'
  BY <1>1, <1>6, <1>8 DEF Cycling, ListingKept, Reaches, Baseline, Found
<1>14. Fresh' /\ Changing' /\ Seen'
  BY <1>1, <1>5, <1>6 DEF Cycling, Fresh, Changing, Changes, Seen
<1>15. Scanning'
  BY <1>1, <1>5, <1>6 DEF Cycling, Scanning
<1>16. WatermarkHonest'
  <2>1. \A r \in AliveNow : Alive(log, r, wm.n) => r \in Sids(rows')
    BY <1>6, <1>8 DEF Cycling, WatermarkHonest
  <2> QED BY <1>1, <1>5, <1>6, <2>1 DEF Cycling, WatermarkHonest, Abreast
<1>17. \A i \in DOMAIN rows \ DOMAIN rows' : Dead(log, rows[i].sid, Now)
  BY <1>5, <1>7
<1> QED BY <1>10, <1>11, <1>12, <1>13, <1>14, <1>15, <1>16, <1>17 DEF Cycling
-----------------------------------------------------------------------------
(* The watermark. *)

\* The rows a whole listing leaves are all there were, none older than its start.
LEMMA ListedRows ==
  ASSUME Cycling, Baseline, pc = "save", ~page.more
  PROVE  LET n == page.at IN
         /\ page.new = StateToken(n) /\ n \in 0..Now
         /\ \A r \in AliveNow : Alive(log, r, n) => r \in Sids(rows)
         /\ \A i \in DOMAIN rows : rows[i].sid # None =>
              /\ Ver(log, rows[i].sid, n) # 0
              /\ Ver(log, rows[i].sid, n) <= from => rows[i].ver >= Ver(log, rows[i].sid, n)
<1> DEFINE n == page.at
<1>1. /\ InHand /\ page.new = StateToken(n) /\ from <= n /\ n <= Now /\ page.created = {}
      /\ \A r \in AliveNow : Ver(log, r, n) # 0 => r \in Found
      /\ resync \in BOOLEAN /\ (resync \/ tok.k # "state")
      /\ resync => keep \subseteq Sids(rows)
      /\ ~resync => wm.k # "state"
  BY DEF Cycling, ListingKept, Baseline, Truthful, Placed, Left, Typed
<1>2. /\ Len(log) \in Nat /\ Now = Len(log) /\ DOMAIN log = 1..Len(log) /\ n \in 0..Len(log) /\ from \in Int
      /\ \A i \in DOMAIN rows : rows[i].ver \in Nat
  BY <1>1, LogFacts DEF Cycling, Typed
<1>3. Found \subseteq Sids(rows)
  BY <1>1 DEF Found
<1>4. \A r \in AliveNow : Alive(log, r, n) => r \in Sids(rows)
  BY <1>1, <1>3 DEF Alive
<1>5. ASSUME NEW i \in DOMAIN rows, rows[i].sid # None
      PROVE  rows[i].ver >= Ver(log, rows[i].sid, from)
  <2>1. CASE resync
    <3>1. rows[i].sid \in keep
      BY <1>5, <2>1 DEF Cycling, Scanning
    <3> QED BY <1>1, <1>5, <2>1, <3>1 DEF Cycling, Fresh
  <2>2. CASE ~resync
    BY <1>1, <1>5, <2>2 DEF Cycling, Fresh
  <2> QED BY <1>1, <2>1, <2>2
<1>6. ASSUME NEW i \in DOMAIN rows, rows[i].sid # None
      PROVE  /\ Ver(log, rows[i].sid, n) # 0
             /\ Ver(log, rows[i].sid, n) <= from => rows[i].ver >= Ver(log, rows[i].sid, n)
  <2>1. Held(log, rows[i].sid, rows[i].ver) /\ rows[i].ver <= n
    BY <1>1, <1>6 DEF Cycling, Truthful
  <2>2. Ver(log, rows[i].sid, n) # 0
    BY <1>2, <2>1, HeldIsOld
  <2>3. Ver(log, rows[i].sid, n) <= from => Ver(log, rows[i].sid, n) = Ver(log, rows[i].sid, from)
    BY <1>1, <1>2, VerGrows
  <2> QED BY <1>5, <1>6, <2>2, <2>3
<1> QED BY <1>1, <1>2, <1>4, <1>6

LEMMA SaveKeeps ==
  ASSUME Cycling, Save
  PROVE  Cycling'
<1>1. /\ pc = "save" /\ wm' = page.new /\ torn' = Torn
      /\ UNCHANGED <<kind, log, oldest, stuck, rows, faults, from, buried>>
      /\ Now' = Now /\ AliveNow' = AliveNow
      /\ resync \in BOOLEAN /\ InHand
  BY DEF Save, server, Now, AliveNow, Cycling, Typed, InHand
<1>2. /\ page.more => page' = page /\ tok' = page.new
      /\ ~page.more => page' = NoPage /\ tok' = NoToken
      /\ pc' = IF page.more THEN "fetch" ELSE "idle"
      /\ ~resync' /\ (page.more => ~resync) /\ ~InHand' /\ page.more \in BOOLEAN
      /\ (keep' = keep \/ keep' = {}) /\ after' = None /\ stale' = {} /\ resync' = FALSE
  <2>1. page.more => ~resync
    BY <1>1 DEF Cycling, Placed
  <2>2. ~resync => after = None /\ stale = {}
    BY <1>1 DEF Cycling, Placed
  <2>3. page.more \in BOOLEAN
    BY LogFacts DEF Cycling
  <2> QED BY <1>1, <2>1, <2>2, <2>3 DEF Save, Return, InHand
<1>3. NoToken \in Token /\ NoToken.k = "none" /\ NoPage \in Page /\ NoPage.new = NoToken /\ Left(NoPage) = {}
  BY DEF NoToken, Token, NoPage, Page, Left
<1>4. Left(page) = {} /\ from # -1
  BY <1>1 DEF Cycling, Placed
<1>5. Issued(page.new) /\ page.new \in Token
  BY LogFacts DEF Cycling, Typed
<1>6. /\ Len(log) \in Nat /\ Now = Len(log) /\ page.new.n \in Nat /\ tok.n \in Nat /\ from \in Int
      /\ \A i \in DOMAIN rows : rows[i].ver \in Nat
  BY LogFacts DEF Cycling, Typed
<1>7. Changes \/ Baseline
  BY <1>1 DEF Changes, Baseline
<1>8. Torn \subseteq Record
  BY DEF Torn, Cycling, Typed
<1>9. Typed'
  <2>1. Issued(wm)' /\ Issued(page.new)' /\ Issued(tok)'
    <3>1. Issued(page.new)'
      BY <1>1, <1>2, <1>3, <1>5 DEF Issued
    <3>2. Issued(wm)' /\ Issued(tok)'
      BY <1>1, <1>2, <1>3, <1>5 DEF Issued
    <3> QED BY <3>1, <3>2
  <2>2. page' \in Page
    BY <1>2, <1>3 DEF Cycling, Typed
  <2> QED BY <1>1, <1>2, <1>8, <2>1, <2>2 DEF Cycling, Typed, Table, None
<1>10. Placed'
  BY <1>1, <1>2, <1>3, <1>4 DEF Placed, Left
<1>11. Truthful'
  BY <1>1, <1>2 DEF Cycling, Truthful
<1>12. Scanning' /\ Changing'
  BY <1>1, <1>2 DEF Scanning, Changing, Changes
<1>13. Baseline /\ page.more => ~resync /\ page.new.k = "base" /\ Reaches(page.new, Sids(rows))
  BY <1>2, <1>4 DEF Cycling, ListingKept, Found, Left
<1>14. Changes \/ ~page.more => page.new.k = "state"
  BY <1>7 DEF Cycling, Changing, ListingKept, StateToken
<1>15. ListingKept'
  <2>1. Reaches(wm, Sids(rows))'
    BY <1>1, <1>7, <1>13, <1>14 DEF Reaches
  <2> QED BY <1>2, <2>1 DEF ListingKept, Baseline
<1>16. Fresh'
  <2>1. wm'.k # "state" => wm.k # "state"
    BY <1>1, <1>2, <1>7, <1>13, <1>14 DEF Baseline, Cycling, Placed
  <2> QED BY <1>1, <1>2, <2>1 DEF Cycling, Fresh
<1>17. \A i \in DOMAIN rows : rows[i].sid # None => rows[i].sid \in Record
  BY SidsAre DEF Cycling, Typed
<1>18. WatermarkHonest' /\ Seen'
  <2> SUFFICES ASSUME wm'.k = "state"
               PROVE  /\ \A r \in AliveNow : Alive(log, r, page.new.n) => r \in Sids(rows)
                      /\ \A i \in DOMAIN rows : rows[i].sid \notin Torn \cup {None} =>
                           /\ Abreast(i, page.new.n)
                           /\ Ver(log, rows[i].sid, page.new.n) # 0
    BY <1>1 DEF WatermarkHonest, Seen, Abreast, Sids
  <2>1. CASE Changes
    <3>1. /\ \A r \in AliveNow : Alive(log, r, page.new.n) => r \in Sids(rows)
          /\ \A i \in DOMAIN rows :
               /\ rows[i].sid \notin Torn \cup {None} => Abreast(i, page.new.n)
               /\ rows[i].sid \notin torn \cup {None} => Ver(log, rows[i].sid, page.new.n) # 0
      BY <1>4, <2>1 DEF Cycling, Changing, Left
    <3>2. \A r \in torn \ Torn : Ver(log, r, page.new.n) # 0
      <4>1. \A r \in torn \ Torn : ~(Ver(log, r, page.new.n) <= tok.n)
        BY <1>14, <2>1 DEF Torn, Changes
      <4> QED BY <1>6, <4>1, VerIs
    <3> QED BY <3>1, <3>2
  <2>2. CASE Baseline
    <3>1. ~page.more
      BY <1>1, <1>13, <2>2
    <3>2. /\ page.new = StateToken(page.at)
          /\ \A r \in AliveNow : Alive(log, r, page.at) => r \in Sids(rows)
          /\ \A i \in DOMAIN rows : rows[i].sid # None =>
               /\ Ver(log, rows[i].sid, page.at) # 0
               /\ Ver(log, rows[i].sid, page.at) <= from => rows[i].ver >= Ver(log, rows[i].sid, page.at)
      BY <1>1, <2>2, <3>1, ListedRows
    <3>3. page.new.n = page.at /\ page.new.k = "state"
      BY <3>2 DEF StateToken
    <3>4. Torn = {r \in Record : Ver(log, r, page.at) > from}
      BY <2>2, <3>3 DEF Torn, Baseline
    <3>5. \A i \in DOMAIN rows : rows[i].sid \notin Torn \cup {None} => Ver(log, rows[i].sid, page.at) <= from
      BY <1>6, <1>17, <3>3, <3>4, VerIs
    <3> QED BY <3>2, <3>3, <3>5 DEF Abreast
  <2> QED BY <1>7, <2>1, <2>2
<1> QED BY <1>9, <1>10, <1>11, <1>12, <1>15, <1>16, <1>18 DEF Cycling
-----------------------------------------------------------------------------
(* The server's own steps. *)

\* What a change leaves as it was.
LEMMA ChangeIs ==
  ASSUME Cycling, Change
  PROVE  /\ log' \in Seq(Entry(Record)) /\ Now' = Now + 1 /\ Now' <= MaxLog /\ Final(log')
         /\ Len(log) \in Nat /\ Now = Len(log) /\ DOMAIN log = 1..Len(log)
         /\ \A r, i : i \in Int /\ i <= Now =>
              /\ Ver(log', r, i) = Ver(log, r, i)
              /\ Alive(log', r, i) = Alive(log, r, i) /\ Dead(log', r, i) = Dead(log, r, i)
         /\ \A r : Dead(log, r, Now) => Dead(log', r, Now')
         /\ \A r \in AliveNow' : r \in AliveNow \/ Ver(log, r, Now) = 0
         /\ \A r, v : Held(log, r, v) => Held(log', r, v)
         /\ Listing(log, Now) \in 0..Now /\ Listing(log, Now) <= Listing(log', Now')
         /\ Listing(log', Now') <= Now =>
              AliveNow' = AliveNow /\ Listing(log', Now') = Listing(log, Now)
         /\ UNCHANGED <<kind, oldest, stuck, rows, wm, pc, tok, resync, page, keep, after, stale,
                        faults, from, torn, buried>>
<1>1. PICK q \in Record, op \in Ops : Legal(log, q, op) /\ log' = Append(log, [rec |-> q, op |-> op])
  BY DEF Change
<1>2. Now < MaxLog /\ UNCHANGED <<kind, oldest, stuck, rows, wm, pc, tok, resync, page, keep, after, stale,
                                 faults, from, torn, buried>>
  BY DEF Change, cycle
<1>3. log \in Seq(Entry(Record)) /\ Final(log)
  BY DEF Cycling, Typed
<1>4. /\ log' \in Seq(Entry(Record)) /\ Len(log') = Len(log) + 1 /\ DOMAIN log' = 1..(Len(log) + 1)
      /\ DOMAIN log = 1..Len(log) /\ Len(log) \in Nat
      /\ \A i \in 1..Len(log) : log'[i] = log[i]
  BY <1>1, <1>3, LogGrows
<1>5. Final(log')
  BY <1>1, <1>3, FinalStays
<1>6. \A r, i : i \in Int /\ i <= Len(log) =>
        /\ Ver(log', r, i) = Ver(log, r, i)
        /\ Alive(log', r, i) = Alive(log, r, i) /\ Dead(log', r, i) = Dead(log, r, i)
  BY <1>1, <1>3, VersionsStay
<1>7. \A r : /\ Dead(log, r, Len(log)) => Dead(log', r, Len(log) + 1)
             /\ Alive(log', r, Len(log) + 1) => Alive(log, r, Len(log)) \/ Ver(log, r, Len(log)) = 0
             /\ op = "update" => (Alive(log', r, Len(log) + 1) <=> Alive(log, r, Len(log)))
  BY <1>1, <1>3, LifeGoesOn
<1>8. Listing(log', Len(log) + 1) = IF op = "update" THEN Listing(log, Len(log)) ELSE Len(log) + 1
  BY <1>1, <1>3, ListingMoves
<1>9. Listing(log, Len(log)) \in 0..Len(log)
  BY <1>4, ListingIs
<1>10. Now = Len(log) /\ Now' = Len(log) + 1
  BY <1>4 DEF Now
<1>11. Now' <= MaxLog
  BY <1>2, <1>4, <1>10, SyncSizes
<1>12. \A r \in AliveNow' : r \in AliveNow \/ Ver(log, r, Now) = 0
  BY <1>7, <1>10 DEF AliveNow
<1>13. \A r, v : Held(log, r, v) => Held(log', r, v)
  <2> SUFFICES ASSUME NEW r, NEW v, Held(log, r, v) PROVE Held(log', r, v)
    OBVIOUS
  <2>1. v \in 1..Len(log) /\ log[v].rec = r /\ log[v].op # "destroy"
    BY <1>4 DEF Held
  <2>2. v \in DOMAIN log' /\ log'[v] = log[v]
    BY <1>4, <2>1
  <2> QED BY <2>1, <2>2 DEF Held
<1>14. Listing(log', Now') <= Now => AliveNow' = AliveNow /\ Listing(log', Now') = Listing(log, Now)
  <2> SUFFICES ASSUME Listing(log', Now') <= Now
               PROVE  AliveNow' = AliveNow /\ Listing(log', Now') = Listing(log, Now)
    OBVIOUS
  <2>1. op = "update"
    BY <1>4, <1>8, <1>10
  <2> QED BY <1>7, <1>8, <1>10, <2>1 DEF AliveNow
<1>15. Listing(log, Now) <= Listing(log', Now')
  BY <1>4, <1>8, <1>9, <1>10
<1> QED BY <1>2, <1>4, <1>5, <1>6, <1>7, <1>9, <1>10, <1>11, <1>12, <1>13, <1>14, <1>15

LEMMA ChangeKeeps ==
  ASSUME Cycling, Change
  PROVE  Cycling'
<1>1. /\ log' \in Seq(Entry(Record)) /\ Now' = Now + 1 /\ Now' <= MaxLog /\ Final(log')
      /\ Now \in Nat
      /\ Listing(log, Now) \in 0..Now /\ Listing(log, Now) <= Listing(log', Now')
      /\ Listing(log', Now') <= Now =>
           AliveNow' = AliveNow /\ Listing(log', Now') = Listing(log, Now)
      /\ UNCHANGED <<kind, oldest, stuck, rows, wm, pc, tok, resync, page, keep, after, stale,
                     faults, from, torn, buried>>
      /\ InHand' = InHand
  BY ChangeIs DEF InHand
<1>2. /\ \A r, i : i \in Int /\ i <= Now =>
           /\ Ver(log', r, i) = Ver(log, r, i)
           /\ Alive(log', r, i) = Alive(log, r, i) /\ Dead(log', r, i) = Dead(log, r, i)
      /\ \A r : Dead(log, r, Now) => Dead(log', r, Now')
      /\ \A r \in AliveNow' : r \in AliveNow \/ Ver(log, r, Now) = 0
      /\ \A r, v : Held(log, r, v) => Held(log', r, v)
  BY ChangeIs
<1>3. \A r \in AliveNow' : \A i : i \in Int /\ i <= Now /\ Ver(log, r, i) # 0 => r \in AliveNow
  <2> SUFFICES ASSUME NEW r \in AliveNow', NEW i \in Int, i <= Now, Ver(log, r, i) # 0
               PROVE  Ver(log, r, Now) # 0
    BY <1>2
  <2>1. Ver(log, r, i) <= Ver(log, r, Now) /\ Ver(log, r, i) \in Nat /\ Ver(log, r, Now) \in Nat
    BY <1>1, VerGrows, VerIs
  <2> QED BY <2>1
<1>4. /\ page.at \in Nat /\ page.new.n \in Nat /\ wm.n \in Nat /\ tok.n \in Nat /\ from \in Int /\ from <= Now
      /\ Typed /\ Issued(wm) /\ Issued(tok) /\ Issued(page.new)
  BY <1>1, LogFacts DEF Cycling, Typed
<1>5. ASSUME NEW t, Issued(t)
      PROVE  /\ t.k = "base" => t.query <= Listing(log', Now')
             /\ t.k = "state" => t.n <= Now'
             /\ t.k = "base" /\ t.query = Listing(log', Now') =>
                  AliveNow' = AliveNow /\ t.query = Listing(log, Now)
  <2>1. /\ t.n \in Nat /\ t.query \in Nat
        /\ t.k = "state" => t.n <= Now
        /\ t.k = "base" => t.query <= Listing(log, Now)
    BY <1>5 DEF Issued, Token
  <2>2. t.k = "state" => t.n <= Now + 1
    BY <1>1, <2>1
  <2>3. ASSUME t.k = "base" PROVE t.query <= Listing(log', Now') /\ t.query <= Now
    <3>1. Listing(log', Now') \in Int
      <4>1. Len(log') \in Nat /\ Now' = Len(log')
        BY <1>1 DEF Now
      <4> QED BY <4>1, ListingIs
    <3> QED BY <1>1, <2>1, <2>3, <3>1
  <2> QED BY <1>1, <2>2, <2>3
<1>6. Typed'
  <2>1. oldest \in 0..Now' /\ from \in -1..Now'
    BY <1>1 DEF Cycling, Typed
  <2>2. Issued(wm)' /\ Issued(tok)' /\ Issued(page.new)'
    BY <1>1, <1>4, <1>5 DEF Issued
  <2> QED BY <1>1, <2>1, <2>2 DEF Cycling, Typed, Table
<1>7. Placed'
  BY <1>1 DEF Cycling, Placed, Left, Sids
<1>8. Truthful'
  <2>1. \A i \in DOMAIN rows : rows[i].sid # None => Held(log', rows[i].sid, rows[i].ver)
    BY <1>2 DEF Cycling, Truthful
  <2>2. \A r \in buried : Dead(log', r, Now')
    BY <1>2 DEF Cycling, Truthful
  <2>3. InHand =>
          /\ page.at <= Now'
          /\ \A r \in page.created \cup page.updated : Alive(log', r, page.at)
          /\ \A r \in page.destroyed : Dead(log', r, Now')
    BY <1>1, <1>2, <1>4 DEF Cycling, Truthful
  <2> QED BY <1>1, <2>1, <2>2, <2>3 DEF Cycling, Truthful
<1>9. ListingKept'
  <2>1. Found' = Found
    BY <1>1 DEF Found, Sids
  <2>2. Reaches(wm, Sids(rows))'
    BY <1>1, <1>4, <1>5 DEF Cycling, ListingKept, Sids, Reaches
  <2>3. (resync /\ pc = "fetch" => Reaches(tok, keep))'
    BY <1>1, <1>4, <1>5 DEF Cycling, ListingKept, Reaches
  <2>4. Baseline /\ page.more => Reaches(page.new, Found)'
    BY <1>1, <1>4, <1>5, <2>1 DEF Cycling, ListingKept, Reaches
  <2>5. Baseline /\ ~page.more => \A r \in AliveNow' : Ver(log', r, page.at) # 0 => r \in Found
    <3> SUFFICES ASSUME Baseline, ~page.more, NEW r \in AliveNow', Ver(log', r, page.at) # 0
                 PROVE  r \in Found
      OBVIOUS
    <3>1. page.at <= Now /\ page.at \in Int
      BY <1>4 DEF Cycling, Truthful, Baseline
    <3>2. Ver(log, r, page.at) # 0
      BY <1>2, <3>1
    <3>3. r \in AliveNow
      BY <1>3, <3>1, <3>2
    <3> QED BY <3>2, <3>3 DEF Cycling, ListingKept
  <2> QED BY <1>1, <2>1, <2>2, <2>3, <2>4, <2>5 DEF Cycling, ListingKept, Baseline, Sids
<1>10. Fresh'
  <2>1. \A r : Ver(log', r, from) = Ver(log, r, from)
    BY <1>2, <1>4
  <2> QED BY <1>1, <2>1 DEF Cycling, Fresh
<1>11. Scanning'
  BY <1>1, <1>2 DEF Cycling, Scanning
<1>12. ASSUME NEW n \in Nat, n <= Now
       PROVE  /\ \A r \in AliveNow' : Alive(log', r, n) => r \in AliveNow /\ Alive(log, r, n)
              /\ \A i : Abreast(i, n) => Abreast(i, n)'
  <2>1. \A r : Ver(log', r, n) = Ver(log, r, n) /\ Alive(log', r, n) = Alive(log, r, n)
    BY <1>2, <1>12
  <2>2. \A r \in AliveNow' : Alive(log', r, n) => r \in AliveNow /\ Alive(log, r, n)
    BY <1>3, <1>12, <2>1 DEF Alive
  <2>3. \A i : Abreast(i, n) => Abreast(i, n)'
    BY <1>1, <1>2, <2>1 DEF Abreast
  <2> QED BY <2>2, <2>3
<1>13. Changing'
  <2> SUFFICES ASSUME Changes
               PROVE  Changing!2'
    BY <1>1 DEF Changing, Changes
  <2>1. /\ page.new.k = "state" /\ tok.n <= page.new.n /\ page.new.n <= page.at
        /\ \A r \in page.created \cup page.updated : Ver(log, r, page.new.n) # 0
        /\ \A r \in AliveNow : Alive(log, r, page.new.n) => r \in Sids(rows) \cup page.created \cup page.updated
        /\ \A i \in DOMAIN rows :
             /\ rows[i].sid \notin Torn \cup {None} \cup Left(page) => Abreast(i, page.new.n)
             /\ rows[i].sid \notin torn \cup {None} => Ver(log, rows[i].sid, page.new.n) # 0
    BY DEF Cycling, Changing
  <2>2. page.new.n <= Now /\ tok.n <= Now
    <3>1. page.at <= Now
      BY DEF Changes, Cycling, Truthful
    <3> QED BY <1>1, <1>4, <2>1, <3>1
  <2>3. Torn' = Torn
    <3>1. \A r : /\ Ver(log', r, page.new.n) = Ver(log, r, page.new.n) /\ Ver(log', r, tok.n) = Ver(log, r, tok.n)
                 /\ Dead(log', r, page.new.n) = Dead(log, r, page.new.n)
      BY <1>2, <1>4, <2>2
    <3> QED BY <1>1, <3>1 DEF Torn
  <2>4. /\ \A r \in page.created \cup page.updated : Ver(log', r, page.new.n) # 0
        /\ \A i \in DOMAIN rows : rows[i].sid \notin torn \cup {None} => Ver(log', rows[i].sid, page.new.n) # 0
    BY <1>2, <1>4, <2>1, <2>2
  <2>5. \A r \in AliveNow' : Alive(log', r, page.new.n) => r \in Sids(rows) \cup page.created \cup page.updated
    BY <1>4, <1>12, <2>1, <2>2
  <2>6. \A i \in DOMAIN rows : rows[i].sid \notin Torn \cup {None} \cup Left(page) => Abreast(i, page.new.n)'
    <3>1. \A i : Abreast(i, page.new.n) => Abreast(i, page.new.n)'
      BY <1>1, <1>2, <1>4, <2>2 DEF Abreast
    <3> QED BY <2>1, <3>1
  <2> QED BY <1>1, <2>1, <2>3, <2>4, <2>5, <2>6 DEF Left, Sids
<1>14. wm.k = "state" => wm.n <= Now
  BY <1>4 DEF Issued
<1>15. Seen'
  BY <1>1, <1>2, <1>4, <1>14 DEF Cycling, Seen
<1>16. WatermarkHonest'
  <2> SUFFICES ASSUME wm.k = "state"
               PROVE  /\ \A r \in AliveNow' : Alive(log', r, wm.n) => r \in Sids(rows)
                      /\ \A i \in DOMAIN rows : rows[i].sid \notin torn \cup {None} => Abreast(i, wm.n)'
    BY <1>1 DEF WatermarkHonest, Sids
  <2>1. \A i : Abreast(i, wm.n) => Abreast(i, wm.n)'
    BY <1>1, <1>2, <1>4, <1>14 DEF Abreast
  <2>2. \A r \in AliveNow' : Alive(log', r, wm.n) => r \in AliveNow /\ Alive(log, r, wm.n)
    BY <1>4, <1>12, <1>14
  <2> QED BY <2>1, <2>2 DEF Cycling, WatermarkHonest
<1> QED BY <1>6, <1>7, <1>8, <1>9, <1>10, <1>11, <1>13, <1>15, <1>16 DEF Cycling

\* The server forgets old states, is stuck, or answers again.
LEMMA ServerKeeps ==
  ASSUME Cycling, Forget \/ Wedge \/ Unwedge
  PROVE  Cycling'
<1>1. /\ UNCHANGED <<kind, log, rows, wm, pc, tok, resync, page, keep, after, stale, from, torn, buried>>
      /\ oldest' \in {oldest, Now} /\ stuck' \in BOOLEAN
      /\ faults' = faults \/ (faults < MaxFaults /\ faults' = faults + 1)
  BY DEF Forget, Wedge, Unwedge, cycle, Cycling, Typed
<1>2. /\ Now' = Now /\ AliveNow' = AliveNow /\ InHand' = InHand /\ Baseline' = Baseline /\ Changes' = Changes
      /\ Torn' = Torn /\ Found' = Found
  BY <1>1 DEF Now, AliveNow, InHand, Baseline, Changes, Torn, Found, Sids
<1>3. Typed'
  <2>1. Issued(wm)' /\ Issued(tok)' /\ Issued(page.new)'
    BY <1>1, <1>2 DEF Cycling, Typed, Issued
  <2>2. faults' \in 0..MaxFaults /\ oldest' \in 0..Now
    BY <1>1, SyncSizes, LogFacts DEF Cycling, Typed
  <2> QED BY <1>1, <1>2, <2>1, <2>2 DEF Cycling, Typed, Table
<1>4. Placed' /\ Truthful'
  BY <1>1, <1>2 DEF Cycling, Placed, Left, Sids, Truthful
<1>5. ListingKept' /\ Fresh'
  BY <1>1, <1>2 DEF Cycling, ListingKept, Reaches, Sids, Fresh
<1>6. Scanning' /\ Changing' /\ Seen'
  BY <1>1, <1>2 DEF Cycling, Scanning, Changing, Left, Sids, Abreast, Seen
<1>7. WatermarkHonest'
  BY <1>1, <1>2 DEF Cycling, WatermarkHonest, Abreast, Sids
<1> QED BY <1>3, <1>4, <1>5, <1>6, <1>7 DEF Cycling
-----------------------------------------------------------------------------
(* The answers to a Changes call. *)

\* A page of a baseline listing adds its records to what was listed before it.
LEMMA BaselinePage ==
  ASSUME Cycling, tok.k # "state", NEW p \in Answers(tok), NEW K, Reaches(tok, K)
  PROVE  /\ p \in Page /\ p.created \subseteq AliveNow /\ p.updated = {} /\ p.destroyed = {} /\ p.at = Now
         /\ Issued(p.new)
         /\ p.more => p.created # {} /\ p.new.k = "base" /\ Newest(AliveNow, p.new.n) \subseteq K \cup p.created
         /\ ~p.more => p.new = StateToken(Now) /\ AliveNow \subseteq K \cup p.created
<1>1. Now \in Nat /\ AliveNow \in SUBSET Record /\ tok.n \in Nat /\ tok \in Token /\ Issued(tok)
  <2>1. Typed /\ Issued(tok)
    BY DEF Cycling, Typed
  <2> QED BY <2>1, LogFacts DEF Issued
<1>2. Listing(log, Now) \in Nat
  BY <1>1, ListingIs
<1>3. StateToken(Now) \in Token /\ Issued(StateToken(Now))
  BY <1>1 DEF StateToken, Token, Issued
<1>4. CASE p = BaselineMailboxes
  <2>1. p = [created |-> AliveNow, updated |-> {}, destroyed |-> {}, at |-> Now,
             new |-> StateToken(Now), more |-> FALSE]
    BY <1>4 DEF BaselineMailboxes, NoPage
  <2>2. p \in Page
    BY <1>1, <1>3, <2>1 DEF Page
  <2> QED BY <1>3, <2>1, <2>2
<1>5. ASSUME NEW n \in Nat, p = ListFrom(n), Newest(AliveNow, n) \subseteq K
      PROVE  /\ p \in Page /\ p.created \subseteq AliveNow /\ p.updated = {} /\ p.destroyed = {} /\ p.at = Now
             /\ Issued(p.new)
             /\ p.more => p.created # {} /\ p.new.k = "base" /\ Newest(AliveNow, p.new.n) \subseteq K \cup p.created
             /\ ~p.more => p.new = StateToken(Now) /\ AliveNow \subseteq K \cup p.created
  <2> DEFINE listed == Newest(AliveNow, n + PageSize) \ Newest(AliveNow, n)
             next == n + Cardinality(listed)
             last == listed = {} \/ next >= Cardinality(AliveNow)
             new == IF last THEN StateToken(Now) ELSE BaseToken(next, Listing(log, Now))
  <2>1. p = [created |-> listed, updated |-> {}, destroyed |-> {}, at |-> Now, new |-> new, more |-> ~last]
    BY <1>5 DEF ListFrom, NoPage
  <2>2. /\ listed \subseteq AliveNow /\ Cardinality(listed) \in Nat
        /\ Newest(AliveNow, next) \subseteq Newest(AliveNow, n) \cup listed
        /\ listed = {} => Newest(AliveNow, n) = AliveNow
        /\ next >= Cardinality(AliveNow) => AliveNow = Newest(AliveNow, n) \cup listed
    BY <1>1, PageOfListing
  <2> HIDE DEF listed
  <2>3. next \in Nat
    BY <2>2
  <2> HIDE DEF next
  <2>4. /\ BaseToken(next, Listing(log, Now)) \in Token /\ Issued(BaseToken(next, Listing(log, Now)))
        /\ BaseToken(next, Listing(log, Now)).n = next /\ BaseToken(next, Listing(log, Now)).k = "base"
    BY <1>2, <2>3 DEF BaseToken, Token, Issued
  <2>5. last \in BOOLEAN /\ new \in Token /\ Issued(new)
    BY <1>3, <2>4
  <2>6. listed \subseteq Record
    BY <1>1, <2>2
  <2>7. last => AliveNow \subseteq K \cup listed
    BY <1>5, <2>2 DEF next
  <2>8. Newest(AliveNow, next) \subseteq K \cup listed
    BY <1>5, <2>2
  <2>9. ~last => listed # {} /\ new.k = "base" /\ new.n = next
    BY <2>4
  <2>10. last => new = StateToken(Now)
    OBVIOUS
  <2> HIDE DEF last, new
  <2>11. p \in Page
    BY <1>1, <2>1, <2>5, <2>6 DEF Page
  <2>12. p.created = listed /\ p.new = new /\ p.more = ~last /\ p.updated = {} /\ p.destroyed = {} /\ p.at = Now
    BY <2>1
  <2> QED BY <2>2, <2>5, <2>7, <2>8, <2>9, <2>10, <2>11, <2>12
<1>6. CASE p # BaselineMailboxes
  <2>1. \/ p = ListFrom(0) /\ tok.k = "base" /\ tok.query # Listing(log, Now)
        \/ p = ListFrom(tok.n) /\ (tok.k = "base" => tok.query = Listing(log, Now))
    BY <1>6 DEF Answers, BaselineMessages
  <2>2. Newest(AliveNow, 0) = {}
    <3>1. \A r \in AliveNow : Rank(AliveNow, r) \in Nat
      BY <1>1, RankType
    <3>2. Newest(AliveNow, 0) = {r \in AliveNow : Rank(AliveNow, r) < 0}
      BY <1>1, NewestIs
    <3> QED BY <3>1, <3>2
  <2>3. tok.k \in {"none", "base"} /\ (tok.k = "none" => tok.n = 0)
    BY <1>1 DEF Token, Issued, NoToken
  <2>4. CASE p = ListFrom(0)
    BY <1>5, <2>2, <2>4
  <2>5. CASE p = ListFrom(tok.n) /\ tok.k = "base" /\ tok.query = Listing(log, Now)
    <3>1. Newest(AliveNow, tok.n) \subseteq K
      BY <2>5 DEF Reaches
    <3> QED BY <1>1, <1>5, <2>5, <3>1
  <2> QED BY <2>1, <2>3, <2>4, <2>5
<1> QED BY <1>4, <1>6

LEMMA ListingPageKeeps ==
  ASSUME Cycling, Fetch, tok.k # "state"
  PROVE  Cycling'
<1>1. PICK p \in Answers(tok) : Advanced(p) /\ keep' = Kept(p) /\ Continue(p)
  BY DEF Fetch
<1> DEFINE known == IF resync THEN keep ELSE Sids(rows)
<1>2. /\ pc = "fetch" /\ page' = p /\ pc' = AfterPage(p)
      /\ keep' = (IF resync THEN keep \cup p.created ELSE keep)
      /\ tok' = (IF resync /\ Left(p) = {} THEN p.new ELSE tok)
      /\ from' = (IF tok.k = "none" /\ (resync \/ from = -1) THEN Now ELSE from)
      /\ UNCHANGED <<kind, log, oldest, stuck, rows, wm, resync, after, stale, faults, torn, buried>>
      /\ Now' = Now /\ AliveNow' = AliveNow
  BY <1>1 DEF Fetch, Continue, Kept, server, Now, AliveNow
<1>3. /\ resync \in BOOLEAN /\ Left(page) = {} /\ page.created = {} /\ after = None /\ stale = {}
      /\ ~resync => tok = wm
      /\ resync => wm.k = "state" /\ (tok.k = "none" => keep = {})
      /\ Now \in Nat /\ AliveNow \subseteq Record /\ from \in -1..Now
      /\ wm.k = "state" => wm.n <= Now
      /\ Issued(tok) /\ Issued(wm)
      /\ \A i \in DOMAIN rows : rows[i].ver \in Nat /\ i \in Nat \ {0}
  BY <1>2, LogFacts DEF Cycling, Placed, Typed, Left, Issued, Table
<1>4. Reaches(tok, known)
  BY <1>2, <1>3 DEF Cycling, ListingKept
<1>5. /\ p \in Page /\ p.created \subseteq AliveNow /\ p.updated = {} /\ p.destroyed = {} /\ p.at = Now
      /\ Issued(p.new)
      /\ p.more => p.created # {} /\ p.new.k = "base" /\ Newest(AliveNow, p.new.n) \subseteq known \cup p.created
      /\ ~p.more => p.new = StateToken(Now) /\ AliveNow \subseteq known \cup p.created
  BY <1>4, BaselinePage
<1>6. p.more \in BOOLEAN
  BY <1>5 DEF Page
<1>7. /\ pc' \in {"apply", "save", "scan"} /\ InHand'
      /\ pc' # "apply" => Left(p) = {}
      /\ pc' = "save" => ~resync
      /\ pc' = "scan" => resync /\ ~p.more
      /\ ~resync => tok' = tok
  BY <1>2, <1>3, <1>5, <1>6 DEF AfterPage, InHand, Left
<1>8. Found' = known \cup p.created
  BY <1>2 DEF Found, Sids
<1>9. from' \in 0..Now
  <2>1. tok.k # "none" => from # -1
    BY <1>3 DEF Cycling, Placed
  <2> QED BY <1>2, <1>3, <2>1
<1>10. Typed'
  <2>1. Issued(wm)' /\ Issued(page.new)' /\ Issued(tok)'
    <3>1. Issued(p.new)' /\ Issued(wm)'
      BY <1>2, <1>3, <1>5 DEF Issued
    <3> QED BY <1>2, <1>3, <1>5, <3>1 DEF Issued
  <2>2. keep' \subseteq Record
    BY <1>2, <1>3, <1>5 DEF Cycling, Typed
  <2> QED BY <1>2, <1>5, <1>7, <1>9, <2>1, <2>2 DEF Cycling, Typed, Table
<1>11. Placed'
  BY <1>2, <1>3, <1>7, <1>9 DEF Placed, Left
<1>12. Truthful'
  <2>1. \A r \in p.created : Alive(log, r, Now) /\ r \notin buried
    BY <1>3, <1>5, AliveOrDead DEF AliveNow, Cycling, Truthful
  <2>2. \A i \in DOMAIN rows : rows[i].sid # None => rows[i].ver <= Now
    <3>1. DOMAIN log = 1..Now
      BY LogFacts DEF Cycling
    <3> QED BY <1>3, <3>1 DEF Cycling, Truthful, Held
  <2> QED BY <1>2, <1>3, <1>5, <2>1, <2>2 DEF Cycling, Truthful
<1>13. ListingKept'
  <2>1. Reaches(wm, Sids(rows))'
    BY <1>2 DEF Cycling, ListingKept, Reaches, Sids
  <2>2. (resync => keep \subseteq Sids(rows) \cup page.created)'
    BY <1>2, <1>3 DEF Cycling, ListingKept, Sids
  <2>3. p.more => Reaches(page.new, Found)'
    BY <1>2, <1>5, <1>8 DEF Reaches
  <2>4. from' <= p.at /\ p.created \subseteq Found'
    BY <1>5, <1>8, <1>9
  <2> QED BY <1>2, <1>5, <1>6, <1>7, <1>8, <2>1, <2>2, <2>3, <2>4 DEF ListingKept
<1>14. Fresh'
  <2>1. from' # from => /\ ~resync => Sids(rows) = {}
                        /\ resync => keep = {}
    BY <1>2, <1>3 DEF Cycling, Placed
  <2>2. \A i \in DOMAIN rows : rows[i].sid # None => rows[i].sid \in Sids(rows)
    BY SidsAre DEF Cycling, Typed
  <2>3. wm.k # "state" => \A i \in DOMAIN rows : rows[i].sid # None => rows[i].ver >= Ver(log, rows[i].sid, from')
    BY <1>3, <2>1, <2>2 DEF Cycling, Fresh
  <2>4. resync => \A i \in DOMAIN rows : rows[i].sid \in keep' \ p.created => rows[i].ver >= Ver(log, rows[i].sid, from')
    BY <1>2, <1>3, <2>1 DEF Cycling, Fresh
  <2> QED BY <1>2, <2>3, <2>4 DEF Fresh
<1>15. Scanning'
  BY <1>2, <1>3, <1>7 DEF Scanning, None
<1>16. Changing' /\ Seen'
  BY <1>2, <1>7 DEF Changing, Changes, Seen
<1>17. WatermarkHonest'
  BY <1>2 DEF Cycling, WatermarkHonest, Abreast, Sids
<1> QED BY <1>10, <1>11, <1>12, <1>13, <1>14, <1>15, <1>16, <1>17 DEF Cycling

\* A page of changes up to server state j: what it lists, and what it may leave out.
LEMMA ChangesPage ==
  ASSUME Cycling, tok.k = "state", NEW p \in Answers(tok), Advanced(p)
  PROVE  \E j \in tok.n..Now :
           /\ p \in Page /\ p.at = Now /\ p.new = StateToken(j)
           /\ \A r : r \in p.created \cup p.updated <=> r \in AliveNow /\ Ver(log, r, j) > tok.n
           /\ \A r \in p.destroyed : Dead(log, r, j)
           /\ \A r \in Record : Ver(log, r, j) > tok.n /\ Dead(log, r, j) /\ r \notin p.destroyed =>
                ~Alive(log, r, tok.n)
<1>1. tok = StateToken(tok.n) /\ tok.n \in 0..Now /\ Now \in Nat /\ AliveNow \subseteq Record
  BY LogFacts DEF Cycling, Typed, Issued
<1>2. p # StuckPage(tok.n)
  BY <1>1 DEF Advanced, StuckPage, NoPage
<1>3. PICK j \in (tok.n + 1)..Now \cup {Now}, brief \in BOOLEAN : p = ChangesUpTo(tok.n, j, brief)
  BY <1>2 DEF Answers, ChangesPages
<1>4. j \in tok.n..Now /\ j \in Nat
  BY <1>1
<1> DEFINE i == tok.n
           touched == {r \in Record : Ver(log, r, j) > i}
           made == {r \in touched \cap AliveNow : Ver(log, r, i) = 0}
           moved == {r \in touched \cap AliveNow : Ver(log, r, i) # 0}
           gone == {r \in touched : Dead(log, r, j) /\ (Alive(log, r, i) \/ ~brief)}
<1>5. p = [created |-> made, updated |-> moved, destroyed |-> gone, at |-> Now, new |-> StateToken(j), more |-> j < Now]
  BY <1>3 DEF ChangesUpTo
<1>6. made \in SUBSET Record /\ moved \in SUBSET Record /\ gone \in SUBSET Record
  OBVIOUS
<1>7. \A r : r \in made \cup moved <=> r \in AliveNow /\ Ver(log, r, j) > i
  BY <1>1
<1>8. \A r \in gone : Dead(log, r, j)
  OBVIOUS
<1>9. \A r \in Record : Ver(log, r, j) > i /\ Dead(log, r, j) /\ r \notin gone => ~Alive(log, r, i)
  OBVIOUS
<1> HIDE DEF made, moved, gone
<1>10. StateToken(j) \in Token /\ (j < Now) \in BOOLEAN
  BY <1>4 DEF StateToken, Token
<1>11. p \in Page
  BY <1>1, <1>5, <1>6, <1>10 DEF Page
<1>12. p.created = made /\ p.updated = moved /\ p.destroyed = gone /\ p.at = Now /\ p.new = StateToken(j)
  BY <1>5
<1> QED BY <1>4, <1>7, <1>8, <1>9, <1>11, <1>12

LEMMA ChangesPageKeeps ==
  ASSUME Cycling, Fetch, tok.k = "state"
  PROVE  Cycling'
<1>1. PICK p \in Answers(tok) : Advanced(p) /\ keep' = Kept(p) /\ Continue(p)
  BY DEF Fetch
<1>2. /\ pc = "fetch" /\ ~resync /\ wm = tok /\ Left(page) = {} /\ after = None /\ stale = {}
      /\ resync \in BOOLEAN
  BY DEF Fetch, Cycling, Placed, Typed
<1>3. /\ page' = p /\ pc' = (IF Left(p) # {} THEN "apply" ELSE "save")
      /\ UNCHANGED <<kind, log, oldest, stuck, rows, wm, tok, resync, keep, after, stale, faults, from, torn, buried>>
      /\ Now' = Now /\ AliveNow' = AliveNow
      /\ InHand' /\ Changes' /\ ~Baseline'
  BY <1>1, <1>2 DEF Fetch, Continue, Kept, AfterPage, server, Now, AliveNow, InHand, Changes, Baseline
<1> DEFINE i == tok.n
<1>4. PICK j \in i..Now :
           /\ p \in Page /\ p.at = Now /\ p.new = StateToken(j)
           /\ \A r : r \in p.created \cup p.updated <=> r \in AliveNow /\ Ver(log, r, j) > i
           /\ \A r \in p.destroyed : Dead(log, r, j)
           /\ \A r \in Record : Ver(log, r, j) > i /\ Dead(log, r, j) /\ r \notin p.destroyed =>
                ~Alive(log, r, i)
  BY <1>1, <1>2, ChangesPage
<1>5. /\ Len(log) \in Nat /\ Now = Len(log) /\ DOMAIN log = 1..Len(log) /\ Final(log)
      /\ i \in 0..Len(log) /\ j \in i..Len(log) /\ j \in 0..Len(log) /\ j \in Nat /\ i <= j
      /\ AliveNow \subseteq Record /\ \A r \in Record : r \in AliveNow <=> Alive(log, r, Len(log))
      /\ Issued(wm) /\ Issued(tok)
  BY LogFacts DEF Cycling, Typed, Issued
<1>6. Typed'
  <2>1. Issued(wm)' /\ Issued(tok)'
    BY <1>3, <1>5 DEF Issued
  <2>2. Issued(page.new)'
    <3>1. StateToken(j) \in Token /\ StateToken(j).k = "state" /\ StateToken(j).n = j
      BY <1>5 DEF StateToken, Token
    <3> QED BY <1>3, <1>4, <1>5, <3>1 DEF Issued
  <2> QED BY <1>3, <1>4, <2>1, <2>2 DEF Cycling, Typed, Table
<1>7. Placed'
  BY <1>2, <1>3 DEF Cycling, Placed, Left, Sids
<1>8. Truthful'
  <2>1. \A r \in p.created \cup p.updated : Alive(log, r, Now) /\ r \notin buried
    BY <1>4, AliveOrDead DEF AliveNow, Cycling, Truthful
  <2>2. \A r \in p.destroyed : Dead(log, r, Now)
    <3>1. Now \in j..Len(log)
      BY <1>5
    <3> QED BY <1>4, <1>5, <3>1, DeadStays
  <2>3. \A n \in DOMAIN rows : rows[n].sid # None => rows[n].ver <= Now
    BY <1>5 DEF Cycling, Truthful, Held
  <2>4. wm.n <= Now
    BY <1>2, <1>5
  <2> QED BY <1>3, <1>4, <1>5, <2>1, <2>2, <2>3, <2>4 DEF Cycling, Truthful
<1>9. ListingKept' /\ Fresh'
  BY <1>2, <1>3 DEF ListingKept, Reaches, Fresh
<1>10. Scanning'
  BY <1>2, <1>3 DEF Scanning
<1>11. Changing'
  <2>1. p.new.k = "state" /\ p.new.n = j
    BY <1>4 DEF StateToken
  <2>2. Torn' = {r \in torn : Ver(log, r, j) <= i \/ (Ver(log, r, i) = 0 /\ Dead(log, r, j))}
    BY <1>2, <1>3, <2>1 DEF Torn
  <2>3. \A r : /\ Ver(log, r, j) \in Nat /\ Ver(log, r, i) \in Nat /\ Ver(log, r, i) <= Ver(log, r, j)
               /\ Ver(log, r, j) <= i => Ver(log, r, j) = Ver(log, r, i)
    BY <1>5, VerIs, VerGrows
  <2>4. \A r \in p.created \cup p.updated : Ver(log, r, j) # 0
    <3>1. \A r : Ver(log, r, j) > i => Ver(log, r, j) # 0
      BY <1>5, <2>3
    <3> QED BY <1>4, <3>1
  <2>5. ASSUME NEW r \in AliveNow, Alive(log, r, j)
        PROVE  r \in Sids(rows) \cup p.created \cup p.updated
    <3>1. CASE Ver(log, r, j) > i
      BY <1>4, <3>1
    <3>2. CASE ~(Ver(log, r, j) > i)
      <4>1. Ver(log, r, j) = Ver(log, r, i)
        BY <1>5, <2>3, <3>2
      <4>2. Alive(log, r, i)
        BY <2>5, <4>1 DEF Alive
      <4> QED BY <1>2, <4>2 DEF Cycling, WatermarkHonest
    <3> QED BY <3>1, <3>2
  <2>6. \A n \in DOMAIN rows : rows[n].sid \notin torn \cup {None} => Ver(log, rows[n].sid, i) # 0
    BY <1>2 DEF Cycling, Seen, InHand
  <2>7. ASSUME NEW n \in DOMAIN rows, rows[n].sid \notin torn \cup {None}
        PROVE  Ver(log, rows[n].sid, j) # 0
    BY <2>3, <2>6, <2>7
  <2>8. ASSUME NEW n \in DOMAIN rows, rows[n].sid \notin Torn' \cup {None} \cup Left(p)
        PROVE  Abreast(n, j)
    <3> DEFINE r == rows[n].sid
    <3>1. r \in Record
      BY <2>8, SidsAre DEF Cycling, Typed
    <3>2. CASE Ver(log, r, j) <= i
      <4>1. Ver(log, r, j) = Ver(log, r, i) /\ r \notin torn
        BY <2>2, <2>3, <2>8, <3>2
      <4>2. Abreast(n, i)
        BY <1>2, <2>8, <4>1 DEF Cycling, WatermarkHonest
      <4> QED BY <4>1, <4>2 DEF Abreast, Alive
    <3>3. CASE Ver(log, r, j) > i
      <4>1. r \notin AliveNow /\ r \notin p.destroyed
        BY <1>4, <2>8, <3>3 DEF Left
      <4>2. Ver(log, r, j) # 0 /\ Ver(log, r, Len(log)) # 0
        <5>1. Ver(log, r, j) <= Ver(log, r, Len(log)) /\ Ver(log, r, Len(log)) \in Nat
          BY <1>5, VerGrows, VerIs
        <5> QED BY <1>5, <2>3, <3>3, <5>1
      <4>3. Dead(log, r, Now)
        BY <1>5, <3>1, <4>1, <4>2, AliveOrDead
      <4>4. ~Dead(log, r, j)
        <5> SUFFICES ASSUME Dead(log, r, j) PROVE FALSE
          OBVIOUS
        <5>1. ~Alive(log, r, i)
          BY <1>4, <3>1, <3>3, <4>1
        <5>2. ~Dead(log, r, i)
          <6>1. Dead(log, r, i) => Ver(log, r, j) = Ver(log, r, i)
            BY <1>5, DeadStays
          <6>2. Ver(log, r, i) <= i
            BY <1>5, VerIs
          <6> QED BY <1>5, <2>3, <3>3, <6>1, <6>2
        <5>3. Ver(log, r, i) = 0
          BY <5>1, <5>2, AliveOrDead
        <5>4. r \notin torn
          BY <2>2, <2>8, <5>3
        <5> QED BY <2>6, <2>8, <5>3, <5>4
      <4> QED BY <4>2, <4>3, <4>4, AliveOrDead DEF Abreast
    <3> QED BY <1>5, <2>3, <3>2, <3>3
  <2>9. \A n \in DOMAIN rows : Abreast(n, j) => Abreast(n, j)'
    BY <1>3 DEF Abreast
  <2> QED BY <1>3, <1>4, <1>5, <2>1, <2>4, <2>5, <2>7, <2>8, <2>9 DEF Changing, Sids
<1>12. Seen'
  BY <1>3 DEF Seen
<1>13. WatermarkHonest'
  BY <1>3 DEF Cycling, WatermarkHonest, Abreast, Sids
<1> QED BY <1>6, <1>7, <1>8, <1>9, <1>10, <1>11, <1>12, <1>13 DEF Cycling
-----------------------------------------------------------------------------
(* The theorems. *)

LEMMA CyclingInit ==
  ASSUME Init
  PROVE  Cycling
<1>1. /\ kind \in SyncKinds /\ log = Genesis /\ oldest = 0 /\ stuck = FALSE
      /\ rows = [i \in 1..(IF kind = "message" THEN Drafts ELSE 0) |-> Draft]
      /\ wm = NoToken /\ pc = "idle" /\ tok = NoToken /\ resync = FALSE /\ page = NoPage
      /\ keep = {} /\ after = None /\ stale = {}
      /\ faults = 0 /\ from = -1 /\ torn = {} /\ buried = {}
  BY DEF Init
<1>2. Draft \in Row /\ Draft.sid = None
  BY DEF Draft, Row, None
<1>3. \A i \in DOMAIN rows : i \in 1..1 /\ kind = "message" /\ rows[i] = Draft
  BY <1>1, SyncInputs
<1>4. Table(rows) /\ Sids(rows) = {}
  <2>1. DOMAIN rows \subseteq 1..1 /\ 1 \in Nat
    BY <1>3
  <2>2. \E b \in Nat : DOMAIN rows \subseteq 1..b
    BY <2>1
  <2> QED BY <1>2, <1>3, <2>2 DEF Table, Sids
<1>5. NoToken \in Token /\ NoToken.k = "none" /\ NoPage \in Page /\ NoPage.new = NoToken /\ Left(NoPage) = {}
  BY DEF NoToken, Token, NoPage, Page, Left
<1>6. ~InHand
  BY <1>1 DEF InHand
<1>7. Typed
  <2>1. Issued(wm) /\ Issued(tok) /\ Issued(page.new)
    BY <1>1, <1>5 DEF Issued
  <2>2. log \in Seq(Entry(Record)) /\ Now \in Nat /\ Now <= MaxLog /\ Final(log)
    BY <1>1, SyncInputs DEF Now
  <2>3. oldest \in 0..Now /\ from \in -1..Now /\ faults \in 0..MaxFaults /\ after \in Nat
    BY <1>1, <2>2, SyncSizes DEF None
  <2> QED BY <1>1, <1>4, <1>5, <2>1, <2>2, <2>3 DEF Typed
<1>8. Placed
  BY <1>1, <1>4, <1>5, <1>6 DEF Placed
<1>9. Truthful
  BY <1>1, <1>2, <1>3, <1>6 DEF Truthful
<1>10. ListingKept /\ Fresh /\ Scanning
  BY <1>1, <1>2, <1>3, <1>5, <1>6 DEF ListingKept, Reaches, Baseline, Fresh, Scanning
<1>11. Changing /\ Seen /\ WatermarkHonest
  BY <1>1, <1>5, <1>6 DEF Changing, Changes, Seen, WatermarkHonest
<1> QED BY <1>7, <1>8, <1>9, <1>10, <1>11 DEF Cycling


LEMMA CyclingNext ==
  ASSUME Cycling, [Next]_vars
  PROVE  Cycling' /\ \A i \in DOMAIN rows \ DOMAIN rows' : Dead(log, rows[i].sid, Now)
<1>1. CASE Begin
  <2>1. rows' = rows
    BY <1>1 DEF Begin
  <2> QED BY <1>1, <2>1, BeginKeeps
<1>2. CASE Fetch
  <2>1. rows' = rows
    BY <1>2 DEF Fetch
  <2> QED BY <1>2, <2>1, ListingPageKeeps, ChangesPageKeeps
<1>3. CASE FetchRefused
  <2>1. rows' = rows
    BY <1>3 DEF FetchRefused
  <2> QED BY <1>3, <2>1, RefusedKeeps
<1>4. CASE FetchReset
  <2>1. rows' = rows
    BY <1>4 DEF FetchReset
  <2> QED BY <1>4, <2>1, ResetKeeps
<1>5. CASE ApplyCreated \/ ApplyUpdated
  <2>1. PICK chunk \in SUBSET (page.created \cup page.updated) :
          Applies(chunk) /\ Commit(Upsert(rows, chunk, page.at))
    BY <1>5, ChunkApplies
  <2>2. DOMAIN rows \subseteq DOMAIN rows'
    BY <2>1, UpsertTyped
  <2> QED BY <2>1, <2>2, UpsertKeeps
<1>6. CASE ApplyDestroyed
  BY <1>6, DestroyedKeeps
<1>7. CASE Scan
  <2>1. rows' = rows
    BY <1>7 DEF Scan
  <2> QED BY <1>7, <2>1, ScanKeeps
<1>8. CASE DeleteStale
  BY <1>8, DeleteStaleKeeps
<1>9. CASE Save
  <2>1. rows' = rows
    BY <1>9 DEF Save
  <2> QED BY <1>9, <2>1, SaveKeeps
<1>10. CASE Stop
  <2>1. rows' = rows
    BY <1>10 DEF Stop
  <2> QED BY <1>10, <2>1, StopKeeps
<1>11. CASE Change
  <2>1. rows' = rows
    BY <1>11 DEF Change
  <2> QED BY <1>11, <2>1, ChangeKeeps
<1>12. CASE Forget \/ Wedge \/ Unwedge
  <2>1. rows' = rows
    BY <1>12 DEF Forget, Wedge, Unwedge
  <2> QED BY <1>12, <2>1, ServerKeeps
<1>13. CASE UNCHANGED vars
  <2>1. UNCHANGED <<kind, log, oldest, stuck, rows, wm, pc, tok, resync, page, keep, after, stale,
                    faults, from, torn, buried>>
    BY <1>13 DEF vars, server, cycle
  <2>2. /\ Now' = Now /\ AliveNow' = AliveNow /\ InHand' = InHand /\ Baseline' = Baseline /\ Changes' = Changes
        /\ Torn' = Torn /\ Found' = Found
    BY <2>1 DEF Now, AliveNow, InHand, Baseline, Changes, Torn, Found, Sids
  <2>3. Typed'
    BY <2>1, <2>2 DEF Cycling, Typed, Issued, Table
  <2>4. Placed' /\ Truthful'
    BY <2>1, <2>2 DEF Cycling, Placed, Left, Sids, Truthful
  <2>5. ListingKept' /\ Fresh'
    BY <2>1, <2>2 DEF Cycling, ListingKept, Reaches, Sids, Fresh
  <2>6. Scanning' /\ Changing' /\ Seen'
    BY <2>1, <2>2 DEF Cycling, Scanning, Changing, Left, Sids, Abreast, Seen
  <2>7. WatermarkHonest'
    BY <2>1, <2>2 DEF Cycling, WatermarkHonest, Abreast, Sids
  <2> QED BY <2>1, <2>3, <2>4, <2>5, <2>6, <2>7 DEF Cycling
<1> QED BY <1>1, <1>2, <1>3, <1>4, <1>5, <1>6, <1>7, <1>8, <1>9, <1>10, <1>11, <1>12, <1>13
        DEF Next, Work, Server

THEOREM CyclingAlways == Spec => []Cycling
<1>1. Init => Cycling
  BY CyclingInit
<1>2. Cycling /\ [Next]_vars => Cycling'
  BY CyclingNext
<1> QED BY <1>1, <1>2, PTL DEF Spec

\* Every variable has its type, and no two rows have the same server id.
THEOREM TypeCorrect == Spec => []TypeOK
<1>1. Cycling => TypeOK
  <2> SUFFICES ASSUME Cycling PROVE TypeOK
    OBVIOUS
  <2>1. DOMAIN rows \subseteq Nat \ {0} /\ IsFiniteSet(DOMAIN rows)
    <3>1. PICK b \in Nat : DOMAIN rows \subseteq 1..b
      BY DEF Cycling, Typed, Table
    <3>2. IsFiniteSet(1..b)
      BY FS_Interval
    <3>3. IsFiniteSet(DOMAIN rows)
      BY <3>1, <3>2, FS_Subset
    <3> QED BY <3>1, <3>3
  <2>2. /\ \A i \in DOMAIN rows : rows[i] \in Row
        /\ \A i, j \in DOMAIN rows : rows[i].sid = rows[j].sid /\ rows[i].sid # None => i = j
    BY DEF Cycling, Typed, Table
  <2>3. wm \in Token /\ tok \in Token
    BY DEF Cycling, Typed, Issued
  <2> QED BY <2>1, <2>2, <2>3 DEF TypeOK, Cycling, Typed
<1> QED BY <1>1, CyclingAlways, PTL

\* The watermark is a promise kept (SyncKind, applyAndAdvance, fullResync): under a
\* state token the rows are all the records there were then and still are, and none
\* is behind that state but those of records a listing was torn over.
THEOREM WatermarkIsHonest == Spec => []WatermarkHonest
<1>1. Cycling => WatermarkHonest
  BY DEF Cycling
<1> QED BY <1>1, CyclingAlways, PTL

\* No row is deleted (deleteStale, and the destroyed of a page) but of a record the
\* server has destroyed: no draft, and no record that a listing has missed.
THEOREM OnlyTheGoneAreDeleted == Spec => StaleIsGone
<1>1. Cycling /\ [Next]_vars => [\A i \in DOMAIN rows \ DOMAIN rows' : Dead(log, rows[i].sid, Now)]_vars
  BY CyclingNext
<1> QED BY <1>1, CyclingAlways, PTL DEF Spec, StaleIsGone
-----------------------------------------------------------------------------
(* The rows are a replica of the server. *)

\* The version a table holds of each record.
CopyIn(t) == [r \in Record |-> IF r \in Sids(t) THEN t[RowOf(t, r)].ver ELSE 0]

LEMMA CopyIs ==
  ASSUME NEW t, Table(t), NEW l, NEW n \in Nat, DOMAIN l = 1..n,
         \A i \in DOMAIN t : t[i].sid # None => Held(l, t[i].sid, t[i].ver)
  PROVE  /\ CopyIn(t) \in [Record -> 0..n]
         /\ \A r \in Record : CopyIn(t)[r] # 0 <=> r \in Sids(t)
         /\ \A i \in DOMAIN t : t[i].sid # None => CopyIn(t)[t[i].sid] = t[i].ver
<1>1. /\ Sids(t) \subseteq Record
      /\ \A i \in DOMAIN t : t[i].sid # None => t[i].sid \in Sids(t) /\ t[i].sid \in Record
      /\ \A r \in Sids(t) : RowOf(t, r) \in DOMAIN t /\ t[RowOf(t, r)].sid = r
      /\ \A i \in DOMAIN t : t[i].sid # None => RowOf(t, t[i].sid) = i
  BY SidsAre
<1>2. \A r \in Sids(t) : t[RowOf(t, r)].ver \in 1..n
  <2> SUFFICES ASSUME NEW r \in Sids(t) PROVE t[RowOf(t, r)].ver \in 1..n
    OBVIOUS
  <2>1. r # None
    BY <1>1, RecordsFinite
  <2> QED BY <1>1, <2>1 DEF Held
<1>3. \A r \in Record : CopyIn(t)[r] = IF r \in Sids(t) THEN t[RowOf(t, r)].ver ELSE 0
  BY DEF CopyIn
<1>4. CopyIn(t) = [r \in Record |-> CopyIn(t)[r]]
  BY DEF CopyIn
<1>5. \A r \in Record : CopyIn(t)[r] \in 0..n /\ (CopyIn(t)[r] # 0 <=> r \in Sids(t))
  BY <1>2, <1>3
<1>6. CopyIn(t) \in [Record -> 0..n]
  BY <1>4, <1>5
<1>7. \A i \in DOMAIN t : t[i].sid # None => CopyIn(t)[t[i].sid] = t[i].ver
  BY <1>1, <1>3
<1> QED BY <1>5, <1>6, <1>7

\* Replica speaks of a log as ChangeLog does.
LEMMA SameLog ==
  /\ Local!Ops = Ops
  /\ \A r \in Record : \A op : Local!Legal(log, r, op) = Legal(log, r, op)
  /\ \A r, v : Local!Held(log, r, v) = Held(log, r, v)
  /\ \A r, i : Local!Dead(log, r, i) = Dead(log, r, i)
<1>1. \A r, i : Local!Ver(log, r, i) = Ver(log, r, i)
  BY DEF Local!Ver, Ver, Local!Max, Max
<1> QED BY <1>1 DEF Local!Ops, Ops, Local!Legal, Legal, Local!Alive, Alive, Local!Held, Held, Local!Dead, Dead

\* An upsert moves the copy forward, to what its records were on the page.
LEMMA UpsertRefreshes ==
  ASSUME Cycling, ApplyCreated \/ ApplyUpdated
  PROVE  Local!Refresh
<1>1. PICK chunk \in SUBSET (page.created \cup page.updated) :
        Applies(chunk) /\ Commit(Upsert(rows, chunk, page.at))
  BY ChunkApplies
<1>2. /\ log' = log /\ Table(rows) /\ InHand /\ Cycling'
      /\ Len(log) \in Nat /\ Now = Len(log) /\ DOMAIN log = 1..Len(log)
      /\ page.created \subseteq Record /\ page.updated \subseteq Record /\ page.at \in 0..Len(log)
  <2>1. log' = log /\ InHand /\ Cycling'
    BY <1>1, GoesOn, UpsertKeeps
  <2> QED BY <2>1, LogFacts DEF Cycling, Typed, Truthful
<1>3. /\ buried' = buried /\ Table(rows')
      /\ DOMAIN rows \subseteq DOMAIN rows' /\ Sids(rows') = Sids(rows) \cup chunk
      /\ \A i \in DOMAIN rows : rows'[i].sid = rows[i].sid
      /\ \A i \in DOMAIN rows' : rows'[i].sid \in chunk => rows'[i].ver = Ver(log, rows'[i].sid, page.at)
      /\ \A i \in DOMAIN rows' : rows'[i].sid \notin chunk => i \in DOMAIN rows /\ rows'[i].ver = rows[i].ver
  BY <1>1, UpsertTyped DEF Typed
<1>4. /\ \A i \in DOMAIN rows : rows[i].sid # None => Held(log, rows[i].sid, rows[i].ver)
      /\ \A i \in DOMAIN rows : rows[i].sid # None => rows[i].ver <= page.at
      /\ \A r \in chunk : Alive(log, r, page.at) /\ r \notin buried
  BY <1>2 DEF Cycling, Truthful
<1>5. \A i \in DOMAIN rows' : rows'[i].sid # None => Held(log, rows'[i].sid, rows'[i].ver)
  BY <1>2 DEF Cycling, Truthful
<1> DEFINE old == CopyIn(rows)
           new == CopyIn(rows')
<1>6. /\ old \in [Record -> 0..Len(log)] /\ new \in [Record -> 0..Len(log)]
      /\ \A r \in Record : (old[r] # 0 <=> r \in Sids(rows)) /\ (new[r] # 0 <=> r \in Sids(rows'))
      /\ \A i \in DOMAIN rows : rows[i].sid # None => old[rows[i].sid] = rows[i].ver
      /\ \A i \in DOMAIN rows' : rows'[i].sid # None => new[rows'[i].sid] = rows'[i].ver
  BY <1>2, <1>3, <1>4, <1>5, CopyIs
<1>7. \A r \in Sids(rows') : RowOf(rows', r) \in DOMAIN rows' /\ rows'[RowOf(rows', r)].sid = r
                             /\ r \in Record /\ r # None
  BY <1>3, SidsAre, RecordsFinite
<1>8. Copy = old /\ Copy' = new
  BY DEF Copy, CopyIn
<1> HIDE DEF old, new
<1>9. ASSUME NEW r \in Record
      PROVE  new[r] = old[r] \/ (r \notin buried /\ new[r] > old[r] /\ Held(log, r, new[r]))
  <2>1. CASE r \in chunk
    <3> DEFINE i == RowOf(rows', r)
    <3>1. i \in DOMAIN rows' /\ rows'[i].sid = r /\ r # None /\ new[r] = rows'[i].ver
      BY <1>3, <1>6, <1>7, <2>1
    <3>2. new[r] = Ver(log, r, page.at) /\ Held(log, r, new[r])
      BY <1>3, <1>5, <2>1, <3>1
    <3>3. old[r] <= new[r]
      <4>1. CASE r \in Sids(rows)
        <5> DEFINE k == RowOf(rows, r)
        <5>1. k \in DOMAIN rows /\ rows[k].sid = r
          BY <1>2, <4>1, SidsAre
        <5>2. old[r] = rows[k].ver /\ Held(log, r, old[r]) /\ old[r] <= page.at
          BY <1>4, <1>6, <3>1, <5>1
        <5> QED BY <1>2, <3>2, <5>2, HeldIsOld
      <4>2. CASE r \notin Sids(rows)
        BY <1>6, <4>2
      <4> QED BY <4>1, <4>2
    <3>4. old[r] \in Nat /\ new[r] \in Nat
      BY <1>6
    <3> QED BY <1>4, <2>1, <3>2, <3>3, <3>4
  <2>2. CASE r \notin chunk /\ r \in Sids(rows')
    <3> DEFINE i == RowOf(rows', r)
    <3>1. i \in DOMAIN rows' /\ rows'[i].sid = r /\ r # None
      BY <1>7, <2>2
    <3>2. i \in DOMAIN rows /\ rows[i].sid = r /\ rows'[i].ver = rows[i].ver
      BY <1>3, <2>2, <3>1
    <3> HIDE DEF i
    <3> QED BY <1>6, <3>1, <3>2
  <2>3. CASE r \notin Sids(rows')
    <3>1. r \notin Sids(rows)
      BY <1>3, <2>3
    <3> QED BY <1>6, <2>3, <3>1
  <2> QED BY <2>1, <2>2, <2>3
<1>10. buried' = buried \cup {r \in Record : old[r] # 0 /\ new[r] = 0}
  BY <1>3, <1>6
<1>11. \A r \in Record : Copy'[r] = Copy[r] \/ Local!Advance(r) \/ Local!Drop(r)
  BY <1>8, <1>9, SameLog DEF Local!Advance
<1>12. Copy' \in [Record -> 0..Len(log)] /\ buried' = buried \cup {r \in Record : Copy[r] # 0 /\ Copy'[r] = 0}
  BY <1>6, <1>8, <1>10
<1> QED BY <1>2, <1>11, <1>12 DEF Local!Refresh

\* Deletes drop records that the server has destroyed.
LEMMA DeletesRefresh ==
  ASSUME Cycling, Cycling', log' = log, DOMAIN rows' \subseteq DOMAIN rows,
         \A i \in DOMAIN rows' : rows'[i] = rows[i],
         \A i \in DOMAIN rows \ DOMAIN rows' : Dead(log, rows[i].sid, Now),
         buried' = buried \cup (Sids(rows) \ Sids(rows'))
  PROVE  Local!Refresh
<1>1. /\ Table(rows) /\ Table(rows')
      /\ Len(log) \in Nat /\ Now = Len(log) /\ DOMAIN log = 1..Len(log)
  <2>1. Typed /\ Table(rows) /\ Table(rows')
    BY DEF Cycling, Typed
  <2> QED BY <2>1, LogFacts
<1>2. /\ \A i \in DOMAIN rows : rows[i].sid # None => Held(log, rows[i].sid, rows[i].ver)
      /\ \A i \in DOMAIN rows' : rows'[i].sid # None => Held(log, rows'[i].sid, rows'[i].ver)
  BY DEF Cycling, Truthful
<1> DEFINE old == CopyIn(rows)
           new == CopyIn(rows')
<1>3. /\ old \in [Record -> 0..Len(log)] /\ new \in [Record -> 0..Len(log)]
      /\ \A r \in Record : (old[r] # 0 <=> r \in Sids(rows)) /\ (new[r] # 0 <=> r \in Sids(rows'))
      /\ \A i \in DOMAIN rows : rows[i].sid # None => old[rows[i].sid] = rows[i].ver
      /\ \A i \in DOMAIN rows' : rows'[i].sid # None => new[rows'[i].sid] = rows'[i].ver
  BY <1>1, <1>2, CopyIs
<1>4. /\ \A r \in Sids(rows) : RowOf(rows, r) \in DOMAIN rows /\ rows[RowOf(rows, r)].sid = r
      /\ \A r \in Record : r \in Sids(rows') <=> \E i \in DOMAIN rows' : rows'[i].sid = r
      /\ Sids(rows) \subseteq Record /\ Sids(rows') \subseteq Record
      /\ \A r \in Record : r # None
  BY <1>1, SidsAre, RecordsFinite
<1>5. Copy = old /\ Copy' = new
  BY DEF Copy, CopyIn
<1> HIDE DEF old, new
<1>6. ASSUME NEW r \in Record
      PROVE  new[r] = old[r] \/ (old[r] # 0 /\ new[r] = 0 /\ Dead(log, r, Now))
  <2>1. CASE r \in Sids(rows')
    <3>1. PICK i \in DOMAIN rows' : rows'[i].sid = r
      BY <1>4, <2>1
    <3>2. rows[i].sid = r /\ rows'[i].ver = rows[i].ver /\ i \in DOMAIN rows
      BY <3>1
    <3> QED BY <1>3, <1>4, <3>1, <3>2
  <2>2. CASE r \in Sids(rows) /\ r \notin Sids(rows')
    <3>1. RowOf(rows, r) \in DOMAIN rows /\ rows[RowOf(rows, r)].sid = r
      BY <1>4, <2>2
    <3>2. RowOf(rows, r) \notin DOMAIN rows'
      BY <1>4, <2>2, <3>1
    <3> QED BY <1>3, <2>2, <3>1, <3>2
  <2>3. CASE r \notin Sids(rows) /\ r \notin Sids(rows')
    BY <1>3, <2>3
  <2> QED BY <2>1, <2>2, <2>3
<1>7. buried' = buried \cup {r \in Record : old[r] # 0 /\ new[r] = 0}
  BY <1>3, <1>4
<1>8. \A r \in Record : Copy'[r] = Copy[r] \/ Local!Advance(r) \/ Local!Drop(r)
  BY <1>1, <1>5, <1>6, SameLog DEF Local!Drop
<1>9. Copy' \in [Record -> 0..Len(log)] /\ buried' = buried \cup {r \in Record : Copy[r] # 0 /\ Copy'[r] = 0}
  BY <1>3, <1>5, <1>7
<1> QED BY <1>8, <1>9 DEF Local!Refresh

LEMMA RefinesStep ==
  ASSUME Cycling, [Next]_vars
  PROVE  [Local!Next]_Local!vars
<1>1. Cycling' /\ \A i \in DOMAIN rows \ DOMAIN rows' : Dead(log, rows[i].sid, Now)
  BY CyclingNext
<1>2. CASE ApplyCreated \/ ApplyUpdated
  BY <1>2, UpsertRefreshes DEF Local!Next
<1>3. CASE ApplyDestroyed
  <2>1. log' = log /\ Commit(DeleteRecords(rows, Newest(page.destroyed, ChunkSize)))
    BY <1>3 DEF ApplyDestroyed, server
  <2>2. DOMAIN rows' \subseteq DOMAIN rows /\ \A i \in DOMAIN rows' : rows'[i] = rows[i]
    BY <2>1, DeletesOf
  <2>3. buried' = buried \cup (Sids(rows) \ Sids(rows'))
    BY <2>1 DEF Commit
  <2> QED BY <1>1, <2>1, <2>2, <2>3, DeletesRefresh DEF Local!Next
<1>4. CASE DeleteStale
  <2> DEFINE chunk == {i \in stale : Cardinality({j \in stale : j < i}) < ChunkSize}
  <2>1. log' = log /\ Commit(Delete(rows, chunk))
    BY <1>4 DEF DeleteStale, server
  <2> HIDE DEF chunk
  <2>2. DOMAIN rows' \subseteq DOMAIN rows /\ \A i \in DOMAIN rows' : rows'[i] = rows[i]
    BY <2>1 DEF Commit, Delete
  <2>3. buried' = buried \cup (Sids(rows) \ Sids(rows'))
    BY <2>1 DEF Commit
  <2> QED BY <1>1, <2>1, <2>2, <2>3, DeletesRefresh DEF Local!Next
<1>5. CASE Change
  <2>1. PICK r \in Record, op \in Ops : Legal(log, r, op) /\ log' = Append(log, [rec |-> r, op |-> op])
    BY <1>5 DEF Change
  <2>2. rows' = rows /\ buried' = buried
    BY <1>5 DEF Change
  <2>3. Copy' = Copy
    BY <2>2 DEF Copy, Sids
  <2> QED BY <2>1, <2>2, <2>3, SameLog DEF Local!Next, Local!Change
<1>6. CASE Begin \/ Fetch \/ FetchRefused \/ FetchReset \/ Scan \/ Save \/ Stop \/ Forget \/ Wedge \/ Unwedge
  <2>1. rows' = rows /\ buried' = buried /\ log' = log
    BY <1>6 DEF Begin, Fetch, FetchRefused, FetchReset, Scan, Save, Stop, Forget, Wedge, Unwedge, server
  <2>2. Copy' = Copy
    BY <2>1 DEF Copy, Sids
  <2> QED BY <2>1, <2>2 DEF Local!vars
<1>7. CASE UNCHANGED vars
  <2>1. rows' = rows /\ buried' = buried /\ log' = log
    BY <1>7 DEF vars, server
  <2>2. Copy' = Copy
    BY <2>1 DEF Copy, Sids
  <2> QED BY <2>1, <2>2 DEF Local!vars
<1> QED BY <1>2, <1>3, <1>4, <1>5, <1>6, <1>7 DEF Next, Work, Server

\* Whatever the pages, stops and restarts, the local copy is a Replica of the server:
\* a record moves to later versions only, is dropped only once it is destroyed, and
\* once dropped never comes back.
THEOREM RowsAreAReplica == Spec => ImplementsReplica
<1>1. Init => Local!Init
  <2> SUFFICES ASSUME Init PROVE Local!Init
    OBVIOUS
  <2>1. log \in Seq(Entry(Record)) /\ buried = {}
    BY CyclingInit DEF Cycling, Typed, Init
  <2>2. \A i \in DOMAIN rows : rows[i] = Draft
    BY DEF Init
  <2>3. Sids(rows) = {}
    BY <2>2 DEF Sids, Draft
  <2>4. Copy = [r \in Record |-> 0]
    BY <2>3 DEF Copy
  <2> QED BY <2>1, <2>4 DEF Local!Init, Local!Entry, Entry, Local!Ops, Ops
<1>2. Cycling /\ [Next]_vars => [Local!Next]_Local!vars
  BY RefinesStep
<1> QED BY <1>1, <1>2, CyclingAlways, PTL DEF Spec, ImplementsReplica
=============================================================================
