------------------------- MODULE StoreWriterProofs -------------------------
(***************************************************************************)
(* Theorems about StoreWriter, for any callers, readers and numbers of     *)
(* calls: its variables are well typed, callers are told the truth, labels *)
(* never overstate, and nothing runs once Close has returned.              *)
(***************************************************************************)
EXTENDS StoreWriter, TLAPS

-----------------------------------------------------------------------------
(* Sequences. *)

LEMMA AppendTyped ==
  ASSUME NEW S, NEW s \in Seq(S), NEW x \in S
  PROVE  /\ Append(s, x) \in Seq(S)
         /\ DOMAIN Append(s, x) = DOMAIN s \cup {Len(s) + 1}
         /\ Len(Append(s, x)) = Len(s) + 1
         /\ \A k \in DOMAIN s : Append(s, x)[k] = s[k]
         /\ Append(s, x)[Len(s) + 1] = x
         /\ Len(s) \in Nat /\ DOMAIN s = 1..Len(s)
  OBVIOUS

LEMMA TailTyped ==
  ASSUME NEW S, NEW s \in Seq(S), s # <<>>
  PROVE  /\ Tail(s) \in Seq(S) /\ Head(s) \in S /\ Head(s) = s[1] /\ 1 \in DOMAIN s
         /\ DOMAIN Tail(s) = 1..(Len(s) - 1)
         /\ \A k \in DOMAIN Tail(s) : k + 1 \in DOMAIN s /\ Tail(s)[k] = s[k + 1]
         /\ \A k \in DOMAIN s : k # 1 => k - 1 \in DOMAIN Tail(s)
  OBVIOUS

\* A caller that leaves a lane leaves the others in it, in order.
LEMMA WithoutTyped ==
  ASSUME NEW S, NEW s \in Seq(S), NEW p \in DOMAIN s,
         \A j, k \in DOMAIN s : s[j] = s[k] => j = k
  PROVE  /\ Without(s, s[p]) \in Seq(S)
         /\ \A k \in DOMAIN Without(s, s[p]) :
              \E j \in DOMAIN s : j # p /\ Without(s, s[p])[k] = s[j]
         /\ \A j, k \in DOMAIN Without(s, s[p]) : Without(s, s[p])[j] = Without(s, s[p])[k] => j = k
         /\ \A j \in DOMAIN s : j # p => \E k \in DOMAIN Without(s, s[p]) : Without(s, s[p])[k] = s[j]
<1> DEFINE w == [k \in 1..(Len(s) - 1) |-> IF k < p THEN s[k] ELSE s[k + 1]]
<1>1. Len(s) \in Nat /\ DOMAIN s = 1..Len(s) /\ p \in 1..Len(s)
  OBVIOUS
<1>2. p = CHOOSE k \in DOMAIN s : s[k] = s[p]
  OBVIOUS
<1>3. Without(s, s[p]) = w
  BY <1>2 DEF Without
<1>4. \A k \in 1..(Len(s) - 1) : k \in DOMAIN s /\ k + 1 \in DOMAIN s
  BY <1>1
<1>5. w \in Seq(S)
  <2>1. \A k \in 1..(Len(s) - 1) : w[k] \in S
    BY <1>4
  <2>2. Len(s) - 1 \in Nat
    BY <1>1
  <2>3. \E n \in Nat : w \in [1..n -> S]
    BY <2>1, <2>2
  <2> QED BY <2>3
<1>6. DOMAIN w = 1..(Len(s) - 1)
  OBVIOUS
<1>7. \A k \in DOMAIN w : w[k] = s[IF k < p THEN k ELSE k + 1]
  OBVIOUS
<1>8. \A k \in DOMAIN w : (IF k < p THEN k ELSE k + 1) \in DOMAIN s \ {p}
  BY <1>1, <1>6
<1>9. ASSUME NEW j \in DOMAIN s, j # p PROVE \E k \in DOMAIN w : w[k] = s[j]
  <2>1. CASE j < p
    <3>1. j \in DOMAIN w
      BY <1>1, <1>6, <2>1
    <3> QED BY <3>1, <1>7, <2>1
  <2>2. CASE ~(j < p)
    <3>1. j - 1 \in DOMAIN w /\ ~(j - 1 < p) /\ j - 1 + 1 = j
      BY <1>1, <1>6, <1>9, <2>2
    <3> QED BY <3>1, <1>7
  <2> QED BY <2>1, <2>2
<1>10. ASSUME NEW j \in DOMAIN w, NEW k \in DOMAIN w, w[j] = w[k] PROVE j = k
  <2>1. (IF j < p THEN j ELSE j + 1) = (IF k < p THEN k ELSE k + 1)
    BY <1>7, <1>8, <1>10
  <2> QED BY <2>1, <1>1, <1>6
<1> HIDE DEF w
<1> QED BY <1>3, <1>5, <1>7, <1>8, <1>9, <1>10
-----------------------------------------------------------------------------
(* Types, in three parts: where callers stand, whose job the writer has, and *)
(* the rest.                                                                 *)

Standing ==
  /\ pc \in [Caller -> {"idle", "yielding", "offering", "admitted"}]
  /\ lane \in [Lane -> Seq(Caller)]
  /\ \A l \in Lane : \A k \in DOMAIN lane[l] :
       LaneOf(lane[l][k]) = l /\ pc[lane[l][k]] = "offering"
  /\ \A l \in Lane : \A j, k \in DOMAIN lane[l] : lane[l][j] = lane[l][k] => j = k
  /\ \A c \in Caller : pc[c] = "offering" => \E k \in DOMAIN lane[LaneOf(c)] : lane[LaneOf(c)][k] = c

Holding ==
  /\ job = {c \in Caller : pc[c] = "admitted"}
  /\ \A c, d \in job : c = d

Values ==
  /\ told \in [Caller -> Seq(Answer)]
  /\ writer \in {"check", "select", "execute", "advance", "passive", "exited"}
  /\ recent \in BOOLEAN
  /\ closing \in {"open", "stopping", "closed"}
  /\ committed \in Seq(Caller \X Nat) /\ rev \in Nat
  /\ stamp \in [Reader -> Nat \cup {-1}] /\ results \in [Reader -> Seq(Result)]
  /\ passed \in [Caller -> Nat]

LEMMA Parts == TypeOK <=> Standing /\ Holding /\ Values
  BY DEF TypeOK, Standing, Holding, Values

\* The writer has a job exactly while it executes one.
Busy == (writer \in {"execute", "advance"}) <=> (job # {})

LEMMA LaneOfTyped == \A c \in Caller : LaneOf(c) \in Lane
  BY DEF LaneOf, Lane

LEMMA OfferStanding ==
  ASSUME Standing, NEW c \in Caller, pc[c] \notin {"offering", "admitted"}, Offer(c)
  PROVE  Standing' /\ \A d \in Caller : (pc'[d] = "admitted") = (pc[d] = "admitted")
<1> DEFINE l == LaneOf(c)
           s == lane[l]
<1>1. l \in Lane /\ s \in Seq(Caller)
  BY LaneOfTyped DEF Standing
<1>2. /\ lane' = [lane EXCEPT ![l] = Append(s, c)]
      /\ pc' = [pc EXCEPT ![c] = "offering"]
  BY DEF Offer
<1>3. /\ Append(s, c) \in Seq(Caller)
      /\ DOMAIN Append(s, c) = DOMAIN s \cup {Len(s) + 1}
      /\ \A k \in DOMAIN s : Append(s, c)[k] = s[k]
      /\ Append(s, c)[Len(s) + 1] = c
  BY <1>1, AppendTyped
<1>4. \A k \in DOMAIN s : s[k] \in Caller /\ s[k] # c
  BY <1>1 DEF Standing
<1>5. /\ lane' \in [Lane -> Seq(Caller)] /\ lane'[l] = Append(s, c)
      /\ \A m \in Lane : m # l => lane'[m] = lane[m]
  BY <1>1, <1>2, <1>3 DEF Standing
<1>6. /\ pc' \in [Caller -> {"idle", "yielding", "offering", "admitted"}] /\ pc'[c] = "offering"
      /\ \A d \in Caller : d # c => pc'[d] = pc[d]
  BY <1>2 DEF Standing
<1>7. ASSUME NEW m \in Lane, NEW k \in DOMAIN lane'[m]
      PROVE  LaneOf(lane'[m][k]) = m /\ pc'[lane'[m][k]] = "offering"
  <2>1. CASE m # l
    <3>1. LaneOf(lane[m][k]) = m /\ pc[lane[m][k]] = "offering" /\ lane[m][k] \in Caller
      BY <1>5, <2>1 DEF Standing
    <3> QED BY <3>1, <1>5, <1>6, <2>1
  <2>2. CASE m = l /\ k \in DOMAIN s
    <3>1. LaneOf(s[k]) = l /\ pc[s[k]] = "offering"
      BY <1>1, <2>2 DEF Standing
    <3> QED BY <3>1, <2>2, <1>3, <1>4, <1>5, <1>6
  <2>3. CASE m = l /\ k = Len(s) + 1
    BY <2>3, <1>3, <1>5, <1>6
  <2> QED BY <2>1, <2>2, <2>3, <1>3, <1>5
<1>8. ASSUME NEW m \in Lane, NEW j \in DOMAIN lane'[m], NEW k \in DOMAIN lane'[m],
             lane'[m][j] = lane'[m][k]
      PROVE  j = k
  <2>1. CASE m # l
    BY <2>1, <1>5, <1>8 DEF Standing
  <2>2. CASE m = l
    <3>1. \A i, h \in DOMAIN s : s[i] = s[h] => i = h
      BY <1>1 DEF Standing
    <3> QED BY <2>2, <3>1, <1>3, <1>4, <1>5, <1>8
  <2> QED BY <2>1, <2>2
<1>9. ASSUME NEW d \in Caller, pc'[d] = "offering"
      PROVE  \E k \in DOMAIN lane'[LaneOf(d)] : lane'[LaneOf(d)][k] = d
  <2>1. CASE d = c
    <3>1. Len(s) + 1 \in DOMAIN lane'[l] /\ lane'[l][Len(s) + 1] = c
      BY <1>3, <1>5
    <3> QED BY <2>1, <3>1
  <2>2. CASE d # c
    <3>1. PICK k \in DOMAIN lane[LaneOf(d)] : lane[LaneOf(d)][k] = d
      BY <2>2, <1>6, <1>9 DEF Standing
    <3>2. LaneOf(d) \in Lane
      BY LaneOfTyped
    <3>3. k \in DOMAIN lane'[LaneOf(d)] /\ lane'[LaneOf(d)][k] = d
      BY <3>1, <3>2, <1>3, <1>5
    <3> QED BY <3>3
  <2> QED BY <2>1, <2>2
<1>10. \A d \in Caller : (pc'[d] = "admitted") = (pc[d] = "admitted")
  BY <1>6
<1> QED BY <1>5, <1>6, <1>7, <1>8, <1>9, <1>10 DEF Standing

LEMMA LeaveStanding ==
  ASSUME Standing, NEW c \in Caller, pc[c] # "admitted", Leave(c),
         pc' = [pc EXCEPT ![c] = "idle"]
  PROVE  Standing' /\ \A d \in Caller : (pc'[d] = "admitted") = (pc[d] = "admitted")
<1>1. /\ pc' \in [Caller -> {"idle", "yielding", "offering", "admitted"}] /\ pc'[c] = "idle"
      /\ \A d \in Caller : d # c => pc'[d] = pc[d]
  BY DEF Standing
<1>2. CASE pc[c] # "offering"
  <2>1. lane' = lane
    BY <1>2 DEF Leave
  <2>2. \A l \in Lane : \A k \in DOMAIN lane[l] : lane[l][k] \in Caller /\ lane[l][k] # c
    BY <1>2 DEF Standing
  <2> QED BY <1>1, <1>2, <2>1, <2>2 DEF Standing
<1>3. CASE pc[c] = "offering"
  <2> DEFINE l == LaneOf(c)
             s == lane[l]
  <2>1. l \in Lane /\ s \in Seq(Caller) /\ \A j, k \in DOMAIN s : s[j] = s[k] => j = k
    BY LaneOfTyped DEF Standing
  <2>2. PICK p \in DOMAIN s : s[p] = c
    BY <1>3 DEF Standing
  <2> DEFINE w == Without(s, c)
  <2>3. lane' = [lane EXCEPT ![l] = w]
    BY <1>3 DEF Leave
  <2>4. /\ w \in Seq(Caller)
        /\ \A k \in DOMAIN w : \E j \in DOMAIN s : j # p /\ w[k] = s[j]
        /\ \A j, k \in DOMAIN w : w[j] = w[k] => j = k
        /\ \A j \in DOMAIN s : j # p => \E k \in DOMAIN w : w[k] = s[j]
    <3> HIDE DEF s
    <3> QED BY <2>1, <2>2, WithoutTyped
  <2>5. /\ lane' \in [Lane -> Seq(Caller)] /\ lane'[l] = w
        /\ \A m \in Lane : m # l => lane'[m] = lane[m]
    <3> HIDE DEF w
    <3> QED BY <2>1, <2>3, <2>4 DEF Standing
  <2> HIDE DEF w
  <2>6. ASSUME NEW m \in Lane, NEW k \in DOMAIN lane'[m]
        PROVE  LaneOf(lane'[m][k]) = m /\ pc'[lane'[m][k]] = "offering"
    <3>1. CASE m # l
      <4>1. LaneOf(lane[m][k]) = m /\ pc[lane[m][k]] = "offering" /\ lane[m][k] \in Caller
        BY <2>5, <3>1 DEF Standing
      <4> QED BY <4>1, <1>1, <2>5, <3>1
    <3>2. CASE m = l
      <4>1. PICK j \in DOMAIN s : j # p /\ w[k] = s[j]
        BY <2>4, <2>5, <3>2
      <4>2. LaneOf(s[j]) = l /\ pc[s[j]] = "offering" /\ s[j] \in Caller /\ s[j] # c
        BY <4>1, <2>1, <2>2 DEF Standing
      <4> QED BY <4>1, <4>2, <1>1, <2>5, <3>2
    <3> QED BY <3>1, <3>2
  <2>7. ASSUME NEW m \in Lane, NEW j \in DOMAIN lane'[m], NEW k \in DOMAIN lane'[m],
               lane'[m][j] = lane'[m][k]
        PROVE  j = k
    <3>1. CASE m # l
      BY <3>1, <2>5, <2>7 DEF Standing
    <3>2. CASE m = l
      BY <3>2, <2>4, <2>5, <2>7
    <3> QED BY <3>1, <3>2
  <2>8. ASSUME NEW d \in Caller, pc'[d] = "offering"
        PROVE  \E k \in DOMAIN lane'[LaneOf(d)] : lane'[LaneOf(d)][k] = d
    <3>1. d # c /\ pc[d] = "offering" /\ LaneOf(d) \in Lane
      BY <1>1, <2>8, LaneOfTyped
    <3>2. PICK j \in DOMAIN lane[LaneOf(d)] : lane[LaneOf(d)][j] = d
      BY <3>1 DEF Standing
    <3>3. CASE LaneOf(d) # l
      BY <3>1, <3>2, <3>3, <2>5
    <3>4. CASE LaneOf(d) = l
      <4>1. j \in DOMAIN s /\ s[j] = d /\ j # p
        BY <3>1, <3>2, <3>4, <2>2
      <4>2. PICK k \in DOMAIN w : w[k] = s[j]
        BY <4>1, <2>4
      <4> QED BY <4>1, <4>2, <3>4, <2>5
    <3> QED BY <3>3, <3>4
  <2> QED BY <1>1, <2>5, <2>6, <2>7, <2>8 DEF Standing
<1>4. \A d \in Caller : (pc'[d] = "admitted") = (pc[d] = "admitted")
  BY <1>1
<1> QED BY <1>2, <1>3, <1>4

LEMMA TakeStanding ==
  ASSUME Standing, job = {}, Holding, NEW l \in Lane, Take(l)
  PROVE  Standing' /\ Holding' /\ job' # {}
<1> DEFINE s == lane[l]
           c == Head(s)
<1>1. s # <<>> /\ s \in Seq(Caller)
  BY DEF Take, Standing
<1>2. /\ Tail(s) \in Seq(Caller) /\ c \in Caller /\ c = s[1] /\ 1 \in DOMAIN s
      /\ \A k \in DOMAIN Tail(s) : k + 1 \in DOMAIN s /\ Tail(s)[k] = s[k + 1]
      /\ \A k \in DOMAIN s : k # 1 => k - 1 \in DOMAIN Tail(s) /\ Tail(s)[k - 1] = s[k]
      /\ DOMAIN s \subseteq Nat /\ DOMAIN Tail(s) \subseteq Nat \ {0}
  <2> HIDE DEF s
  <2>1. DOMAIN s = 1..Len(s) /\ Len(s) \in Nat
    BY <1>1
  <2>2. DOMAIN Tail(s) = 1..(Len(s) - 1)
    BY <1>1, TailTyped
  <2>3. \A k \in DOMAIN Tail(s) : k + 1 \in DOMAIN s /\ Tail(s)[k] = s[k + 1]
    BY <1>1, TailTyped
  <2>4. ASSUME NEW k \in DOMAIN s, k # 1
        PROVE  k - 1 \in DOMAIN Tail(s) /\ Tail(s)[k - 1] = s[k]
    <3>1. k - 1 \in DOMAIN Tail(s) /\ (k - 1) + 1 = k
      BY <2>1, <2>2, <2>4
    <3> QED BY <3>1, <2>3
  <2> QED BY <1>1, <2>1, <2>2, <2>3, <2>4, TailTyped
<1>3. /\ job' = {c}
      /\ lane' = [lane EXCEPT ![l] = Tail(s)]
      /\ pc' = [pc EXCEPT ![c] = "admitted"]
  BY DEF Take
<1>4. LaneOf(c) = l /\ pc[c] = "offering" /\ \A k \in DOMAIN s : s[k] = c => k = 1
  BY <1>2 DEF Standing
<1> HIDE DEF c
<1>5. /\ lane' \in [Lane -> Seq(Caller)] /\ lane'[l] = Tail(s)
      /\ \A m \in Lane : m # l => lane'[m] = lane[m]
  BY <1>2, <1>3 DEF Standing
<1>6. /\ pc' \in [Caller -> {"idle", "yielding", "offering", "admitted"}] /\ pc'[c] = "admitted"
      /\ \A d \in Caller : d # c => pc'[d] = pc[d]
  BY <1>2, <1>3 DEF Standing
<1>7. ASSUME NEW m \in Lane, NEW k \in DOMAIN lane'[m]
      PROVE  LaneOf(lane'[m][k]) = m /\ pc'[lane'[m][k]] = "offering"
  <2>1. CASE m # l
    <3>1. LaneOf(lane[m][k]) = m /\ pc[lane[m][k]] = "offering" /\ lane[m][k] \in Caller
      BY <1>5, <2>1 DEF Standing
    <3> QED BY <3>1, <1>4, <1>5, <1>6, <2>1
  <2>2. CASE m = l
    <3>1. k + 1 \in DOMAIN s /\ lane'[m][k] = s[k + 1] /\ k + 1 # 1
      BY <2>2, <1>2, <1>5
    <3>2. LaneOf(s[k + 1]) = l /\ pc[s[k + 1]] = "offering" /\ s[k + 1] \in Caller /\ s[k + 1] # c
      BY <3>1, <1>1, <1>4 DEF Standing
    <3> QED BY <3>1, <3>2, <2>2, <1>6
  <2> QED BY <2>1, <2>2
<1>8. ASSUME NEW m \in Lane, NEW j \in DOMAIN lane'[m], NEW k \in DOMAIN lane'[m],
             lane'[m][j] = lane'[m][k]
      PROVE  j = k
  <2>1. CASE m # l
    BY <2>1, <1>5, <1>8 DEF Standing
  <2>2. CASE m = l
    <3>1. j + 1 \in DOMAIN s /\ k + 1 \in DOMAIN s /\ s[j + 1] = s[k + 1] /\ j \in Nat /\ k \in Nat
      BY <2>2, <1>2, <1>5, <1>8
    <3>2. j + 1 = k + 1
      BY <3>1 DEF Standing
    <3> QED BY <3>1, <3>2
  <2> QED BY <2>1, <2>2
<1>9. ASSUME NEW d \in Caller, pc'[d] = "offering"
      PROVE  \E k \in DOMAIN lane'[LaneOf(d)] : lane'[LaneOf(d)][k] = d
  <2>1. d # c /\ pc[d] = "offering" /\ LaneOf(d) \in Lane
    BY <1>6, <1>9, LaneOfTyped
  <2>2. PICK k \in DOMAIN lane[LaneOf(d)] : lane[LaneOf(d)][k] = d
    BY <2>1 DEF Standing
  <2>3. CASE LaneOf(d) # l
    BY <2>1, <2>2, <2>3, <1>5
  <2>4. CASE LaneOf(d) = l
    <3>1. k \in DOMAIN s /\ k # 1
      BY <2>1, <2>2, <2>4, <1>2
    <3> QED BY <3>1, <2>2, <2>4, <1>2, <1>5
  <2> QED BY <2>3, <2>4
<1>10. \A d \in Caller : pc[d] # "admitted"
  BY DEF Holding
<1>11. Holding'
  BY <1>2, <1>3, <1>6, <1>10 DEF Holding
<1> QED BY <1>3, <1>5, <1>6, <1>7, <1>8, <1>9, <1>11 DEF Standing

\* The writer's caller is told, and the writer holds no job.
LEMMA AnsweredStanding ==
  ASSUME Standing, Holding, NEW c \in job, NEW a, Answered(c, a)
  PROVE  Standing' /\ Holding' /\ job' = {} /\ c \in Caller
<1>1. c \in Caller /\ pc[c] = "admitted" /\ \A d \in job : d = c
  BY DEF Holding
<1>2. lane' = lane /\ job' = {} /\ pc' = [pc EXCEPT ![c] = "idle"]
  BY DEF Answered, Return
<1>3. /\ pc' \in [Caller -> {"idle", "yielding", "offering", "admitted"}] /\ pc'[c] = "idle"
      /\ \A d \in Caller : d # c => pc'[d] = pc[d]
  BY <1>1, <1>2 DEF Standing
<1>4. \A l \in Lane : \A k \in DOMAIN lane[l] : lane[l][k] \in Caller /\ lane[l][k] # c
  BY <1>1 DEF Standing
<1>5. Standing'
  BY <1>1, <1>2, <1>3, <1>4 DEF Standing
<1>6. \A d \in Caller : pc'[d] # "admitted"
  BY <1>1, <1>3 DEF Holding
<1> QED BY <1>1, <1>2, <1>5, <1>6 DEF Holding

LEMMA ToldTyped ==
  ASSUME Values, NEW c \in Caller, NEW a \in Answer, Return(c, a)
  PROVE  told' \in [Caller -> Seq(Answer)] /\ passed' = passed
<1>1. Append(told[c], a) \in Seq(Answer)
  BY AppendTyped DEF Values
<1> QED BY <1>1 DEF Return, Values

LEMMA Frame ==
  ASSUME Standing, Holding, pc' = pc, lane' = lane, job' = job
  PROVE  Standing' /\ Holding'
  BY DEF Standing, Holding

\* Types and where jobs are, together: neither holds alone.
Shape == Standing /\ Holding /\ Values /\ Busy

LEMMA ShapeStep ==
  ASSUME Shape, [Next]_vars
  PROVE  Shape'
<1> USE DEF Shape
<1>1. ASSUME NEW c \in Caller, Submit(c) PROVE Shape'
  <2>1. Offer(c) /\ pc[c] = "idle"
    BY <1>1 DEF Submit
  <2>2. Standing' /\ Holding'
    BY <2>1, <1>1, OfferStanding DEF Submit, Holding
  <2> QED BY <2>1, <2>2, <1>1 DEF Submit, Offer, Values, Busy, store, reads
<1>2. ASSUME NEW c \in Caller, Yield(c) PROVE Shape'
  <2>1. /\ pc' \in [Caller -> {"idle", "yielding", "offering", "admitted"}]
        /\ \A d \in Caller : d # c => pc'[d] = pc[d]
        /\ pc'[c] = "yielding" /\ pc[c] = "idle" /\ lane' = lane /\ job' = job
    BY <1>2 DEF Yield, Standing
  <2>2. \A l \in Lane : \A k \in DOMAIN lane[l] : lane[l][k] \in Caller /\ lane[l][k] # c
    BY <2>1 DEF Standing
  <2>3. Standing'
    BY <2>1, <2>2 DEF Standing
  <2>4. Holding'
    BY <2>1 DEF Holding
  <2> QED BY <2>3, <2>4, <1>2 DEF Yield, Values, Busy, store, reads
<1>3. ASSUME NEW c \in Caller, SubmitBulk(c) PROVE Shape'
  <2>1. Offer(c) /\ pc[c] = "yielding"
    BY <1>3 DEF SubmitBulk
  <2>2. Standing' /\ Holding'
    BY <2>1, <1>3, OfferStanding DEF SubmitBulk, Holding
  <2> QED BY <2>1, <2>2, <1>3 DEF SubmitBulk, Offer, Values, Busy, store, reads
<1>4. ASSUME NEW c \in Caller, GiveUp(c) PROVE Shape'
  <2>1. Return(c, "cancelled") /\ Leave(c) /\ pc[c] # "admitted"
    BY <1>4 DEF GiveUp, MayGiveUp
  <2>2. Standing' /\ Holding'
    BY <2>1, <1>4, LeaveStanding DEF GiveUp, Return, Holding
  <2>3. told' \in [Caller -> Seq(Answer)] /\ passed' = passed
    BY <2>1, ToldTyped DEF Answer
  <2> QED BY <2>2, <2>3, <1>4 DEF GiveUp, Values, Busy, store, reads
<1>5. ASSUME NEW c \in Caller, TurnedAway(c) PROVE Shape'
  <2>1. Return(c, "closed") /\ Leave(c) /\ pc[c] # "admitted"
    BY <1>5 DEF TurnedAway
  <2>2. Standing' /\ Holding'
    BY <2>1, <1>5, LeaveStanding DEF TurnedAway, Return, Holding
  <2>3. told' \in [Caller -> Seq(Answer)] /\ passed' = passed
    BY <2>1, ToldTyped DEF Answer
  <2> QED BY <2>2, <2>3, <1>5 DEF TurnedAway, Values, Busy, store, reads
<1>6. ASSUME NEW l \in Lane, Take(l), writer \in {"check", "select"} PROVE Shape'
  <2>1. job = {}
    BY <1>6 DEF Busy
  <2>2. Standing' /\ Holding' /\ job' # {} /\ writer' = "execute"
    BY <2>1, <1>6, TakeStanding DEF Take
  <2>3. passed' \in [Caller -> Nat]
    BY <1>6 DEF Take, Values
  <2>4. recent' \in BOOLEAN
    BY <1>6 DEF Take, Values
  <2> QED BY <2>2, <2>3, <2>4, <1>6 DEF Take, Values, Busy, store, reads
<1>7. CASE Check
  <2>1. CASE Take("interactive")
    BY <2>1, <1>6, <1>7 DEF Check, Lane
  <2>2. CASE ~Take("interactive")
    <3>1. writer' = "select" /\ UNCHANGED <<callers, job, recent, closing, store, reads>>
      BY <2>2, <1>7 DEF Check
    <3> QED BY <3>1, <1>7, Frame DEF Check, Values, Busy, callers, store, reads
  <2> QED BY <2>1, <2>2
<1>8. CASE Select
  BY <1>6, <1>8 DEF Select
<1>9. CASE IdleCheckpoint \/ Exit \/ Passive
  <2>1. UNCHANGED <<callers, job, recent, closing, store, reads>>
    BY <1>9 DEF IdleCheckpoint, Exit, Passive
  <2>2. Standing' /\ Holding'
    BY <2>1, Frame DEF callers
  <2>3. {writer, writer'} \subseteq {"check", "select", "passive", "exited"}
    BY <1>9 DEF IdleCheckpoint, Exit, Passive
  <2> QED BY <2>1, <2>2, <2>3 DEF Values, Busy, callers, store, reads
<1>10. CASE Commit
  <2>1. PICK c \in job : committed' = Append(committed, Call(c))
    BY <1>10 DEF Commit
  <2>2. Call(c) \in Caller \X Nat
    <3>1. c \in Caller /\ told[c] \in Seq(Answer)
      BY DEF Holding, Values
    <3>2. Len(told[c]) + 1 \in Nat
      BY <3>1, AppendTyped
    <3> QED BY <3>1, <3>2 DEF Call
  <2>3. committed' \in Seq(Caller \X Nat)
    BY <2>1, <2>2, AppendTyped DEF Values
  <2>4. Standing' /\ Holding'
    BY <1>10, Frame DEF Commit, callers
  <2> QED BY <2>3, <2>4, <1>10 DEF Commit, Values, Busy, callers, reads
<1>11. CASE Advance
  <2>1. PICK c \in job : Answered(c, "ok")
    BY <1>11 DEF Advance
  <2>2. Standing' /\ Holding' /\ job' = {} /\ c \in Caller
    BY <2>1, AnsweredStanding
  <2>3. told' \in [Caller -> Seq(Answer)] /\ passed' = passed
    BY <2>1, <2>2, ToldTyped DEF Answered, Answer
  <2>4. writer' \in {"check", "passive"}
    BY <2>1 DEF Answered
  <2> QED BY <2>2, <2>3, <2>4, <1>11 DEF Advance, Values, Busy, reads
<1>12. CASE Fail
  <2>1. PICK c \in job : Answered(c, "failed")
    BY <1>12 DEF Fail
  <2>2. Standing' /\ Holding' /\ job' = {} /\ c \in Caller
    BY <2>1, AnsweredStanding
  <2>3. told' \in [Caller -> Seq(Answer)] /\ passed' = passed
    BY <2>1, <2>2, ToldTyped DEF Answered, Answer
  <2>4. writer' \in {"check", "passive"}
    BY <2>1 DEF Answered
  <2> QED BY <2>2, <2>3, <2>4, <1>12 DEF Fail, Values, Busy, store, reads
<1>13. CASE Quiet \/ Close \/ Closed
  <2>1. UNCHANGED <<callers, writer, job, store, reads>>
    BY <1>13 DEF Quiet, Close, Closed
  <2>2. Standing' /\ Holding'
    BY <2>1, Frame DEF callers
  <2>3. recent' \in BOOLEAN /\ closing' \in {"open", "stopping", "closed"}
    BY <1>13 DEF Quiet, Close, Closed, Values
  <2> QED BY <2>1, <2>2, <2>3 DEF Values, Busy, callers, store, reads
<1>14. ASSUME NEW r \in Reader, Stamp(r) PROVE Shape'
  BY <1>14, Frame DEF Stamp, Values, Busy, callers, store
<1>15. ASSUME NEW r \in Reader, Query(r) PROVE Shape'
  <2>1. stamp[r] \in Nat
    BY <1>15 DEF Query, Values
  <2>2. Len(committed) \in Nat
    BY DEF Values
  <2>3. [rev |-> stamp[r], seen |-> Len(committed)] \in Result
    BY <2>1, <2>2 DEF Result
  <2>4. Append(results[r], [rev |-> stamp[r], seen |-> Len(committed)]) \in Seq(Result)
    BY <2>3, AppendTyped DEF Values
  <2> QED BY <2>4, <1>15, Frame DEF Query, Values, Busy, callers, store
<1>16. CASE UNCHANGED vars
  BY <1>16, Frame DEF vars, Values, Busy, callers, store, reads
<1> QED BY <1>1, <1>2, <1>3, <1>4, <1>5, <1>7, <1>8, <1>9, <1>10, <1>11, <1>12, <1>13, <1>14,
           <1>15, <1>16 DEF Next, Run

LEMMA ShapeInit == Init => Shape
<1> SUFFICES ASSUME Init PROVE Shape
  OBVIOUS
<1>1. Standing
  BY LaneOfTyped DEF Init, Standing, Lane
<1>2. Holding
  BY DEF Init, Holding
<1>3. Values
  <2>1. \A c \in Caller : told[c] = <<>>
    BY DEF Init
  <2>2. told \in [Caller -> Seq(Answer)] /\ results \in [Reader -> Seq(Result)]
    BY DEF Init
  <2>3. stamp \in [Reader -> Nat \cup {-1}] /\ passed \in [Caller -> Nat]
    BY DEF Init
  <2>4. committed \in Seq(Caller \X Nat) /\ rev \in Nat
    BY DEF Init
  <2>5. recent \in BOOLEAN /\ writer = "check" /\ closing = "open"
    BY DEF Init
  <2> QED BY <2>2, <2>3, <2>4, <2>5 DEF Values
<1>4. Busy
  BY DEF Init, Busy
<1> QED BY <1>1, <1>2, <1>3, <1>4 DEF Shape

\* The variables keep their types, lanes hold exactly the callers that offer, and
\* the writer exactly the one admitted.
THEOREM TypeCorrect == Spec => []TypeOK
<1>1. Shape => TypeOK
  BY Parts DEF Shape
<1> QED BY <1>1, ShapeInit, ShapeStep, PTL DEF Spec
-----------------------------------------------------------------------------
(* The truth of answers and labels. *)

\* Caller c's call n is committed.
Landed(c, n) == \E k \in DOMAIN committed : committed[k] = <<c, n>>

\* Commits are of calls answered, or of the call whose revision is yet to follow;
\* answers agree with them.
Truth ==
  /\ \A c \in Caller : \A n \in DOMAIN told[c] : told[c][n] = "ok" <=> Landed(c, n)
  /\ \A k, m \in DOMAIN committed : committed[k] = committed[m] => k = m
  /\ \A c \in Caller : \A n \in Nat :
       Landed(c, n) => n \in DOMAIN told[c] \/ (writer = "advance" /\ c \in job /\ <<c, n>> = Call(c))
  /\ writer = "advance" => \A c \in job : Landed(c, Len(told[c]) + 1)

LEMMA CallIsNew ==
  ASSUME Shape, NEW c \in Caller
  PROVE  /\ Call(c) = <<c, Len(told[c]) + 1>> /\ Len(told[c]) + 1 \in Nat
         /\ Len(told[c]) + 1 \notin DOMAIN told[c] /\ DOMAIN told[c] \subseteq Nat
<1>1. told[c] \in Seq(Answer)
  BY DEF Shape, Values
<1>2. DOMAIN told[c] = 1..Len(told[c]) /\ Len(told[c]) \in Nat
  BY <1>1
<1> QED BY <1>2 DEF Call

\* An answer to caller c that says of its call what the store says.
LEMMA ReturnTruth ==
  ASSUME Shape, Truth, NEW c \in Caller, NEW a \in Answer, Return(c, a),
         committed' = committed,
         a = "ok" <=> Landed(c, Len(told[c]) + 1),
         writer' # "advance",
         writer = "advance" => job = {c}
  PROVE  Truth'
<1>1. /\ told[c] \in Seq(Answer) /\ told'[c] = Append(told[c], a)
      /\ \A d \in Caller : d # c => told'[d] = told[d]
  BY DEF Return, Shape, Values
<1>2. /\ DOMAIN told'[c] = DOMAIN told[c] \cup {Len(told[c]) + 1}
      /\ \A n \in DOMAIN told[c] : told'[c][n] = told[c][n]
      /\ told'[c][Len(told[c]) + 1] = a
  BY <1>1, AppendTyped
<1>3. \A d \in Caller : \A n : Landed(d, n)' <=> Landed(d, n)
  BY DEF Landed
<1>4. ASSUME NEW d \in Caller, NEW n \in DOMAIN told'[d]
      PROVE  told'[d][n] = "ok" <=> Landed(d, n)
  BY <1>1, <1>2 DEF Truth
<1>5. ASSUME NEW d \in Caller, NEW n \in Nat, Landed(d, n)
      PROVE  n \in DOMAIN told'[d]
  <2>1. CASE n \in DOMAIN told[d]
    BY <2>1, <1>1, <1>2
  <2>2. CASE n \notin DOMAIN told[d]
    <3>1. writer = "advance" /\ d \in job /\ <<d, n>> = Call(d)
      BY <1>5, <2>2 DEF Truth
    <3>2. d = c /\ n = Len(told[c]) + 1
      BY <3>1, CallIsNew
    <3> QED BY <3>2, <1>2
  <2> QED BY <2>1, <2>2
<1>6. \A k, m \in DOMAIN committed' : committed'[k] = committed'[m] => k = m
  BY DEF Truth
<1> QED BY <1>3, <1>4, <1>5, <1>6 DEF Truth

LEMMA TruthFrame ==
  ASSUME Truth, told' = told, committed' = committed, writer # "advance", writer' # "advance"
  PROVE  Truth'
<1>1. \A c, n : Landed(c, n)' <=> Landed(c, n)
  BY DEF Landed
<1> QED BY <1>1 DEF Truth

LEMMA TruthKept ==
  ASSUME Truth, told' = told, committed' = committed, writer' = writer, job' = job
  PROVE  Truth'
<1>1. \A c, n : Landed(c, n)' <=> Landed(c, n)
  BY DEF Landed
<1>2. \A c : Call(c)' = Call(c)
  BY DEF Call
<1> QED BY <1>1, <1>2 DEF Truth

LEMMA CommitTruth ==
  ASSUME Shape, Truth, Commit
  PROVE  Truth'
<1>1. PICK c \in job : committed' = Append(committed, Call(c))
  BY DEF Commit
<1>2. c \in Caller /\ \A d \in job : d = c
  BY DEF Shape, Holding
<1> DEFINE n0 == Len(told[c]) + 1
           k0 == Len(committed) + 1
<1>3. Call(c) = <<c, n0>> /\ n0 \in Nat /\ n0 \notin DOMAIN told[c]
  BY <1>2, CallIsNew
<1> HIDE DEF n0
<1>4. /\ DOMAIN committed' = DOMAIN committed \cup {k0}
      /\ \A k \in DOMAIN committed : committed'[k] = committed[k]
      /\ committed'[k0] = <<c, n0>>
  <2>1. Call(c) \in Caller \X Nat /\ committed \in Seq(Caller \X Nat)
    BY <1>2, <1>3 DEF Shape, Values
  <2> QED BY <2>1, <1>1, <1>3, AppendTyped
<1> HIDE DEF k0
<1>5. ~Landed(c, n0)
  BY <1>2, <1>3 DEF Truth, Commit
<1>6. \A d, n : Landed(d, n)' <=> Landed(d, n) \/ <<d, n>> = <<c, n0>>
  BY <1>4 DEF Landed
<1>7. told' = told /\ job' = job /\ writer' = "advance" /\ writer = "execute"
  BY DEF Commit, callers
<1>8. \A k, m \in DOMAIN committed' : committed'[k] = committed'[m] => k = m
  BY <1>4, <1>5 DEF Truth, Landed
<1>9. \A d \in Caller : \A n \in DOMAIN told[d] : told[d][n] = "ok" <=> Landed(d, n)'
  BY <1>3, <1>6 DEF Truth
<1>10. ASSUME NEW d \in Caller, NEW n \in Nat, Landed(d, n)'
       PROVE  n \in DOMAIN told[d] \/ (d \in job /\ <<d, n>> = Call(d))
  <2>1. CASE Landed(d, n)
    BY <2>1, <1>7, <1>10 DEF Truth
  <2>2. CASE <<d, n>> = <<c, n0>>
    BY <2>2, <1>2, <1>3
  <2> QED BY <2>1, <2>2, <1>6, <1>10
<1>11. \A d \in job' : Landed(d, Len(told[d]) + 1)'
  <2>1. \A d \in job' : d = c /\ Len(told'[d]) + 1 = n0
    BY <1>2, <1>7 DEF n0
  <2>2. \E k \in DOMAIN committed' : committed'[k] = <<c, n0>>
    BY <1>4
  <2> QED BY <2>1, <2>2 DEF Landed
<1>12. \A d : Call(d)' = Call(d)
  BY <1>7 DEF Call
<1> QED BY <1>7, <1>8, <1>9, <1>10, <1>11, <1>12 DEF Truth

LEMMA TruthStep ==
  ASSUME Shape, Truth, [Next]_vars
  PROVE  Truth'
<1>1. ASSUME NEW c \in Caller, Submit(c) \/ Yield(c) \/ SubmitBulk(c) PROVE Truth'
  BY <1>1, TruthKept DEF Submit, Yield, SubmitBulk, store
<1>2. ASSUME NEW c \in Caller, GiveUp(c) \/ TurnedAway(c) PROVE Truth'
  <2>1. PICK a \in Answer : Return(c, a) /\ a # "ok"
    BY <1>2 DEF GiveUp, TurnedAway, Answer
  <2>2. /\ pc[c] # "admitted" /\ committed' = committed /\ writer' = writer /\ job' = job
    BY <1>2 DEF GiveUp, TurnedAway, MayGiveUp, store
  <2>3. c \notin job
    BY <2>2 DEF Shape, Holding
  <2>4. ~Landed(c, Len(told[c]) + 1)
    BY <2>3, CallIsNew DEF Truth
  <2>5. CASE writer # "advance"
    BY <2>1, <2>2, <2>4, <2>5, ReturnTruth
  <2>6. CASE writer = "advance"
    <3>1. /\ told[c] \in Seq(Answer) /\ told'[c] = Append(told[c], a)
          /\ \A d \in Caller : d # c => told'[d] = told[d]
      BY <2>1 DEF Return, Shape, Values
    <3>2. /\ DOMAIN told'[c] = DOMAIN told[c] \cup {Len(told[c]) + 1}
          /\ \A n \in DOMAIN told[c] : told'[c][n] = told[c][n]
          /\ told'[c][Len(told[c]) + 1] = a
      BY <3>1, AppendTyped
    <3>3. \A d, n : Landed(d, n)' <=> Landed(d, n)
      BY <2>2 DEF Landed
    <3>4. \A d \in job : d \in Caller /\ d # c
      BY <2>3 DEF Shape, Holding
    <3>5. \A d \in Caller : d # c => Call(d)' = Call(d)
      BY <3>1 DEF Call
    <3>6. ASSUME NEW d \in Caller, NEW n \in DOMAIN told'[d]
          PROVE  told'[d][n] = "ok" <=> Landed(d, n)
      BY <2>1, <2>4, <3>1, <3>2 DEF Truth
    <3>7. ASSUME NEW d \in Caller, NEW n \in Nat, Landed(d, n)
          PROVE  n \in DOMAIN told'[d] \/ (d \in job /\ <<d, n>> = Call(d)')
      <4>1. n \in DOMAIN told[d] \/ (d \in job /\ <<d, n>> = Call(d))
        BY <3>7 DEF Truth
      <4> QED BY <4>1, <3>1, <3>2, <3>4, <3>5
    <3>8. \A d \in job : Landed(d, Len(told'[d]) + 1)
      BY <2>6, <3>1, <3>4 DEF Truth
    <3> QED BY <2>2, <2>6, <3>3, <3>6, <3>7, <3>8 DEF Truth
  <2> QED BY <2>5, <2>6
<1>3. ASSUME NEW l \in Lane, Take(l), writer \in {"check", "select"} PROVE Truth'
  BY <1>3, TruthFrame DEF Take, store
<1>4. CASE Check \/ Select \/ IdleCheckpoint \/ Exit \/ Passive
  <2>1. CASE Take("interactive") \/ Take("bulk")
    <3>1. writer # "advance" /\ writer' # "advance" /\ told' = told /\ committed' = committed
      BY <1>4, <2>1 DEF Check, Select, IdleCheckpoint, Exit, Passive, Take, store
    <3> QED BY <3>1, TruthFrame
  <2>2. CASE ~(Take("interactive") \/ Take("bulk"))
    <3>1. writer # "advance" /\ writer' # "advance" /\ told' = told /\ committed' = committed
      BY <1>4, <2>2 DEF Check, Select, IdleCheckpoint, Exit, Passive, Lane, callers, store
    <3> QED BY <3>1, TruthFrame
  <2> QED BY <2>1, <2>2
<1>5. CASE Advance
  <2>1. PICK c \in job : Answered(c, "ok")
    BY <1>5 DEF Advance
  <2>2. c \in Caller /\ job = {c}
    BY DEF Shape, Holding
  <2>3. Return(c, "ok") /\ writer' # "advance" /\ committed' = committed /\ writer = "advance"
    BY <2>1, <1>5 DEF Answered, Advance
  <2>4. Landed(c, Len(told[c]) + 1)
    BY <2>2, <2>3 DEF Truth
  <2> QED BY <2>2, <2>3, <2>4, ReturnTruth DEF Answer
<1>6. CASE Fail
  <2>1. PICK c \in job : Answered(c, "failed")
    BY <1>6 DEF Fail
  <2>2. c \in Caller /\ job = {c}
    BY DEF Shape, Holding
  <2>3. Return(c, "failed") /\ writer' # "advance" /\ committed' = committed /\ writer = "execute"
    BY <2>1, <1>6 DEF Answered, Fail, store
  <2>4. ~Landed(c, Len(told[c]) + 1)
    BY <2>2, <2>3, CallIsNew DEF Truth
  <2> QED BY <2>2, <2>3, <2>4, ReturnTruth DEF Answer
<1>7. CASE Quiet \/ Close \/ Closed
  BY <1>7, TruthKept DEF Quiet, Close, Closed, callers, store
<1>8. ASSUME NEW r \in Reader, Stamp(r) \/ Query(r) PROVE Truth'
  BY <1>8, TruthKept DEF Stamp, Query, callers, store
<1>9. CASE UNCHANGED vars
  BY <1>9, TruthKept DEF vars, callers, store
<1> QED BY <1>1, <1>2, <1>4, <1>5, <1>6, <1>7, <1>8, <1>9, CommitTruth DEF Next, Run

\* What a caller is told is so, whatever the cancellations, failures and order.
THEOREM ToldTruly == Spec => []AnswersAreTrue
<1>1. Init => Truth
  BY DEF Init, Truth, Landed
<1>2. Truth => AnswersAreTrue
  BY DEF Truth, AnswersAreTrue, Landed
<1> QED BY <1>1, <1>2, ShapeInit, ShapeStep, TruthStep, PTL DEF Spec
-----------------------------------------------------------------------------
(* Labels, and the end of the writer. *)

\* The revision is behind the commits by the one it is about to count, and no
\* reader's label is ahead of it.
Counted ==
  /\ rev = IF writer = "advance" THEN Len(committed) - 1 ELSE Len(committed)
  /\ \A r \in Reader : stamp[r] <= rev
  /\ closing = "closed" => writer = "exited"

LEMMA CountedStep ==
  ASSUME Shape, Counted, LabelNeverAhead, [Next]_vars
  PROVE  Counted' /\ LabelNeverAhead'
<1>1. Len(committed) \in Nat /\ rev \in Nat /\ \A r \in Reader : stamp[r] \in Nat \cup {-1}
  BY DEF Shape, Values
<1>2. ASSUME UNCHANGED <<store, reads>>, writer # "advance", writer' # "advance",
             closing' = closing, writer # "exited" \/ writer' = "exited"
      PROVE  Counted' /\ LabelNeverAhead'
  BY <1>2 DEF Counted, LabelNeverAhead, store, reads
<1>3. ASSUME UNCHANGED <<store, reads>>, writer' = writer,
             closing' = closing \/ closing' # "closed" \/ writer = "exited"
      PROVE  Counted' /\ LabelNeverAhead'
  BY <1>3 DEF Counted, LabelNeverAhead, store, reads
<1>4. ASSUME NEW c \in Caller, Submit(c) \/ Yield(c) \/ SubmitBulk(c) \/ GiveUp(c) \/ TurnedAway(c)
      PROVE  Counted' /\ LabelNeverAhead'
  BY <1>3, <1>4 DEF Submit, Yield, SubmitBulk, GiveUp, TurnedAway
<1>5. CASE Check \/ Select \/ IdleCheckpoint \/ Exit \/ Passive
  <2>1. UNCHANGED <<store, reads>> /\ closing' = closing
    BY <1>5 DEF Check, Select, IdleCheckpoint, Exit, Passive, Take
  <2>2. writer \in {"check", "select", "passive"} /\ writer' # "advance"
    BY <1>5 DEF Check, Select, IdleCheckpoint, Exit, Passive, Take
  <2> QED BY <2>1, <2>2, <1>2
<1>6. CASE Commit
  <2>1. PICK c \in job : committed' = Append(committed, Call(c))
    BY <1>6 DEF Commit
  <2>2. Len(committed') = Len(committed) + 1
    <3>1. c \in Caller
      BY DEF Shape, Holding
    <3>2. Call(c) \in Caller \X Nat /\ committed \in Seq(Caller \X Nat)
      BY <3>1, CallIsNew DEF Shape, Values
    <3> QED BY <2>1, <3>2, AppendTyped
  <2> QED BY <1>1, <1>6, <2>2 DEF Commit, Counted, LabelNeverAhead, reads
<1>7. CASE Advance
  <2>1. /\ rev' = rev + 1 /\ writer = "advance" /\ writer' \in {"check", "passive"}
        /\ UNCHANGED <<closing, committed, reads>>
    BY <1>7 DEF Advance, Answered
  <2> QED BY <1>1, <2>1 DEF Counted, LabelNeverAhead, reads
<1>8. CASE Fail
  <2>1. writer = "execute" /\ writer' \in {"check", "passive"} /\ UNCHANGED <<closing, store, reads>>
    BY <1>8 DEF Fail, Answered
  <2> QED BY <2>1, <1>2
<1>9. CASE Quiet \/ Close \/ Closed
  BY <1>3, <1>9 DEF Quiet, Close, Closed
<1>10. ASSUME NEW r \in Reader, Stamp(r) PROVE Counted' /\ LabelNeverAhead'
  <2>1. UNCHANGED <<writer, closing, store, results>> /\ stamp' = [stamp EXCEPT ![r] = rev]
    BY <1>10 DEF Stamp
  <2> QED BY <1>1, <2>1 DEF Counted, LabelNeverAhead, store, Shape, Values
<1>11. ASSUME NEW r \in Reader, Query(r) PROVE Counted' /\ LabelNeverAhead'
  <2> DEFINE x == [rev |-> stamp[r], seen |-> Len(committed)]
  <2>1. /\ UNCHANGED <<writer, closing, store>> /\ stamp' = [stamp EXCEPT ![r] = -1]
        /\ results' = [results EXCEPT ![r] = Append(@, x)]
    BY <1>11 DEF Query
  <2>2. stamp[r] \in Nat /\ x \in Result /\ x.rev <= x.seen
    BY <1>1, <1>11 DEF Query, Result, Counted
  <2>3. results[r] \in Seq(Result) /\ results'[r] = Append(results[r], x)
    BY <2>1 DEF Shape, Values
  <2> HIDE DEF x
  <2>4. /\ DOMAIN results'[r] = DOMAIN results[r] \cup {Len(results[r]) + 1}
        /\ \A n \in DOMAIN results[r] : results'[r][n] = results[r][n]
        /\ results'[r][Len(results[r]) + 1] = x
    BY <2>2, <2>3, AppendTyped
  <2>5. \A s \in Reader : s # r => results'[s] = results[s]
    BY <2>1 DEF Shape, Values
  <2>6. LabelNeverAhead'
    BY <2>2, <2>4, <2>5 DEF LabelNeverAhead
  <2>7. Counted'
    BY <1>1, <2>1 DEF Counted, store, Shape, Values
  <2> QED BY <2>6, <2>7
<1>12. CASE UNCHANGED vars
  BY <1>3, <1>12 DEF vars
<1> QED BY <1>4, <1>5, <1>6, <1>7, <1>8, <1>9, <1>10, <1>11, <1>12 DEF Next, Run

LEMMA CountedInit == Init => Counted /\ LabelNeverAhead
<1> SUFFICES ASSUME Init PROVE Counted /\ LabelNeverAhead
  OBVIOUS
<1>1. committed = <<>> /\ rev = 0 /\ Len(<<>>) = 0
  BY DEF Init
<1>2. \A r \in Reader : stamp[r] = -1 /\ results[r] = <<>>
  BY DEF Init
<1> QED BY <1>1, <1>2 DEF Init, Counted, LabelNeverAhead

\* No result claims a revision its rows have not seen.
THEOREM LabelsUnderstate == Spec => []LabelNeverAhead
  BY ShapeInit, ShapeStep, CountedInit, CountedStep, PTL DEF Spec

\* Once Close has returned the writer has no job and every commit is counted.
THEOREM ClosedForGood == Spec => []ClosedIsQuiet
<1>1. Shape /\ Counted => ClosedIsQuiet
  BY DEF Shape, Holding, Busy, Counted, ClosedIsQuiet
<1> QED BY <1>1, ShapeInit, ShapeStep, CountedInit, CountedStep, PTL DEF Spec
-----------------------------------------------------------------------------
(* Interactive jobs go first. *)

\* While the writer is in its blocking select no bulk job has passed an interactive
\* caller that offers: when it left the top of the loop none did.
Passing ==
  \A c \in Interactive : pc[c] = "offering" =>
    passed[c] <= 1 /\ (writer = "select" => passed[c] = 0)

LEMMA PassingStep ==
  ASSUME Shape, Passing, [Next]_vars
  PROVE  Passing'
<1> USE WriterInputs
<1>1. passed \in [Caller -> Nat] /\ \A c \in Interactive : c \in Caller /\ LaneOf(c) = "interactive"
  BY DEF Shape, Values, LaneOf
<1>2. ASSUME NEW c \in Caller, Offer(c), writer' = writer PROVE Passing'
  BY <1>1, <1>2 DEF Offer, Passing, Shape, Standing
<1>3. ASSUME passed' = passed, \A c \in Caller : pc'[c] = "offering" => pc[c] = "offering",
             writer' = writer \/ writer' # "select"
      PROVE  Passing'
  BY <1>1, <1>3 DEF Passing
<1>4. ASSUME NEW c \in Caller, Submit(c) \/ Yield(c) \/ SubmitBulk(c) \/ GiveUp(c) \/ TurnedAway(c)
      PROVE  Passing'
  <2>1. CASE Submit(c) \/ SubmitBulk(c)
    BY <2>1, <1>2 DEF Submit, SubmitBulk
  <2>2. CASE Yield(c)
    BY <2>2, <1>3 DEF Yield, Shape, Standing
  <2>3. CASE GiveUp(c) \/ TurnedAway(c)
    BY <2>3, <1>3 DEF GiveUp, TurnedAway, Return, Shape, Standing
  <2> QED BY <1>4, <2>1, <2>2, <2>3
<1>5. ASSUME NEW l \in Lane, Take(l), l = "interactive" \/ writer = "select"
      PROVE  Passing'
  <2>1. lane[l] \in Seq(Caller) /\ lane[l] # <<>>
    BY <1>5 DEF Take, Shape, Standing
  <2> DEFINE h == Head(lane[l])
  <2>2. h \in Caller /\ pc' = [pc EXCEPT ![h] = "admitted"] /\ writer' = "execute"
    BY <1>5, <2>1, TailTyped DEF Take
  <2>3. \A d \in Caller : pc'[d] = "offering" => pc[d] = "offering"
    BY <2>2 DEF Shape, Standing
  <2>4. \A d \in Caller : passed'[d] = IF l = "bulk" /\ pc[d] = "offering" /\ d # h
                                       THEN passed[d] + 1 ELSE passed[d]
    BY <1>5 DEF Take
  <2>5. ASSUME NEW c \in Interactive, pc'[c] = "offering" PROVE passed'[c] <= 1
    <3>1. pc[c] = "offering" /\ c \in Caller /\ passed[c] \in Nat /\ passed[c] <= 1
      BY <1>1, <2>3, <2>5 DEF Passing
    <3>2. CASE l = "interactive"
      BY <3>1, <3>2, <2>4
    <3>3. CASE writer = "select"
      <4>1. passed[c] = 0
        BY <3>1, <3>3 DEF Passing
      <4> QED BY <3>1, <4>1, <2>4
    <3> QED BY <3>2, <3>3, <1>5
  <2> QED BY <2>2, <2>5 DEF Passing
<1>6. CASE Check
  <2>1. CASE Take("interactive")
    BY <2>1, <1>5 DEF Lane
  <2>2. CASE ~Take("interactive")
    <3>1. lane["interactive"] = <<>> /\ pc' = pc
      BY <2>2, <1>6 DEF Check, callers
    <3>2. \A c \in Interactive : pc[c] # "offering"
      BY <3>1, <1>1 DEF Shape, Standing
    <3> QED BY <3>1, <3>2 DEF Passing
  <2> QED BY <2>1, <2>2
<1>7. CASE Select
  BY <1>5, <1>7 DEF Select
<1>8. CASE Advance \/ Fail
  <2>1. PICK c \in job, a \in Answer : Answered(c, a)
    BY <1>8 DEF Advance, Fail, Answer
  <2>2. c \in Caller /\ pc' = [pc EXCEPT ![c] = "idle"] /\ passed' = passed /\ writer' # "select"
    BY <2>1 DEF Answered, Return, Shape, Holding
  <2>3. \A d \in Caller : pc'[d] = "offering" => pc[d] = "offering"
    BY <2>2 DEF Shape, Standing
  <2> QED BY <2>2, <2>3, <1>3
<1>9. CASE IdleCheckpoint \/ Exit \/ Passive \/ Commit \/ Quiet \/ Close \/ Closed \/ UNCHANGED vars
  BY <1>3, <1>9 DEF IdleCheckpoint, Exit, Passive, Commit, Quiet, Close, Closed, vars, callers
<1>10. ASSUME NEW r \in Reader, Stamp(r) \/ Query(r) PROVE Passing'
  BY <1>3, <1>10 DEF Stamp, Query, callers
<1> QED BY <1>4, <1>6, <1>7, <1>8, <1>9, <1>10 DEF Next, Run

\* However deep the bulk backlog, one bulk job at most goes before an interactive one.
THEOREM InteractiveFirst == Spec => []PassedOnce
<1>1. Init => Passing
  BY WriterInputs DEF Init, Passing
<1>2. Passing => PassedOnce
  BY DEF Passing, PassedOnce
<1> QED BY <1>1, <1>2, ShapeInit, ShapeStep, PassingStep, PTL DEF Spec
=============================================================================
