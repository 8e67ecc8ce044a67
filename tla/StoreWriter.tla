---------------------------- MODULE StoreWriter ----------------------------
(***************************************************************************)
(* The store's single writer: callers offer jobs on two lanes, one         *)
(* goroutine runs them, each as one transaction, interactive ones first;   *)
(* a revision counts the commits, and readers label with it what they see. *)
(*                                                                         *)
(* A lane is an unbuffered channel: callers stand in it, first come first  *)
(* served, until the writer takes them, their context is cancelled, or the *)
(* writer is told to stop; when several of these are possible any may win. *)
(*                                                                         *)
(* A definition X_Y is no part of the model: it is X with a plausible slip *)
(* in the code it stands for, kept beside X to show which property notices.*)
(***************************************************************************)
EXTENDS Integers, Sequences

CONSTANTS
  Caller,       \* goroutines that write
  Interactive,  \* those that use the interactive lane; the others are sync's
  Reader,       \* goroutines that read
  MaxCalls,     \* calls each caller ever makes
  MaxReads      \* reads each reader ever makes

ASSUME WriterInputs ==
  /\ Interactive \subseteq Caller
  /\ MaxCalls \in Nat /\ MaxReads \in Nat

Lane == {"interactive", "bulk"}
LaneOf(c) == IF c \in Interactive THEN "interactive" ELSE "bulk"
Answer == {"ok", "failed", "cancelled", "closed"}

VARIABLES
  pc,         \* callers: where each is in its call
  told,       \* callers: the answers each has had, in order
  lane,       \* the lanes: callers that offer a job, in order
  writer,     \* the writer: where it is in run
  job,        \* the writer: the callers whose job it has, one or none
  recent,     \* whether an interactive job ran within the quiet window
  closing,    \* the call of Close
  committed,  \* the store: jobs committed, in order, each <<caller, call>>
  rev,        \* the revision
  stamp,      \* readers: the revision of the read under way, -1 if none
  results,    \* history: results read, each with its label and the commits it saw
  passed      \* history: bulk jobs taken while a caller has been offering

callers == <<pc, told, lane, passed>>
store   == <<committed, rev>>
reads   == <<stamp, results>>
vars    == <<callers, writer, job, recent, closing, store, reads>>

\* The call caller c is in.
Call(c) == <<c, Len(told[c]) + 1>>

Init ==
  /\ pc = [c \in Caller |-> "idle"] /\ told = [c \in Caller |-> <<>>]
  /\ lane = [l \in Lane |-> <<>>]
  /\ writer = "check" /\ job = {} /\ recent = FALSE /\ closing = "open"
  /\ committed = <<>> /\ rev = 0
  /\ stamp = [r \in Reader |-> -1]
  /\ results = [r \in Reader |-> <<>>]
  /\ passed = [c \in Caller |-> 0]
-----------------------------------------------------------------------------
(* Callers. *)

Offer(c) ==
  /\ lane' = [lane EXCEPT ![LaneOf(c)] = Append(@, c)]
  /\ pc' = [pc EXCEPT ![c] = "offering"]
  /\ passed' = [passed EXCEPT ![c] = 0]

\* submit: the interactive lane.
Submit(c) ==
  /\ pc[c] = "idle" /\ Len(told[c]) < MaxCalls /\ c \in Interactive
  /\ Offer(c)
  /\ UNCHANGED <<told, writer, job, recent, closing, store, reads>>

\* runBulkChunks: the bulk lane, once no interactive job has run for a while.
Yield(c) ==
  /\ pc[c] = "idle" /\ Len(told[c]) < MaxCalls /\ c \notin Interactive
  /\ pc' = [pc EXCEPT ![c] = "yielding"]
  /\ UNCHANGED <<told, lane, passed, writer, job, recent, closing, store, reads>>

SubmitBulk(c) ==
  /\ pc[c] = "yielding" /\ ~recent
  /\ Offer(c)
  /\ UNCHANGED <<told, writer, job, recent, closing, store, reads>>

\* Caller c has its answer.
Return(c, answer) ==
  /\ told' = [told EXCEPT ![c] = Append(@, answer)]
  /\ pc' = [pc EXCEPT ![c] = "idle"]
  /\ UNCHANGED passed

\* Lane s without caller c, who stands in it.
Without(s, c) ==
  LET place == CHOOSE k \in DOMAIN s : s[k] = c
  IN [k \in 1..(Len(s) - 1) |-> IF k < place THEN s[k] ELSE s[k + 1]]

Leave(c) ==
  lane' = IF pc[c] = "offering" THEN [lane EXCEPT ![LaneOf(c)] = Without(@, c)] ELSE lane

\* A caller that waits for its job's answer in a select with its context.
MayGiveUp_Admitted(c) == pc[c] \in {"yielding", "offering", "admitted"}

\* Once its job is admitted a caller waits for the outcome.
MayGiveUp(c) == pc[c] \in {"yielding", "offering"}

\* The caller's context is cancelled.
GiveUp(c) ==
  /\ MayGiveUp(c)
  /\ Return(c, "cancelled") /\ Leave(c)
  /\ UNCHANGED <<writer, job, recent, closing, store, reads>>

\* An enqueue without the case on stop.
TurnedAway_Never(c) == FALSE

\* The writer has been told to stop.
TurnedAway(c) ==
  /\ pc[c] = "offering" /\ closing # "open"
  /\ Return(c, "closed") /\ Leave(c)
  /\ UNCHANGED <<writer, job, recent, closing, store, reads>>
-----------------------------------------------------------------------------
(* The writer. *)

\* The first caller of lane l hands over its job.
Take(l) ==
  /\ lane[l] # <<>>
  /\ LET c == Head(lane[l])
     IN /\ job' = {c}
        /\ lane' = [lane EXCEPT ![l] = Tail(@)]
        /\ pc' = [pc EXCEPT ![c] = "admitted"]
        /\ passed' = [d \in Caller |->
             IF l = "bulk" /\ pc[d] = "offering" /\ d # c THEN passed[d] + 1 ELSE passed[d]]
  /\ writer' = "execute"
  /\ recent' = (recent \/ l = "interactive")
  /\ UNCHANGED <<told, closing, store, reads>>

\* A run with the blocking select alone.
Check_Skip ==
  /\ writer = "check" /\ writer' = "select"
  /\ UNCHANGED <<callers, job, recent, closing, store, reads>>

\* The top of run: an interactive job if one waits.
Check ==
  /\ writer = "check"
  /\ \/ Take("interactive")
     \/ /\ lane["interactive"] = <<>>
        /\ writer' = "select"
        /\ UNCHANGED <<callers, job, recent, closing, store, reads>>

\* The blocking select: a job of either lane, the idle checkpoint, or the end.
Select == writer = "select" /\ \E l \in Lane : Take(l)

IdleCheckpoint ==
  /\ writer = "select" /\ writer' = "check"
  /\ UNCHANGED <<callers, job, recent, closing, store, reads>>

Exit ==
  /\ writer = "select" /\ closing = "stopping"
  /\ writer' = "exited"
  /\ UNCHANGED <<callers, job, recent, closing, store, reads>>

Answered(c, answer) ==
  /\ Return(c, answer) /\ UNCHANGED lane
  /\ job' = {}
  /\ writer' = IF c \in Interactive THEN "check" ELSE "passive"

\* The transaction commits ...
Commit ==
  /\ writer = "execute" /\ writer' = "advance"
  /\ \E c \in job : committed' = Append(committed, Call(c))
  /\ UNCHANGED <<callers, job, recent, closing, rev, reads>>

\* ... the revision follows, and the caller is told.
Advance ==
  /\ writer = "advance" /\ rev' = rev + 1
  /\ \E c \in job : Answered(c, "ok")
  /\ UNCHANGED <<recent, closing, committed, reads>>

\* A revision counted for every transaction, committed or not.
Fail_Counted ==
  /\ writer = "execute" /\ rev' = rev + 1
  /\ \E c \in job : Answered(c, "failed")
  /\ UNCHANGED <<recent, closing, committed, reads>>

\* The transaction cannot begin, the job fails in it, or it cannot commit.
Fail ==
  /\ writer = "execute"
  /\ \E c \in job : Answered(c, "failed")
  /\ UNCHANGED <<recent, closing, store, reads>>

\* The checkpoint that follows a bulk job.
Passive ==
  /\ writer = "passive" /\ writer' = "check"
  /\ UNCHANGED <<callers, job, recent, closing, store, reads>>

\* The quiet window since the last interactive job has passed.
Quiet ==
  /\ recent /\ recent' = FALSE
  /\ UNCHANGED <<callers, writer, job, closing, store, reads>>

\* Close stops the writer ...
Close ==
  /\ closing = "open" /\ closing' = "stopping"
  /\ UNCHANGED <<callers, writer, job, recent, store, reads>>

\* A Close that does not wait for the writer.
Closed_AtOnce ==
  /\ closing = "stopping" /\ closing' = "closed"
  /\ UNCHANGED <<callers, writer, job, recent, store, reads>>

\* ... waits for it to exit, and closes the database.
Closed ==
  /\ closing = "stopping" /\ writer = "exited" /\ closing' = "closed"
  /\ UNCHANGED <<callers, writer, job, recent, store, reads>>
-----------------------------------------------------------------------------
(* Readers: the revision first, then the rows of one snapshot. *)

Stamp(r) ==
  /\ stamp[r] = -1 /\ Len(results[r]) < MaxReads
  /\ stamp' = [stamp EXCEPT ![r] = rev]
  /\ UNCHANGED <<callers, writer, job, recent, closing, store, results>>

Query(r) ==
  /\ stamp[r] # -1
  /\ results' = [results EXCEPT ![r] = Append(@, [rev |-> stamp[r], seen |-> Len(committed)])]
  /\ stamp' = [stamp EXCEPT ![r] = -1]
  /\ UNCHANGED <<callers, writer, job, recent, closing, store>>

Run == Check \/ Select \/ IdleCheckpoint \/ Exit \/ Commit \/ Advance \/ Fail \/ Passive

Next ==
  \/ Run \/ Quiet \/ Close \/ Closed
  \/ \E c \in Caller : Submit(c) \/ Yield(c) \/ SubmitBulk(c) \/ GiveUp(c) \/ TurnedAway(c)
  \/ \E r \in Reader : Stamp(r) \/ Query(r)

Spec == Init /\ [][Next]_vars

\* The writer is a goroutine whose transactions end, and a caller's select takes
\* a case that stays ready.  Callers need not call, nor readers read.
FairSpec == Spec /\ WF_vars(Run) /\ \A c \in Caller : WF_vars(TurnedAway(c))
-----------------------------------------------------------------------------
Result == [rev : Nat, seen : Nat]

TypeOK ==
  /\ pc \in [Caller -> {"idle", "yielding", "offering", "admitted"}]
  /\ told \in [Caller -> Seq(Answer)]
  /\ lane \in [Lane -> Seq(Caller)]
  /\ writer \in {"check", "select", "execute", "advance", "passive", "exited"}
  /\ job = {c \in Caller : pc[c] = "admitted"} /\ recent \in BOOLEAN
  /\ \A c, d \in job : c = d
  /\ \A l \in Lane : \A k \in DOMAIN lane[l] :
       LaneOf(lane[l][k]) = l /\ pc[lane[l][k]] = "offering"
  /\ \A l \in Lane : \A j, k \in DOMAIN lane[l] : lane[l][j] = lane[l][k] => j = k
  /\ \A c \in Caller : pc[c] = "offering" => \E k \in DOMAIN lane[LaneOf(c)] : lane[LaneOf(c)][k] = c
  /\ closing \in {"open", "stopping", "closed"}
  /\ committed \in Seq(Caller \X Nat) /\ rev \in Nat
  /\ stamp \in [Reader -> Nat \cup {-1}] /\ results \in [Reader -> Seq(Result)]
  /\ passed \in [Caller -> Nat]

\* What a caller is told is so: "ok" of a job that is in the store, once, and
\* anything else of a job that is not.
AnswersAreTrue ==
  /\ \A c \in Caller : \A n \in DOMAIN told[c] :
       told[c][n] = "ok" <=> \E k \in DOMAIN committed : committed[k] = <<c, n>>
  /\ \A k, m \in DOMAIN committed : committed[k] = committed[m] => k = m

\* A result is never labelled with a revision its rows have not seen.
LabelNeverAhead ==
  \A r \in Reader : \A n \in DOMAIN results[r] : results[r][n].rev <= results[r][n].seen

\* Once Close has returned no job is under way and every commit is counted.
ClosedIsQuiet ==
  closing = "closed" => rev = Len(committed) /\ \A c \in Caller : pc[c] # "admitted"

\* An interactive job lets at most one bulk job go first: the one taken at the
\* boundary at which it came.
PassedOnce == \A c \in Interactive : pc[c] = "offering" => passed[c] <= 1

\* Every offer of an interactive job is answered, and once Close is called, of any.
AllAnswered ==
  \A c \in Caller :
    pc[c] \in {"offering", "admitted"} /\ (c \in Interactive \/ closing # "open") ~> pc[c] = "idle"

\* As documented of Revision: of two results the one with the later revision is
\* not the staler.
LaterRevisionLaterRows ==
  \A r, s \in Reader : \A n \in DOMAIN results[r], m \in DOMAIN results[s] :
    results[r][n].rev < results[s][m].rev => results[r][n].seen <= results[s][m].seen
=============================================================================
