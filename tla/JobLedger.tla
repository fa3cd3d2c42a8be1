------------------------------ MODULE JobLedger ------------------------------
(***************************************************************************)
(* What job_runs and job_events promise about the verdict of a job, with   *)
(* no event loop, no thread and no container: a writer that has seen the   *)
(* job running holds a claim on it, and only a claim lets it write.  The   *)
(* first verdict and its first `done` event appear together.  While other  *)
(* claims are open a verdict is provisional: each of them may overwrite    *)
(* it.  JobCompletion implements this ledger.                              *)
(***************************************************************************)
EXTENDS JobRows

CONSTANT Writers

VARIABLES row, done,
          claims       \* by job: the writers that saw it running

vars == <<row, done, claims>>

Init ==
    /\ row = [j \in Jobs |-> NoRow]
    /\ done = [j \in Jobs |-> << >>]
    /\ claims = [j \in Jobs |-> {}]

-----------------------------------------------------------------------------
Insert(j) ==
    /\ row[j].status = "absent"
    /\ row' = [row EXCEPT ![j] = NewRow]
    /\ UNCHANGED <<done, claims>>

Attach(j) ==
    /\ row[j].status = "running"
    /\ row' = [row EXCEPT ![j].cid = TRUE]
    /\ UNCHANGED <<done, claims>>

(* A container that could not be started; there is nobody to contradict. *)
Refuse(j) ==
    /\ row[j] = NewRow /\ claims[j] = {}
    /\ row' = [row EXCEPT ![j].status = "error", ![j].exit = UnknownCode]
    /\ UNCHANGED <<done, claims>>

Claim(w, j) ==
    /\ row[j].status = "running" /\ row[j].cid
    /\ claims' = [claims EXCEPT ![j] = @ \cup {w}]
    /\ UNCHANGED <<row, done>>

Withdraw(w, j) ==
    /\ w \in claims[j]
    /\ claims' = [claims EXCEPT ![j] = @ \ {w}]
    /\ UNCHANGED <<row, done>>

Record(w, j, code) ==
    /\ w \in claims[j]
    /\ row' = [row EXCEPT ![j] = Closed(@, code)]
    /\ \/ done' = [done EXCEPT ![j] = Append(@, DoneEvent(Closed(row[j], code)))]
       \/ done[j] # << >> /\ done' = done
    /\ claims' = [claims EXCEPT ![j] = @ \ {w}]

(* A reader of a job that never started is given a `done` event. *)
Answer(j) ==
    /\ row[j].status = "error" /\ done[j] = << >>
    /\ done' = [done EXCEPT ![j] = <<DoneEvent(row[j])>>]
    /\ UNCHANGED <<row, claims>>

(* The hub dies: every claim is gone, what was committed stays. *)
Forget ==
    /\ claims' = [j \in Jobs |-> {}]
    /\ UNCHANGED <<row, done>>

Next ==
    \/ \E j \in Jobs :
          \/ Insert(j) \/ Attach(j) \/ Refuse(j) \/ Answer(j)
          \/ \E w \in Writers : \/ Claim(w, j) \/ Withdraw(w, j)
                                \/ \E c \in Codes : Record(w, j, c)
    \/ Forget

Spec == Init /\ [][Next]_vars
=============================================================================
