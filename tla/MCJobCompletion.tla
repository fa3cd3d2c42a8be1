--------------------------- MODULE MCJobCompletion ---------------------------
(***************************************************************************)
(* JobCompletion for TLC, with what the repository says of the verdict and *)
(* the code does not keep.  Each of these has a run of its own that ends   *)
(* in a counterexample.                                                    *)
(***************************************************************************)
EXTENDS JobCompletion

(* docs/sequence_diagrams.md: "the job must read as stopped, not failed";  *)
(* app/job_runtime.py:154 "The first terminal state wins."  A reconcile    *)
(* that read the row before the stop was recorded, and asks Docker after   *)
(* the container has stopped, overwrites the stop with "failed".           *)
StopIsKept ==
    [][\A j \in Jobs : row[j].status = "stopped" => row'[j] = row[j]]_vars

(* app/job_runtime.py:152 "emit its durable `done` event exactly once".    *)
(* Two closers that both look before either commits each add one.          *)
DoneOnce == \A j \in Jobs : Len(done[j]) <= 1

(* docs/sequence_diagrams.md:145 "The monitor loop is the safety net. [...] *)
(* It finishes jobs whose containers exited while no producer was          *)
(* attached, for example after a hub restart".  The property speaks of a   *)
(* job whose docker run succeeded ("launched": start_container returned    *)
(* the container's id).  When the hub dies before that id is committed,    *)
(* the row stays "running" and nothing ever finishes it.                   *)
SafetyNet ==
    \A j \in Jobs :
        <>(start[j] = "launched") =>
            (row[j].status = "running" /\ Ended(j) ~> row[j].status # "running")
=============================================================================
