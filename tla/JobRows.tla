------------------------------- MODULE JobRows -------------------------------
(***************************************************************************)
(* What one JobRun row and its durable `done` events hold, and the pure    *)
(* rule that turns an exit code into a verdict.  Shared by the abstract    *)
(* ledger of verdicts (JobLedger) and by the tasks and threads that write  *)
(* it (JobCompletion).                                                     *)
(***************************************************************************)
EXTENDS Integers, Sequences

CONSTANTS Jobs,             \* the job ids
          ContainerCodes,   \* the exit codes a container can end with
          None              \* SQL NULL

ASSUME JobRowsAssumption ==
    /\ ContainerCodes \subseteq 0..255
    /\ None \notin Int

-----------------------------------------------------------------------------
(* app/job_runtime.py:116: container exit codes are 0-255, so the code of  *)
(* a user stop never collides with a real one; -1 stands for "Docker could *)
(* not tell".                                                              *)
STOPPED_EXIT_CODE == -2
UnknownCode       == -1

Codes == ContainerCodes \cup {STOPPED_EXIT_CODE, UnknownCode}

status_for_exit_code(code) ==
    IF code = 0 THEN "success"
    ELSE IF code = STOPPED_EXIT_CODE THEN "stopped"
    ELSE "failed"

(* "absent" is a row that has not been inserted yet. *)
Verdicts == {"success", "failed", "stopped"}
Terminal == Verdicts \cup {"error"}
Statuses == {"absent", "running"} \cup Terminal

Row  == [status : Statuses, exit : Codes \cup {None}, cid : BOOLEAN]
Done == [status : Statuses, exit : Codes \cup {None}]

NoRow    == [status |-> "absent", exit |-> None, cid |-> FALSE]
NewRow   == [status |-> "running", exit |-> None, cid |-> FALSE]

(* The row with a verdict recorded, and the `done` event of a row. *)
Closed(r, code) == [r EXCEPT !.status = status_for_exit_code(code), !.exit = code]
DoneEvent(r)    == [status |-> r.status, exit |-> r.exit]
=============================================================================
