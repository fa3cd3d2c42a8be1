------------------------- MODULE JobCompletionProofs -------------------------
(***************************************************************************)
(* What holds of JobCompletion for every set of jobs, requests and         *)
(* viewers, every exit code and any number of restarts.                    *)
(***************************************************************************)
EXTENDS JobCompletion, SequenceTheorems, TLAPS

-----------------------------------------------------------------------------
(***************************************************************************)
(* Facts about rows and exit codes.                                        *)
(***************************************************************************)
USE DEF STOPPED_EXIT_CODE, UnknownCode

(* Every exit code has a verdict. *)
LEMMA VerdictOfCode == \A c : status_for_exit_code(c) \in Verdicts
BY DEF status_for_exit_code, Verdicts

(* Recording a verdict in a row keeps it a row; its event is a `done`. *)
LEMMA ClosedType ==
    ASSUME NEW r \in Row, NEW c \in Codes
    PROVE  /\ Closed(r, c) \in Row
           /\ Closed(r, c).status \in Verdicts
           /\ DoneEvent(Closed(r, c)) \in Done
BY VerdictOfCode DEF Row, Done, Closed, DoneEvent, Statuses, Terminal

(* The rows and the closer state that the actions start from. *)
LEMMA RowConstants ==
    /\ NoRow \in Row /\ NewRow \in Row
    /\ Idle \in Closing
    /\ \A r \in Row : DoneEvent(r) \in Done
BY DEF NoRow, NewRow, Row, Statuses, Codes, Idle, Closing, ClosingPc, DoneEvent, Done

(* The edits of a row that the handlers make. *)
LEMMA RowEdits ==
    ASSUME NEW r \in Row
    PROVE  /\ [r EXCEPT !.cid = TRUE] \in Row
           /\ [r EXCEPT !.status = "error", !.exit = UnknownCode] \in Row
           /\ AsStopped(r) \in Row
BY DEF Row, Statuses, Terminal, Verdicts, Codes, AsStopped

-----------------------------------------------------------------------------
(***************************************************************************)
(* Type correctness.  A busy closer and an open stream have a job: that is *)
(* what makes the primed functions total.                                  *)
(***************************************************************************)
BusyHasJob == \A c \in Closers : closing[c].pc # "idle" => closing[c].job \in Jobs
OpenHasJob == \A v \in Viewers : stream[v].pc # "closed" => stream[v].job \in Jobs
HasJob == BusyHasJob /\ OpenHasJob

TypeInv == TypeOK /\ HasJob

(* What a persist leaves behind is well typed. *)
LEMMA PersistType ==
    ASSUME TypeInv, NEW c \in Closers, Persist(c)
    PROVE  /\ row' \in [Jobs -> Row]
           /\ done' \in [Jobs -> Seq(Done)]
           /\ raced' \in [Jobs -> BOOLEAN]
<1> DEFINE j == closing[c].job
<1>1. closing[c] \in Closing /\ j \in Jobs
  BY DEF TypeInv, TypeOK, HasJob, BusyHasJob, Persist
<1>2. closing[c].seen \in Row /\ closing[c].code \in Codes
  BY <1>1 DEF Closing
<1>3. Verdict(c) \in Row /\ DoneEvent(Verdict(c)) \in Done
  BY <1>2, ClosedType, RowConstants DEF Verdict
<1>4. row' \in [Jobs -> Row]
  <2>1. row \in [Jobs -> Row] /\ row[j] \in Row
    BY <1>1 DEF TypeInv, TypeOK
  <2> DEFINE r == [row[j] EXCEPT !.status = Verdict(c).status, !.exit = Verdict(c).exit]
  <2>2. r \in Row
    BY <1>3, <2>1 DEF Row
  <2>3. row' = [row EXCEPT ![j] = r] \/ row' = row
    BY DEF Persist
  <2> HIDE DEF r
  <2> QED
    BY <1>1, <2>1, <2>2, <2>3
<1>5. done' \in [Jobs -> Seq(Done)]
  <2>1. done[j] \in Seq(Done)
    BY <1>1 DEF TypeInv, TypeOK
  <2>2. Append(done[j], DoneEvent(Verdict(c))) \in Seq(Done)
    BY <2>1, <1>3
  <2> QED
    BY <1>1, <2>2 DEF Persist, WithDone, TypeInv, TypeOK
<1>6. raced' \in [Jobs -> BOOLEAN]
  <2>1. raced[j] \in BOOLEAN /\ raced \in [Jobs -> BOOLEAN]
    BY <1>1 DEF TypeInv, TypeOK
  <2> DEFINE b == raced[j] \/ (Writes(c) /\ Closers_OnIt(j) # {c})
  <2>2. b \in BOOLEAN
    OBVIOUS
  <2>3. raced' = [raced EXCEPT ![j] = b]
    BY DEF Persist
  <2> HIDE DEF b
  <2> QED
    BY <2>1, <2>2, <2>3
<1> QED
  BY <1>4, <1>5, <1>6

(* A closer that moves to a well-typed state of its own. *)
LEMMA MoveType ==
    ASSUME TypeInv, NEW c \in Closers, NEW r \in Closing,
           r.pc # "idle" => r.job \in Jobs,
           closing' = [closing EXCEPT ![c] = r]
    PROVE  closing' \in [Closers -> Closing] /\ BusyHasJob'
<1>1. closing' \in [Closers -> Closing]
  BY DEF TypeInv, TypeOK
<1>2. \A d \in Closers : closing'[d] = IF d = c THEN r ELSE closing[d]
  BY DEF TypeInv, TypeOK
<1> QED
  BY <1>1, <1>2 DEF BusyHasJob, TypeInv, HasJob

(* The closer states that the actions write. *)
LEMMA AtType ==
    /\ \A pc \in ClosingPc, j \in Jobs : At(pc, j) \in Closing /\ At(pc, j).job = j
    /\ Idle.pc = "idle"
BY RowConstants DEF At, Idle, Closing

(* A closer that takes the loop reads a row and holds an exit code. *)
LEMMA HoldType ==
    ASSUME TypeInv, NEW c \in Closers, NEW j \in Jobs, NEW x \in Codes, HoldLoop(c, j, x)
    PROVE  closing' \in [Closers -> Closing] /\ BusyHasJob' /\ loop' \in Closers \cup {None}
<1> DEFINE r == [At("query", j) EXCEPT !.seen = Reread(j), !.code = x]
<1>1. row[j] \in Row /\ At("query", j) \in Closing /\ At("query", j).job = j
  BY AtType DEF TypeInv, TypeOK, ClosingPc
<1>2. r \in Closing /\ r.job = j
  BY <1>1 DEF Closing, Reread
<1>3. closing' = [closing EXCEPT ![c] = r]
  BY DEF HoldLoop
<1> HIDE DEF r
<1> QED
  BY <1>2, <1>3, MoveType DEF HoldLoop

(* A thread that returns. *)
LEMMA ReturnType ==
    ASSUME TypeInv, NEW c \in Closers, NEW a \in Returned, closing[c].job \in Jobs, Return(c, a)
    PROVE  closing' \in [Closers -> Closing] /\ BusyHasJob'
<1> DEFINE r == IF c \in Pages THEN Idle ELSE At(a, closing[c].job)
<1>1. a \in ClosingPc
  BY DEF Returned, ClosingPc
<1>2. r \in Closing /\ (r.pc # "idle" => r.job \in Jobs)
  BY <1>1, AtType, RowConstants
<1>3. closing' = [closing EXCEPT ![c] = r]
  BY DEF Return
<1> HIDE DEF r
<1> QED
  BY <1>2, <1>3, MoveType

(* Asking for a producer keeps the table of producers. *)
LEMMA EnsureType ==
    ASSUME TypeInv, NEW j \in Jobs, ensure_job_producer(j)
    PROVE  prod' \in [Jobs -> {"off", "starting", "reconciling", "streaming", "ending"}]
BY DEF ensure_job_producer, TypeInv, TypeOK

(* The initial state is well typed. *)
LEMMA InitType == Init => TypeInv
BY RowConstants, JobCompletionAssumption
   DEF Init, TypeInv, TypeOK, HasJob, BusyHasJob, OpenHasJob, Idle, NoStream, StreamPc
-----------------------------------------------------------------------------
(* Every action keeps the types. *)
LEMMA StepType == TypeInv /\ [Next]_vars => TypeInv'
<1> SUFFICES ASSUME TypeInv, [Next]_vars
             PROVE  TypeInv'
  OBVIOUS
<1> USE JobCompletionAssumption
<1>1. CASE \E j \in Jobs : ContainerExits(j)
  BY <1>1 DEF TypeInv, TypeOK, HasJob, BusyHasJob, OpenHasJob, hubVars, ContainerExits, Exit
<1>2. CASE \E j \in Jobs : ContainerRemoved(j)
  BY <1>2 DEF TypeInv, TypeOK, HasJob, BusyHasJob, OpenHasJob, hubVars, ContainerRemoved
<1>3. CASE \E j \in Jobs : Submit(j)
  <2> PICK j \in Jobs : Submit(j)
    BY <1>3
  <2>1. row' \in [Jobs -> Row]
    BY RowConstants DEF Submit, TypeInv, TypeOK
  <2>2. start' \in [Jobs -> {"idle", "launching", "launched", "refused", "over"}]
    BY DEF Submit, TypeInv, TypeOK
  <2> QED
    BY <2>1, <2>2 DEF TypeInv, TypeOK, HasJob, BusyHasJob, OpenHasJob, hubVars, Submit
<1>4. CASE \E j \in Jobs : StartContainer(j)
  <2> PICK j \in Jobs : StartContainer(j)
    BY <1>4
  <2>1. box' \in [Jobs -> {"none", "running", "exited", "gone"}]
    BY DEF StartContainer, TypeInv, TypeOK
  <2>2. start' \in [Jobs -> {"idle", "launching", "launched", "refused", "over"}]
    BY DEF StartContainer, TypeInv, TypeOK
  <2> QED
    BY <2>1, <2>2 DEF TypeInv, TypeOK, HasJob, BusyHasJob, OpenHasJob, hubVars, StartContainer
<1>5. CASE \E j \in Jobs : StartRecorded(j)
  <2> PICK j \in Jobs : StartRecorded(j)
    BY <1>5
  <2>1. row' \in [Jobs -> Row]
    BY RowEdits DEF StartRecorded, TypeInv, TypeOK
  <2>2. start' \in [Jobs -> {"idle", "launching", "launched", "refused", "over"}]
    BY DEF StartRecorded, TypeInv, TypeOK
  <2> QED
    BY <2>1, <2>2, EnsureType DEF TypeInv, TypeOK, HasJob, BusyHasJob, OpenHasJob, hubVars, StartRecorded
<1>6. CASE \E j \in Jobs : StartRefused(j)
  <2> PICK j \in Jobs : StartRefused(j)
    BY <1>6
  <2>1. row' \in [Jobs -> Row]
    BY RowEdits DEF StartRefused, TypeInv, TypeOK
  <2>2. start' \in [Jobs -> {"idle", "launching", "launched", "refused", "over"}]
    BY DEF StartRefused, TypeInv, TypeOK
  <2> QED
    BY <2>1, <2>2 DEF TypeInv, TypeOK, HasJob, BusyHasJob, OpenHasJob, hubVars, StartRefused
<1>7. CASE \E j \in Jobs : MonitorVisits(j)
  <2> PICK j \in Jobs : MonitorVisits(j)
    BY <1>7
  <2>1. closing' \in [Closers -> Closing] /\ BusyHasJob'
    <3> DEFINE r == At("read", j)
    <3>1. Monitor \in Closers /\ r \in Closing /\ (r.pc # "idle" => r.job \in Jobs)
      BY AtType, RowConstants DEF TypeInv, TypeOK, HasJob, BusyHasJob, OpenHasJob, Closers, ClosingPc, Closing, MonitorVisits, Dispatch
    <3>2. closing' = [closing EXCEPT ![Monitor] = r]
      BY DEF MonitorVisits, Dispatch
    <3> HIDE DEF r
    <3> QED
      BY <3>1, <3>2, MoveType
  <2> QED
    BY <2>1 DEF TypeInv, TypeOK, HasJob, BusyHasJob, OpenHasJob, hubVars, MonitorVisits
<1>8. CASE \E j \in Jobs : ProducerBegins(j)
  <2> PICK j \in Jobs : ProducerBegins(j)
    BY <1>8
  <2>1. closing' \in [Closers -> Closing] /\ BusyHasJob'
    <3> DEFINE r == At("read", j)
    <3>1. j \in Closers /\ r \in Closing /\ r.job \in Jobs
      BY AtType DEF Closers, ClosingPc
    <3>2. closing' = closing \/ closing' = [closing EXCEPT ![j] = r]
      BY DEF ProducerBegins, Dispatch
    <3> HIDE DEF r
    <3> QED
      BY <3>1, <3>2, MoveType DEF TypeInv, TypeOK, HasJob, BusyHasJob, OpenHasJob
  <2>2. /\ prod' \in [Jobs -> {"off", "starting", "reconciling", "streaming", "ending"}]
        /\ UNCHANGED <<row, done, raced, box, code, loop, mon, todo, start, stream, restarts>>
    <3>1. \E q \in {"reconciling", "off"} : prod' = [prod EXCEPT ![j] = q]
      BY DEF ProducerBegins
    <3>2. prod \in [Jobs -> {"off", "starting", "reconciling", "streaming", "ending"}]
      BY DEF TypeInv, TypeOK
    <3>3. UNCHANGED <<row, done, raced, box, code, loop, mon, todo, start, stream, restarts>>
      BY DEF ProducerBegins
    <3> QED
      BY <3>1, <3>2, <3>3
  <2> QED
    BY <2>1, <2>2 DEF TypeInv, TypeOK, HasJob, BusyHasJob, OpenHasJob
<1>9. CASE \E j \in Jobs : ProducerResumes(j)
  <2> PICK j \in Jobs : ProducerResumes(j)
    BY <1>9
  <2>1. closing' \in [Closers -> Closing] /\ BusyHasJob'
    <3> DEFINE r == Idle
    <3>1. j \in Closers /\ r \in Closing /\ (r.pc # "idle" => r.job \in Jobs)
      BY AtType, RowConstants DEF TypeInv, TypeOK, HasJob, BusyHasJob, OpenHasJob, Closers, ClosingPc, Closing, ProducerResumes
    <3>2. closing' = [closing EXCEPT ![j] = r]
      BY DEF ProducerResumes
    <3> HIDE DEF r
    <3> QED
      BY <3>1, <3>2, MoveType
  <2> QED
    BY <2>1 DEF TypeInv, TypeOK, HasJob, BusyHasJob, OpenHasJob, hubVars, ProducerResumes
<1>10. CASE \E j \in Jobs : ProducerBreaks(j)
  <2> PICK j \in Jobs : ProducerBreaks(j)
    BY <1>10
  <2>1. closing' \in [Closers -> Closing] /\ BusyHasJob'
    <3> DEFINE r == At("read", j)
    <3>1. j \in Closers /\ r \in Closing /\ (r.pc # "idle" => r.job \in Jobs)
      BY AtType, RowConstants DEF TypeInv, TypeOK, HasJob, BusyHasJob, OpenHasJob, Closers, ClosingPc, Closing, ProducerBreaks, Dispatch
    <3>2. closing' = [closing EXCEPT ![j] = r]
      BY DEF ProducerBreaks, Dispatch
    <3> HIDE DEF r
    <3> QED
      BY <3>1, <3>2, MoveType
  <2> QED
    BY <2>1 DEF TypeInv, TypeOK, HasJob, BusyHasJob, OpenHasJob, hubVars, ProducerBreaks
<1>11. CASE \E j \in Jobs : ProducerDies(j)
  BY <1>11 DEF TypeInv, TypeOK, HasJob, BusyHasJob, OpenHasJob, hubVars, ProducerDies
<1>12. CASE \E j \in Jobs : ProducerFinishes(j)
  <2> PICK j \in Jobs : ProducerFinishes(j)
    BY <1>12
  <2>1. j \in Closers /\ j \in Jobs
    BY DEF Closers, ProducerFinishes, TypeInv, TypeOK, HasJob, BusyHasJob, OpenHasJob
  <2>2. \E x \in Codes : HoldLoop(j, j, x)
    BY DEF ProducerFinishes, TypeInv, TypeOK, HasJob, BusyHasJob, OpenHasJob, Codes, Row, StreamCodes
  <2>3. closing' \in [Closers -> Closing] /\ BusyHasJob' /\ loop' \in Closers \cup {None}
    BY <2>1, <2>2, HoldType
  <2> QED
    BY <2>3 DEF TypeInv, TypeOK, HasJob, BusyHasJob, OpenHasJob, hubVars, ProducerFinishes
<1>13. CASE \E j \in Jobs : ProducerCommit(j)
  <2> PICK j \in Jobs : ProducerCommit(j)
    BY <1>13
  <2>0. j \in Closers /\ Persist(j)
    BY DEF Closers, ProducerCommit
  <2>2. row' \in [Jobs -> Row] /\ done' \in [Jobs -> Seq(Done)] /\ raced' \in [Jobs -> BOOLEAN]
    BY <2>0, PersistType
  <2>1. closing' \in [Closers -> Closing] /\ BusyHasJob'
    <3> DEFINE r == Idle
    <3>1. j \in Closers /\ r \in Closing /\ (r.pc # "idle" => r.job \in Jobs)
      BY <2>0, AtType, RowConstants DEF TypeInv, TypeOK, HasJob, BusyHasJob, OpenHasJob, Closers, ClosingPc, Closing, ProducerCommit, Persist
    <3>2. closing' = [closing EXCEPT ![j] = r]
      BY DEF ProducerCommit, Persist
    <3> HIDE DEF r
    <3> QED
      BY <3>1, <3>2, MoveType
  <2> QED
    BY <2>1, <2>2 DEF TypeInv, TypeOK, HasJob, BusyHasJob, OpenHasJob, hubVars, ProducerCommit
<1>14. CASE \E p \in Pages, j \in Jobs : PageReconciles(p, j)
  <2> PICK p \in Pages, j \in Jobs : PageReconciles(p, j)
    BY <1>14
  <2>1. closing' \in [Closers -> Closing] /\ BusyHasJob'
    <3> DEFINE r == [At("inspect", j) EXCEPT !.seen = row[j]]
    <3>1. p \in Closers /\ r \in Closing /\ (r.pc # "idle" => r.job \in Jobs)
      <4>1. row[j] \in Row /\ At("inspect", j) \in Closing /\ At("inspect", j).job = j
        BY AtType DEF TypeInv, TypeOK, ClosingPc
      <4> QED
        BY <4>1 DEF Closing, Closers
    <3>2. closing' = [closing EXCEPT ![p] = r]
      BY DEF PageReconciles
    <3> HIDE DEF r
    <3> QED
      BY <3>1, <3>2, MoveType
  <2> QED
    BY <2>1 DEF TypeInv, TypeOK, HasJob, BusyHasJob, OpenHasJob, hubVars, PageReconciles
<1>15. CASE \E s \in Stops, j \in Jobs : StopRequest(s, j)
  <2> PICK s \in Stops, j \in Jobs : StopRequest(s, j)
    BY <1>15
  <2>1. s \in Closers /\ j \in Jobs
    BY DEF Closers, StopRequest, TypeInv, TypeOK, HasJob, BusyHasJob, OpenHasJob
  <2>2. \E x \in Codes : HoldLoop(s, j, x)
    BY DEF StopRequest, TypeInv, TypeOK, HasJob, BusyHasJob, OpenHasJob, Codes, Row
  <2>3. closing' \in [Closers -> Closing] /\ BusyHasJob' /\ loop' \in Closers \cup {None}
    BY <2>1, <2>2, HoldType
  <2> QED
    BY <2>3 DEF TypeInv, TypeOK, HasJob, BusyHasJob, OpenHasJob, hubVars, StopRequest
<1>16. CASE \E c \in Closers : LookForDone(c)
  <2> PICK c \in Closers : LookForDone(c)
    BY <1>16
  <2>1. closing' \in [Closers -> Closing] /\ BusyHasJob'
    <3> DEFINE r == [closing[c] EXCEPT !.pc = "commit", !.found = HasDone(closing[c].job)]
    <3>1. c \in Closers /\ r \in Closing /\ (r.pc # "idle" => r.job \in Jobs)
      <4>1. closing[c] \in Closing /\ closing[c].job \in Jobs
        BY DEF LookForDone, TypeInv, TypeOK, HasJob, BusyHasJob
      <4>2. HasDone(closing[c].job) \in BOOLEAN
        BY <4>1 DEF HasDone
      <4> QED
        BY <4>1, <4>2 DEF Closing, ClosingPc
    <3>2. closing' = [closing EXCEPT ![c] = r]
      BY DEF LookForDone
    <3> HIDE DEF r
    <3> QED
      BY <3>1, <3>2, MoveType
  <2> QED
    BY <2>1 DEF TypeInv, TypeOK, HasJob, BusyHasJob, OpenHasJob, hubVars, LookForDone
<1>17. CASE \E c \in Closers : ReconcileRead(c)
  <2> PICK c \in Closers : ReconcileRead(c)
    BY <1>17
  <2>0. closing[c] \in Closing /\ closing[c].job \in Jobs
    BY DEF ReconcileRead, TypeInv, TypeOK, HasJob, BusyHasJob, OpenHasJob
  <2> DEFINE r == [closing[c] EXCEPT !.pc = "inspect", !.seen = row[closing[c].job]]
  <2>1. CASE Running(row[closing[c].job])
    <3>1. r \in Closing /\ r.job \in Jobs
      BY <2>0 DEF TypeInv, TypeOK, HasJob, BusyHasJob, OpenHasJob, Closing, ClosingPc
    <3>2. closing' = [closing EXCEPT ![c] = r]
      BY <2>1 DEF ReconcileRead
    <3> HIDE DEF r
    <3>3. closing' \in [Closers -> Closing] /\ BusyHasJob'
      BY <3>1, <3>2, MoveType
    <3> QED
      BY <3>3 DEF TypeInv, TypeOK, HasJob, BusyHasJob, OpenHasJob, ReconcileRead
  <2>2. CASE ~Running(row[closing[c].job])
    <3>1. closing' \in [Closers -> Closing] /\ BusyHasJob'
      BY <2>0, <2>2, ReturnType DEF ReconcileRead, Returned
    <3> QED
      BY <3>1 DEF TypeInv, TypeOK, HasJob, BusyHasJob, OpenHasJob, ReconcileRead
  <2> QED
    BY <2>1, <2>2
<1>18. CASE \E c \in Closers : ReconcileLeaves(c) \/ ReconcileRaises(c)
  <2> PICK c \in Closers : ReconcileLeaves(c) \/ ReconcileRaises(c)
    BY <1>18
  <2>0. closing[c].job \in Jobs
    BY DEF ReconcileLeaves, ReconcileRaises, TypeInv, TypeOK, HasJob, BusyHasJob, OpenHasJob, Persist
  <2>1. closing' \in [Closers -> Closing] /\ BusyHasJob'
    BY <2>0, ReturnType DEF ReconcileLeaves, ReconcileRaises, Returned
  <2> QED
    BY <2>1 DEF TypeInv, TypeOK, HasJob, BusyHasJob, OpenHasJob, hubVars, ReconcileLeaves, ReconcileRaises
<1>19. CASE \E c \in Closers : ReconcileSeesEnd(c)
  <2> PICK c \in Closers : ReconcileSeesEnd(c)
    BY <1>19
  <2>1. closing' \in [Closers -> Closing] /\ BusyHasJob'
    <3> DEFINE r == [closing[c] EXCEPT !.pc = "query", !.code = InspectedCode(closing[c].job)]
    <3>1. c \in Closers /\ r \in Closing /\ (r.pc # "idle" => r.job \in Jobs)
      <4>1. closing[c] \in Closing /\ closing[c].job \in Jobs
        BY DEF ReconcileSeesEnd, TypeInv, TypeOK, HasJob, BusyHasJob
      <4>2. InspectedCode(closing[c].job) \in Codes
        BY <4>1 DEF InspectedCode, Codes, TypeInv, TypeOK
      <4> QED
        BY <4>1, <4>2 DEF Closing, ClosingPc
    <3>2. closing' = [closing EXCEPT ![c] = r]
      BY DEF ReconcileSeesEnd
    <3> HIDE DEF r
    <3> QED
      BY <3>1, <3>2, MoveType
  <2> QED
    BY <2>1 DEF TypeInv, TypeOK, HasJob, BusyHasJob, OpenHasJob, hubVars, ReconcileSeesEnd
<1>20. CASE \E c \in Closers : ReconcileCommit(c)
  <2> PICK c \in Closers : ReconcileCommit(c)
    BY <1>20
  <2>0. closing[c].job \in Jobs
    BY DEF ReconcileCommit, TypeInv, TypeOK, HasJob, BusyHasJob, OpenHasJob, Persist
  <2>1. closing' \in [Closers -> Closing] /\ BusyHasJob'
    BY <2>0, ReturnType DEF ReconcileCommit, Returned
  <2>2. row' \in [Jobs -> Row] /\ done' \in [Jobs -> Seq(Done)] /\ raced' \in [Jobs -> BOOLEAN]
    BY PersistType DEF ReconcileCommit
  <2> QED
    BY <2>1, <2>2 DEF TypeInv, TypeOK, HasJob, BusyHasJob, OpenHasJob, hubVars, ReconcileCommit
<1>21. CASE \E v \in Viewers, j \in Jobs : StreamOpens(v, j)
  BY <1>21, EnsureType DEF TypeInv, TypeOK, HasJob, BusyHasJob, OpenHasJob, hubVars, StreamOpens, StreamPc
<1>22. CASE \E v \in Viewers, j \in Jobs : StreamWaits(v, j)
  BY <1>22, EnsureType DEF TypeInv, TypeOK, HasJob, BusyHasJob, OpenHasJob, hubVars, StreamWaits, Polling, StreamPc
<1>23. CASE \E v \in Viewers, j \in Jobs : StreamPersists(v, j)
  <2> PICK v \in Viewers, j \in Jobs : StreamPersists(v, j)
    BY <1>23
  <2>1. v \in Closers /\ j \in Jobs
    BY DEF Closers, StreamPersists, TypeInv, TypeOK, HasJob, BusyHasJob, OpenHasJob
  <2>2. \E x \in Codes : HoldLoop(v, j, x)
    BY DEF StreamPersists, TypeInv, TypeOK, HasJob, BusyHasJob, OpenHasJob, Codes, Row
  <2>3. closing' \in [Closers -> Closing] /\ BusyHasJob' /\ loop' \in Closers \cup {None}
    BY <2>1, <2>2, HoldType
  <2> QED
    BY <2>3 DEF TypeInv, TypeOK, HasJob, BusyHasJob, OpenHasJob, hubVars, StreamPersists
<1>24. CASE \E v \in Viewers, j \in Jobs : StreamDelivers(v, j)
  BY <1>24 DEF TypeInv, TypeOK, HasJob, BusyHasJob, OpenHasJob, hubVars, StreamDelivers, StreamEnds, NoStream, StreamPc
<1>25. CASE \E v \in Viewers : DirectFinishes(v)
  <2> PICK v \in Viewers : DirectFinishes(v)
    BY <1>25
  <2>1. v \in Closers /\ stream[v].job \in Jobs
    BY DEF Closers, DirectFinishes, TypeInv, TypeOK, HasJob, BusyHasJob, OpenHasJob
  <2>2. \E x \in Codes : HoldLoop(v, stream[v].job, x)
    BY DEF DirectFinishes, TypeInv, TypeOK, HasJob, BusyHasJob, OpenHasJob, Codes, Row, StreamCodes
  <2>3. closing' \in [Closers -> Closing] /\ BusyHasJob' /\ loop' \in Closers \cup {None}
    BY <2>1, <2>2, HoldType
  <2> QED
    BY <2>3 DEF TypeInv, TypeOK, HasJob, BusyHasJob, OpenHasJob, hubVars, DirectFinishes
<1>26. CASE \E v \in Viewers : StreamCommit(v)
  <2> PICK v \in Viewers : StreamCommit(v)
    BY <1>26
  <2>0. v \in Closers /\ Persist(v)
    BY DEF Closers, StreamCommit
  <2>2. row' \in [Jobs -> Row] /\ done' \in [Jobs -> Seq(Done)] /\ raced' \in [Jobs -> BOOLEAN]
    BY <2>0, PersistType
  <2>1. closing' \in [Closers -> Closing] /\ BusyHasJob'
    <3> DEFINE r == Idle
    <3>1. v \in Closers /\ r \in Closing /\ (r.pc # "idle" => r.job \in Jobs)
      BY <2>0, AtType, RowConstants DEF TypeInv, TypeOK, HasJob, BusyHasJob, OpenHasJob, Closers, ClosingPc, Closing, StreamCommit, Persist
    <3>2. closing' = [closing EXCEPT ![v] = r]
      BY DEF StreamCommit, Persist
    <3> HIDE DEF r
    <3> QED
      BY <3>1, <3>2, MoveType
  <2>3. stream' \in [Viewers -> [pc : StreamPc, job : Jobs \cup {None}]] /\ OpenHasJob'
    <3>1. stream' = stream \/ stream' = [stream EXCEPT ![v] = NoStream]
      BY DEF StreamCommit, StreamEnds
    <3>2. NoStream \in [pc : StreamPc, job : Jobs \cup {None}] /\ NoStream.pc = "closed"
      BY DEF NoStream, StreamPc
    <3>3. stream' \in [Viewers -> [pc : StreamPc, job : Jobs \cup {None}]]
      BY <3>1, <3>2 DEF TypeInv, TypeOK
    <3>4. \A w \in Viewers : stream'[w] = stream[w] \/ stream'[w] = NoStream
      BY <3>1 DEF TypeInv, TypeOK
    <3> QED
      BY <3>2, <3>3, <3>4 DEF TypeInv, HasJob, OpenHasJob
  <2> QED
    BY <2>1, <2>2, <2>3 DEF TypeInv, TypeOK, HasJob, BusyHasJob, OpenHasJob, hubVars, StreamCommit
<1>27. CASE \E v \in Viewers : StreamDrops(v)
  BY <1>27 DEF TypeInv, TypeOK, HasJob, BusyHasJob, OpenHasJob, hubVars, StreamDrops, StreamEnds, NoStream, StreamPc
<1>28. CASE \E s \in Stops : StopCommit(s)
  <2> PICK s \in Stops : StopCommit(s)
    BY <1>28
  <2>0. s \in Closers /\ Persist(s)
    BY DEF Closers, StopCommit
  <2>2. row' \in [Jobs -> Row] /\ done' \in [Jobs -> Seq(Done)] /\ raced' \in [Jobs -> BOOLEAN]
    BY <2>0, PersistType
  <2>1. closing' \in [Closers -> Closing] /\ BusyHasJob'
    <3> DEFINE r == At("docker", closing[s].job)
    <3>1. s \in Closers /\ r \in Closing /\ (r.pc # "idle" => r.job \in Jobs)
      BY <2>0, AtType, RowConstants DEF TypeInv, TypeOK, HasJob, BusyHasJob, OpenHasJob, Closers, ClosingPc, Closing, StopCommit, Persist
    <3>2. closing' = [closing EXCEPT ![s] = r]
      BY DEF StopCommit, Persist
    <3> HIDE DEF r
    <3> QED
      BY <3>1, <3>2, MoveType
  <2> QED
    BY <2>1, <2>2 DEF TypeInv, TypeOK, HasJob, BusyHasJob, OpenHasJob, hubVars, StopCommit
<1>29. CASE \E s \in Stops : StopContainer(s)
  <2> PICK s \in Stops : StopContainer(s)
    BY <1>29
  <2>1. closing' \in [Closers -> Closing] /\ BusyHasJob'
    <3> DEFINE r == Idle
    <3>1. s \in Closers /\ r \in Closing /\ (r.pc # "idle" => r.job \in Jobs)
      BY AtType, RowConstants DEF TypeInv, TypeOK, HasJob, BusyHasJob, OpenHasJob, Closers, ClosingPc, Closing, StopContainer
    <3>2. closing' = [closing EXCEPT ![s] = r]
      BY DEF StopContainer
    <3> HIDE DEF r
    <3> QED
      BY <3>1, <3>2, MoveType
  <2>2. /\ box' \in [Jobs -> {"none", "running", "exited", "gone"}]
        /\ code' \in [Jobs -> ContainerCodes \cup {UnknownCode}]
    <3>1. CASE UNCHANGED <<box, code>>
      BY <3>1 DEF TypeInv, TypeOK
    <3>2. CASE \E c \in ContainerCodes : Exit(closing[s].job, c)
      <4> PICK c \in ContainerCodes : Exit(closing[s].job, c)
        BY <3>2
      <4> QED
        BY DEF Exit, TypeInv, TypeOK
    <3> QED
      BY <3>1, <3>2 DEF StopContainer
  <2> QED
    BY <2>1, <2>2 DEF TypeInv, TypeOK, HasJob, BusyHasJob, OpenHasJob, hubVars, StopContainer
<1>30. CASE MonitorLists
  BY <1>30 DEF TypeInv, TypeOK, HasJob, BusyHasJob, OpenHasJob, hubVars, MonitorLists
<1>31. CASE MonitorResumes
  <2>0. Monitor \in Closers /\ closing[Monitor].job \in Jobs
    BY <1>31 DEF MonitorResumes, Returned, Closers, TypeInv, TypeOK, HasJob, BusyHasJob, OpenHasJob
  <2>1. closing' \in [Closers -> Closing] /\ BusyHasJob'
    BY <1>31, <2>0, RowConstants, AtType, MoveType DEF MonitorResumes
  <2> QED
    BY <1>31, <2>0, <2>1, EnsureType DEF TypeInv, TypeOK, HasJob, BusyHasJob, OpenHasJob, MonitorResumes
<1>32. CASE Restart
  <2>1. row' \in [Jobs -> Row]
    <3>1. \A j \in Jobs : row[j] \in Row /\ AsStopped(row[j]) \in Row
      BY RowEdits DEF TypeInv, TypeOK
    <3> QED
      BY <1>32, <3>1 DEF Restart, mark_legacy_stopped_jobs
  <2>2. done' \in [Jobs -> Seq(Done)]
    <3> SUFFICES ASSUME NEW j \in Jobs
                 PROVE  [i \in 1..Len(done[j]) |->
                           IF LegacyStop(row[j]) /\ done[j][i].status = "failed"
                           THEN AsStopped(done[j][i]) ELSE done[j][i]] \in Seq(Done)
      BY <1>32 DEF Restart, mark_legacy_stopped_jobs
    <3>1. done[j] \in Seq(Done) /\ Len(done[j]) \in Nat
      BY DEF TypeInv, TypeOK
    <3>2. \A i \in 1..Len(done[j]) : done[j][i] \in Done
      BY <3>1
    <3>3. \A d \in Done : AsStopped(d) \in Done
      BY DEF AsStopped, Done, Statuses, Terminal, Verdicts
    <3> QED
      BY <3>1, <3>2, <3>3
  <2> QED
    BY <1>32, <2>1, <2>2, RowConstants DEF TypeInv, TypeOK, HasJob, BusyHasJob, OpenHasJob, Restart, NoStream, StreamPc, Idle
<1>33. CASE UNCHANGED vars
  BY <1>33 DEF TypeInv, TypeOK, HasJob, BusyHasJob, OpenHasJob, hubVars, vars
<1> QED
  BY <1>1, <1>2, <1>3, <1>4, <1>5, <1>6, <1>7, <1>8, <1>9, <1>10, <1>11, <1>12, <1>13, <1>14, <1>15, <1>16, <1>17, <1>18, <1>19, <1>20, <1>21, <1>22, <1>23, <1>24, <1>25, <1>26, <1>27, <1>28, <1>29, <1>30, <1>31, <1>32, <1>33
     DEF Next, JobStep, StreamStep, StopStep, ThreadStep

(* Type correctness of the hub's job state: in particular no record is     *)
(* ever written for a job that does not exist, and every recorded exit     *)
(* code is a container's, the stop's or "unknown".                         *)
THEOREM TypeCorrect == Spec => []TypeOK
<1>1. Spec => []TypeInv
  BY InitType, StepType, PTL DEF Spec
<1> QED
  BY <1>1, PTL DEF TypeInv
-----------------------------------------------------------------------------
(***************************************************************************)
(* The verdict of a job.  Every action does one of few things to the rows  *)
(* (RowEffect) and one of few things to a closer (CloserEffect); the       *)
(* invariants are then proved once per effect and not once per action.     *)
(***************************************************************************)
Busy == {"inspect", "query", "commit"}     \* a closer that may still write

(* What a step can do to a closer c. *)
Rests(c) == closing'[c].pc \notin Busy
Reads(c) ==       \* reconcile_job_state reads a running row
    /\ closing'[c].pc = "inspect" /\ closing'[c].job \in Jobs
    /\ closing'[c].seen = row[closing'[c].job]
    /\ Running(row[closing'[c].job])
    /\ closing[c].pc \notin Busy
    /\ UNCHANGED <<row, done, box, code>>
Holds(c) ==       \* a handler on the loop reads a row to close it
    /\ closing'[c].pc = "query" /\ closing'[c].job \in Jobs
    /\ closing'[c].seen = row[closing'[c].job]
    /\ row[closing'[c].job].status # "absent"
    /\ closing'[c].seen.status = "running" =>
          \/ closing'[c].code = STOPPED_EXIT_CODE
          \/ Ended(closing'[c].job) /\ closing'[c].code \in StreamCodes(closing'[c].job)
    /\ loop = None /\ loop' = c
    /\ UNCHANGED <<row, done, box, code>>

CloserMoves(c) ==
    \/ closing'[c] = closing[c]
    \/ Rests(c) \/ Reads(c) \/ Holds(c)
    \/ ReconcileSeesEnd(c) \/ LookForDone(c)

(* What a step can do to the rows and their `done` events. *)
RowMoves ==
    \/ UNCHANGED <<row, done>>
    \/ \E c \in Closers : Persist(c)
    \/ \E j \in Jobs : Submit(j) \/ StartRecorded(j) \/ StartRefused(j)
    \/ Restart

-----------------------------------------------------------------------------

(* Rows and events change in no other way than RowMoves says. *)
LEMMA RowEffect == [Next]_vars => RowMoves
<1> SUFFICES ASSUME [Next]_vars PROVE RowMoves
  OBVIOUS
<1>1. CASE UNCHANGED vars
  BY <1>1 DEF vars, RowMoves
<1>2. ASSUME NEW j \in Jobs, JobStep(j) PROVE RowMoves
  BY <1>2 DEF RowMoves, JobStep, Closers, ContainerExits, ContainerRemoved, StartContainer, MonitorVisits,
              ProducerBegins, ProducerResumes, ProducerBreaks, ProducerDies, ProducerFinishes, ProducerCommit,
              PageReconciles, StopRequest
<1>3. ASSUME NEW c \in Closers, LookForDone(c) \/ ThreadStep(c) PROVE RowMoves
  BY <1>3 DEF RowMoves, ThreadStep, LookForDone, ReconcileRead, ReconcileLeaves, ReconcileRaises, ReconcileSeesEnd,
              ReconcileCommit
<1>4. ASSUME NEW v \in Viewers, StreamStep(v) PROVE RowMoves
  BY <1>4 DEF RowMoves, StreamStep, Closers, StreamOpens, StreamWaits, StreamPersists, StreamDelivers,
              DirectFinishes, StreamCommit, StreamDrops
<1>5. ASSUME NEW s \in Stops, StopStep(s) PROVE RowMoves
  BY <1>5 DEF RowMoves, StopStep, Closers, StopCommit, StopContainer
<1>6. CASE MonitorLists \/ MonitorResumes \/ Restart
  BY <1>6 DEF RowMoves, MonitorLists, MonitorResumes
<1> QED
  BY <1>1, <1>2, <1>3, <1>4, <1>5, <1>6 DEF Next

(* The stream of a job is opened on a row that is there. *)
OpenHasRow ==
    \A v \in Viewers : stream[v].pc # "closed" => row[stream[v].job].status # "absent"
-----------------------------------------------------------------------------
(* One closer's state is written and it comes to rest. *)
LEMMA MovesToRest ==
    ASSUME TypeInv, NEW c \in Closers, NEW d, NEW r,
           closing' = [closing EXCEPT ![d] = r], r.pc \notin Busy
    PROVE  CloserMoves(c)
BY DEF CloserMoves, Rests, TypeInv, TypeOK

(* The states in which a closer has nothing to write. *)
LEMMA RestingStates ==
    /\ Idle.pc \notin Busy
    /\ \A pc, j : At(pc, j).pc = pc /\ At(pc, j).job = j
BY DEF Idle, At, Busy

(* A thread that is only dispatched has read nothing yet. *)
LEMMA DispatchMoves ==
    ASSUME TypeInv, NEW c \in Closers, NEW d, NEW j, Dispatch(d, j)
    PROVE  CloserMoves(c)
<1>1. At("read", j).pc \notin Busy
  BY RestingStates DEF Busy
<1> QED
  BY <1>1, MovesToRest DEF Dispatch

(* A closer that takes the loop. *)
LEMMA HoldMoves ==
    ASSUME TypeInv, NEW c \in Closers, NEW d \in Closers, NEW j \in Jobs, NEW x,
           HoldLoop(d, j, x), row[j].status # "absent",
           row[j].status = "running" => x = STOPPED_EXIT_CODE \/ (Ended(j) /\ x \in StreamCodes(j)),
           UNCHANGED <<row, done, box, code>>
    PROVE  CloserMoves(c)
<1> DEFINE r == [At("query", j) EXCEPT !.seen = Reread(j), !.code = x]
<1>1. r.pc = "query" /\ r.job = j /\ r.seen = row[j] /\ r.code = x
  BY DEF Reread, At, Idle
<1>2. closing' = [closing EXCEPT ![d] = r]
  BY DEF HoldLoop
<1> HIDE DEF r
<1>3. CASE c = d
  <2>1. closing'[c] = r
    BY <1>2, <1>3 DEF TypeInv, TypeOK
  <2> QED
    BY <1>1, <1>3, <2>1 DEF CloserMoves, Holds, HoldLoop, LoopFree
<1>4. CASE c # d
  BY <1>2, <1>4 DEF CloserMoves, TypeInv, TypeOK
<1> QED
  BY <1>3, <1>4

(* Whatever happens, one closer moves in one of these ways or not at all. *)
LEMMA CloserEffect ==
    ASSUME TypeInv, OpenHasRow, [Next]_vars, NEW c \in Closers
    PROVE  CloserMoves(c)
<1> USE DEF hubVars
<1>1. CASE UNCHANGED closing
  BY <1>1 DEF CloserMoves
<1>2. CASE \E d \in Closers : ReconcileCommit(d) \/ ReconcileLeaves(d) \/ ReconcileRaises(d)
  <2> PICK d \in Closers : ReconcileCommit(d) \/ ReconcileLeaves(d) \/ ReconcileRaises(d)
    BY <1>2
  <2> DEFINE r(a) == IF d \in Pages THEN Idle ELSE At(a, closing[d].job)
  <2>1. \E a \in Returned : closing' = [closing EXCEPT ![d] = r(a)]
    BY DEF ReconcileCommit, ReconcileLeaves, ReconcileRaises, Return, Returned
  <2>2. \A a \in Returned : r(a).pc \notin Busy
    BY RestingStates DEF Returned, Busy
  <2> HIDE DEF r
  <2> QED
    BY <2>1, <2>2, MovesToRest
<1>3. CASE \E d \in Closers : ReconcileRead(d)
  <2> PICK d \in Closers : ReconcileRead(d)
    BY <1>3
  <2>1. CASE ~Running(row[closing[d].job])
    <3> DEFINE r == IF d \in Pages THEN Idle ELSE At("left", closing[d].job)
    <3>1. closing' = [closing EXCEPT ![d] = r]
      BY <2>1 DEF ReconcileRead, Return
    <3>2. r.pc \notin Busy
      BY RestingStates DEF Busy
    <3> HIDE DEF r
    <3> QED
      BY <3>1, <3>2, MovesToRest
  <2>2. CASE Running(row[closing[d].job])
    <3>1. closing[d] \in Closing /\ closing[d].job \in Jobs
      BY DEF ReconcileRead, TypeInv, TypeOK, HasJob, BusyHasJob
    <3> DEFINE r == [closing[d] EXCEPT !.pc = "inspect", !.seen = row[closing[d].job]]
    <3>2. closing' = [closing EXCEPT ![d] = r]
      BY <2>2 DEF ReconcileRead
    <3>3. r.pc = "inspect" /\ r.job = closing[d].job /\ r.seen = row[r.job]
      BY <3>1 DEF Closing
    <3> HIDE DEF r
    <3>4. CASE c = d
      <4>1. closing'[c] = r
        BY <3>2, <3>4 DEF TypeInv, TypeOK
      <4> QED
        BY <2>2, <3>1, <3>3, <3>4, <4>1 DEF CloserMoves, Reads, ReconcileRead, Busy
    <3>5. CASE c # d
      BY <3>2, <3>5 DEF CloserMoves, TypeInv, TypeOK
    <3> QED
      BY <3>4, <3>5
  <2> QED
    BY <2>1, <2>2
<1>4. CASE \E d \in Closers : ReconcileSeesEnd(d) \/ LookForDone(d)
  <2> PICK d \in Closers : ReconcileSeesEnd(d) \/ LookForDone(d)
    BY <1>4
  <2>1. CASE c = d
    BY <2>1 DEF CloserMoves
  <2>2. CASE c # d
    BY <2>2 DEF CloserMoves, TypeInv, TypeOK, ReconcileSeesEnd, LookForDone
  <2> QED
    BY <2>1, <2>2
<1>5. CASE \E p \in Pages, j \in Jobs : PageReconciles(p, j)
  <2> PICK p \in Pages, j \in Jobs : PageReconciles(p, j)
    BY <1>5
  <2> DEFINE r == [At("inspect", j) EXCEPT !.seen = row[j]]
  <2>1. r.pc = "inspect" /\ r.job = j /\ r.seen = row[j]
    BY DEF At, Idle
  <2>2. closing' = [closing EXCEPT ![p] = r]
    BY DEF PageReconciles
  <2> HIDE DEF r
  <2>3. CASE c = p
    <3>1. closing'[c] = r
      BY <2>2, <2>3 DEF TypeInv, TypeOK
    <3> QED
      BY <2>1, <2>3, <3>1 DEF CloserMoves, Reads, PageReconciles, Busy
  <2>4. CASE c # p
    BY <2>2, <2>4 DEF CloserMoves, TypeInv, TypeOK
  <2> QED
    BY <2>3, <2>4
<1>6. CASE \E j \in Jobs : MonitorVisits(j) \/ ProducerBreaks(j)
  BY <1>6, DispatchMoves DEF MonitorVisits, ProducerBreaks
<1>7. CASE \E j \in Jobs : ProducerBegins(j)
  BY <1>7, <1>1, DispatchMoves DEF ProducerBegins
<1>8. CASE \E j \in Jobs : ProducerResumes(j) \/ ProducerCommit(j)
  BY <1>8, MovesToRest, RestingStates DEF ProducerResumes, ProducerCommit
<1>9. CASE MonitorResumes
  BY <1>9, MovesToRest, RestingStates DEF MonitorResumes
<1>10. CASE \E s \in Stops : StopCommit(s) \/ StopContainer(s)
  BY <1>10, MovesToRest, RestingStates DEF StopCommit, StopContainer, Busy
<1>11. CASE \E v \in Viewers : StreamCommit(v)
  BY <1>11, MovesToRest, RestingStates DEF StreamCommit
<1>12. CASE \E j \in Jobs : ProducerFinishes(j)
  BY <1>12, HoldMoves DEF ProducerFinishes, Closers
<1>13. CASE \E s \in Stops, j \in Jobs : StopRequest(s, j)
  BY <1>13, HoldMoves DEF StopRequest, Closers, Running
<1>14. CASE \E v \in Viewers, j \in Jobs : StreamPersists(v, j)
  BY <1>14, HoldMoves DEF StreamPersists, Closers, Terminal, Verdicts
<1>15. CASE \E v \in Viewers : DirectFinishes(v)
  BY <1>15, HoldMoves DEF DirectFinishes, Closers, OpenHasRow, TypeInv, HasJob, OpenHasJob
<1>16. CASE Restart
  BY <1>16, RestingStates DEF Restart, CloserMoves, Rests
<1> QED
  BY <1>1, <1>2, <1>3, <1>4, <1>5, <1>6, <1>7, <1>8, <1>9, <1>10, <1>11, <1>12, <1>13,
     <1>14, <1>15, <1>16
  DEF Next, vars, JobStep, StreamStep, StopStep, ThreadStep, ContainerExits,
      ContainerRemoved, Submit, StartContainer, StartRecorded, StartRefused, ProducerDies,
      StreamOpens, StreamWaits, StreamDelivers, StreamDrops, MonitorLists
-----------------------------------------------------------------------------
(***************************************************************************)
(* The inductive invariant behind VerdictIsDurable: what a busy closer     *)
(* holds is either the running row or a row that is closed by now, and a   *)
(* closer that found a `done` event is right about it.                     *)
(***************************************************************************)
IsClosed(j) == row[j].status \in Terminal

ClosersKnow ==
    \A c \in Closers : LET k == closing[c] IN
        /\ k.pc = "inspect" => k.seen.status = "running"
        /\ k.pc \in Busy => k.seen.status = "running" \/ IsClosed(k.job)
        /\ k.pc = "commit" /\ k.found => done[k.job] # << >>

DurableInv == TypeInv /\ OpenHasRow /\ ClosersKnow /\ VerdictIsDurable

(* Rows and events only ever grow: a row stays inserted, a terminal status *)
(* stays terminal, events stay.                                            *)
Grows ==
    \A j \in Jobs :
        /\ row[j].status # "absent" => row'[j].status # "absent"
        /\ IsClosed(j) => IsClosed(j)'
        /\ done[j] # << >> => done'[j] # << >>

(* A persist leaves its job closed with an event, and touches no other. *)
LEMMA PersistEffect ==
    ASSUME DurableInv, NEW c \in Closers, Persist(c)
    PROVE  /\ closing[c].job \in Jobs
           /\ row'[closing[c].job].status \in Terminal
           /\ done'[closing[c].job] # << >>
           /\ \A i \in Jobs : i # closing[c].job => row'[i] = row[i] /\ done'[i] = done[i]
<1> DEFINE j == closing[c].job
<1>1. j \in Jobs /\ closing[c].pc = "commit" /\ closing[c] \in Closing
  BY DEF DurableInv, TypeInv, TypeOK, HasJob, BusyHasJob, Persist
<1>2. row[j] \in Row /\ done[j] \in Seq(Done)
  BY <1>1 DEF DurableInv, TypeInv, TypeOK
<1>3. row'[j].status \in Terminal
  <2>1. CASE Writes(c)
    <3>1. Verdict(c).status \in Verdicts
      BY <2>1, <1>1, ClosedType DEF Verdict, Closing
    <3>2. row'[j].status = Verdict(c).status
      BY <2>1, <1>1, <1>2 DEF Persist, DurableInv, TypeInv, TypeOK, Row
    <3> QED
      BY <3>1, <3>2 DEF Terminal
  <2>2. CASE ~Writes(c)
    BY <2>2, <1>1 DEF Persist, Writes, DurableInv, ClosersKnow, IsClosed, Busy
  <2> QED
    BY <2>1, <2>2
<1>4. done'[j] # << >>
  <2>1. CASE closing[c].found
    BY <2>1, <1>1 DEF Persist, WithDone, DurableInv, ClosersKnow
  <2>2. CASE ~closing[c].found
    <3>1. done'[j] = Append(done[j], DoneEvent(Verdict(c)))
      BY <2>2, <1>1 DEF Persist, WithDone, DurableInv, TypeInv, TypeOK
    <3>2. DoneEvent(Verdict(c)) \in Done
      BY <1>1, ClosedType, RowConstants DEF Verdict, Closing
    <3> QED
      BY <1>2, <3>1, <3>2, AppendProperties
  <2> QED
    BY <2>1, <2>2
<1>5. \A i \in Jobs : i # j => row'[i] = row[i] /\ done'[i] = done[i]
  <2>1. row \in [Jobs -> Row] /\ done \in [Jobs -> Seq(Done)]
    BY DEF DurableInv, TypeInv, TypeOK
  <2>2. \A i \in Jobs : i # j => row'[i] = row[i]
    BY <2>1 DEF Persist
  <2>3. \A i \in Jobs : i # j => done'[i] = done[i]
    BY <2>1 DEF Persist, WithDone
  <2> QED
    BY <2>2, <2>3
<1> QED
  BY <1>1, <1>3, <1>4, <1>5

(* The migration of old stops at start-up opens no job and drops no event. *)
LEMMA RestartEffect ==
    ASSUME TypeInv, Restart, NEW j \in Jobs
    PROVE  /\ row'[j].status = row[j].status \/ (LegacyStop(row[j]) /\ row'[j].status = "stopped")
           /\ done'[j] = << >> <=> done[j] = << >>
<1>1. row[j] \in Row /\ done[j] \in Seq(Done)
  BY DEF TypeInv, TypeOK
<1>2. row'[j].status = row[j].status \/ (LegacyStop(row[j]) /\ row'[j].status = "stopped")
  BY <1>1 DEF Restart, mark_legacy_stopped_jobs, AsStopped, Row
<1>3. done'[j] = [i \in 1..Len(done[j]) |->
                    IF LegacyStop(row[j]) /\ done[j][i].status = "failed"
                    THEN AsStopped(done[j][i]) ELSE done[j][i]]
  BY DEF Restart, mark_legacy_stopped_jobs
<1>4. DOMAIN done'[j] = 1..Len(done[j]) /\ Len(done[j]) \in Nat
  BY <1>1, <1>3
<1>5. done[j] = << >> <=> Len(done[j]) = 0
  BY <1>1
<1>6. done'[j] = << >> <=> Len(done[j]) = 0
  BY <1>3, <1>4
<1> QED
  BY <1>2, <1>5, <1>6

(* No step reopens a job, drops its events or leaves a verdict without one. *)
LEMMA StepGrows == DurableInv /\ [Next]_vars => Grows /\ VerdictIsDurable'
<1> SUFFICES ASSUME DurableInv, [Next]_vars
             PROVE  Grows /\ VerdictIsDurable'
  OBVIOUS
<1>0. RowMoves
  BY RowEffect
<1> USE DEF Grows, VerdictIsDurable, IsClosed
<1>1. CASE UNCHANGED <<row, done>>
  BY <1>1 DEF DurableInv
<1>2. CASE \E c \in Closers : Persist(c)
  <2> PICK c \in Closers : Persist(c)
    BY <1>2
  <2>1. closing[c].job \in Jobs
    BY PersistEffect
  <2>2. /\ row'[closing[c].job].status \in Terminal
        /\ done'[closing[c].job] # << >>
        /\ \A i \in Jobs : i # closing[c].job => row'[i] = row[i] /\ done'[i] = done[i]
    BY PersistEffect
  <2>3. \A s \in Terminal : s # "absent"
    BY DEF Terminal, Verdicts
  <2> QED
    BY <2>1, <2>2, <2>3 DEF DurableInv
<1>3. CASE \E j \in Jobs : Submit(j)
  <2> PICK j \in Jobs : Submit(j)
    BY <1>3
  <2>1. /\ row[j].status = "absent" /\ row'[j].status = "running"
        /\ \A i \in Jobs : i # j => row'[i] = row[i]
    BY DEF Submit, NewRow, DurableInv, TypeInv, TypeOK
  <2>2. done' = done /\ done[j] = << >>
    BY <2>1 DEF Submit, DurableInv, Terminal, Verdicts
  <2> QED
    BY <2>1, <2>2 DEF DurableInv, Terminal, Verdicts
<1>4. CASE \E j \in Jobs : StartRecorded(j) \/ StartRefused(j)
  <2> PICK j \in Jobs : StartRecorded(j) \/ StartRefused(j)
    BY <1>4
  <2>1. row[j] \in Row /\ done' = done
    BY DEF StartRecorded, StartRefused, DurableInv, TypeInv, TypeOK
  <2>2. row'[j].status \in {row[j].status, "error"}
    BY <2>1 DEF StartRecorded, StartRefused, DurableInv, TypeInv, TypeOK, Row
  <2>3. \A i \in Jobs : i # j => row'[i] = row[i]
    BY DEF StartRecorded, StartRefused, DurableInv, TypeInv, TypeOK
  <2> QED
    BY <2>1, <2>2, <2>3 DEF DurableInv, Terminal, Verdicts
<1>5. CASE Restart
  <2>1. \A j \in Jobs : /\ \/ row'[j].status = row[j].status
                           \/ row[j].status = "failed" /\ row'[j].status = "stopped"
                        /\ done'[j] = << >> <=> done[j] = << >>
    BY <1>5, RestartEffect DEF LegacyStop, DurableInv
  <2> QED
    BY <2>1 DEF DurableInv, Terminal, Verdicts
<1> QED
  BY <1>0, <1>1, <1>2, <1>3, <1>4, <1>5 DEF RowMoves

(* No step makes what a busy closer holds wrong. *)
LEMMA StepKnow == DurableInv /\ [Next]_vars => ClosersKnow'
<1> SUFFICES ASSUME DurableInv, [Next]_vars, NEW c \in Closers
             PROVE  LET k == closing'[c] IN
                      /\ k.pc = "inspect" => k.seen.status = "running"
                      /\ k.pc \in Busy => k.seen.status = "running"
                                            \/ row'[k.job].status \in Terminal
                      /\ k.pc = "commit" /\ k.found => done'[k.job] # << >>
  BY DEF ClosersKnow, IsClosed
<1>0. CloserMoves(c) /\ Grows
  BY CloserEffect, StepGrows DEF DurableInv
<1>1. closing[c] \in Closing /\ (closing[c].pc # "idle" => closing[c].job \in Jobs)
  BY DEF DurableInv, TypeInv, TypeOK, HasJob, BusyHasJob
<1>2. CASE closing'[c] = closing[c]
  BY <1>0, <1>1, <1>2 DEF DurableInv, ClosersKnow, Grows, IsClosed, Busy
<1>3. CASE Rests(c)
  BY <1>3 DEF Rests, Busy
<1>4. CASE Reads(c)
  BY <1>4 DEF Reads, Running
<1>5. CASE Holds(c)
  <2>1. row[closing'[c].job] \in Row
    BY <1>5 DEF Holds, DurableInv, TypeInv, TypeOK
  <2> QED
    BY <1>5, <2>1 DEF Holds, Row, Statuses
<1>6. CASE ReconcileSeesEnd(c)
  <2>1. closing'[c] = [closing[c] EXCEPT !.pc = "query", !.code = InspectedCode(closing[c].job)]
    BY <1>6 DEF ReconcileSeesEnd, DurableInv, TypeInv, TypeOK
  <2>2. closing'[c].pc = "query" /\ closing'[c].seen = closing[c].seen
    BY <1>1, <2>1 DEF Closing
  <2>3. closing[c].pc = "inspect"
    BY <1>6 DEF ReconcileSeesEnd
  <2> QED
    BY <2>2, <2>3 DEF DurableInv, ClosersKnow
<1>7. CASE LookForDone(c)
  <2>1. closing'[c] = [closing[c] EXCEPT !.pc = "commit", !.found = HasDone(closing[c].job)]
    BY <1>7 DEF LookForDone, DurableInv, TypeInv, TypeOK
  <2>2. /\ closing'[c].pc = "commit" /\ closing'[c].seen = closing[c].seen
        /\ closing'[c].job = closing[c].job /\ closing'[c].found = HasDone(closing[c].job)
    BY <1>1, <2>1 DEF Closing
  <2>3. closing[c].pc = "query" /\ row' = row /\ done' = done
    BY <1>7 DEF LookForDone
  <2> QED
    BY <2>2, <2>3 DEF DurableInv, ClosersKnow, HasDone, IsClosed, Busy
<1> QED
  BY <1>0, <1>2, <1>3, <1>4, <1>5, <1>6, <1>7 DEF CloserMoves

(* A stream stays on the row it was opened on. *)
LEMMA StepOpen == DurableInv /\ [Next]_vars => OpenHasRow'
<1> SUFFICES ASSUME DurableInv, [Next]_vars, NEW v \in Viewers, stream'[v].pc # "closed"
             PROVE  row'[stream'[v].job].status # "absent"
  BY DEF OpenHasRow
<1>0. Grows /\ OpenHasRow /\ stream[v] \in [pc : StreamPc, job : Jobs \cup {None}]
      /\ (stream[v].pc # "closed" => stream[v].job \in Jobs)
  BY StepGrows DEF DurableInv, TypeInv, TypeOK, HasJob, OpenHasJob
<1>1. CASE stream'[v].job = stream[v].job /\ stream[v].pc # "closed"
  BY <1>0, <1>1 DEF Grows, OpenHasRow
<1>2. CASE \E w \in Viewers, j \in Jobs : StreamOpens(w, j)
  BY <1>0, <1>2 DEF StreamOpens, OpenHasRow, Grows, DurableInv, TypeInv, TypeOK
<1>3. CASE \E w \in Viewers : StreamDrops(w) \/ StreamCommit(w)
                               \/ \E j \in Jobs : StreamDelivers(w, j)
  <2>1. PICK w \in Viewers : stream' = stream \/ stream' = [stream EXCEPT ![w] = NoStream]
    BY <1>3 DEF StreamDrops, StreamCommit, StreamDelivers, StreamEnds
  <2>2. stream'[v] = stream[v] \/ stream'[v] = NoStream
    BY <2>1 DEF DurableInv, TypeInv, TypeOK
  <2>3. NoStream.pc = "closed"
    BY DEF NoStream
  <2> QED
    BY <1>1, <2>2, <2>3
<1>4. CASE \E w \in Viewers, j \in Jobs : StreamWaits(w, j)
  BY <1>0, <1>1, <1>4 DEF StreamWaits, Polling, DurableInv, TypeInv, TypeOK
<1>5. CASE Restart
  BY <1>5 DEF Restart, NoStream
<1>6. CASE UNCHANGED stream
  BY <1>1, <1>6
<1> QED
  BY <1>2, <1>3, <1>4, <1>5, <1>6
  DEF Next, vars, hubVars, JobStep, StreamStep, StopStep, ThreadStep, LookForDone,
      ContainerExits, ContainerRemoved, Submit, StartContainer, StartRecorded, StartRefused,
      MonitorVisits, ProducerBegins, ProducerResumes, ProducerBreaks, ProducerDies,
      ProducerFinishes, ProducerCommit, PageReconciles, StopRequest, ReconcileRead,
      ReconcileLeaves, ReconcileRaises, ReconcileSeesEnd, ReconcileCommit, StreamPersists, DirectFinishes,
      StopCommit, StopContainer, MonitorLists, MonitorResumes

(* The invariant holds at the start and every step keeps it. *)
LEMMA DurableInductive == Spec => []DurableInv
<1>1. Init => DurableInv
  BY InitType DEF Init, DurableInv, OpenHasRow, ClosersKnow, VerdictIsDurable, NoStream,
                  Idle, Busy, NoRow, Verdicts, Terminal
<1>2. DurableInv /\ [Next]_vars => DurableInv'
  BY StepType, StepOpen, StepKnow, StepGrows DEF DurableInv
<1> QED
  BY <1>1, <1>2, PTL DEF Spec

(* A verdict and its `done` event are there together or not at all, in     *)
(* every interleaving of threads, loop handlers, crashes and restarts: the *)
(* stream of a closed job always finds its end and never sees one early.   *)
THEOREM VerdictDurable == Spec => []VerdictIsDurable
BY DurableInductive, PTL DEF DurableInv
=============================================================================
