---------------------------- MODULE JobCompletion ----------------------------
(***************************************************************************)
(* How a converter job gets its verdict: app/job_runtime.py and the start, *)
(* stop, stream and page handlers of app/jobs.py.                          *)
(*                                                                         *)
(* One uvicorn process runs an event loop.  Code on the loop is atomic     *)
(* with respect to other loop code between two awaits; code in a worker    *)
(* thread (asyncio.to_thread, run_in_threadpool) is not.  Every SQLite     *)
(* query and every commit is one atomic step.  The container is a process  *)
(* of its own that Docker reports on.                                      *)
(*                                                                         *)
(* Closers are the tasks that can write a verdict.  A closer runs          *)
(* persist_job_finished in three database steps - it read the row earlier, *)
(* it looks for a `done` event, it commits - either in a thread            *)
(* (reconcile_job_state) or on the loop, which it then holds (`loop`).     *)
(***************************************************************************)
EXTENDS JobRows

CONSTANTS Monitor,          \* the task _monitor_running_jobs
          Pages,            \* page requests that reconcile before rendering
          Stops,            \* POST /jobs/{id}/stop requests
          Viewers,          \* GET /jobs/{id}/stream requests
          RuntimeEnabled,   \* cfg.JOB_RUNTIME_ENABLED
          MaxRestarts       \* bound: how often the hub process dies and comes back

Closers == Jobs \cup Pages \cup Stops \cup Viewers \cup {Monitor}

ASSUME JobCompletionAssumption ==
    /\ RuntimeEnabled \in BOOLEAN
    /\ MaxRestarts \in Nat
    /\ None \notin Closers
    /\ Monitor \notin Jobs \cup Pages \cup Stops \cup Viewers
    /\ Jobs \cap (Pages \cup Stops \cup Viewers) = {}
    /\ Pages \cap (Stops \cup Viewers) = {} /\ Stops \cap Viewers = {}

VARIABLES
    row,       \* job_runs, by job
    done,      \* the `done` rows of job_events, by job, in id order
    raced,     \* history: a verdict was committed while another was under way
    box,       \* the job's container, as Docker sees it
    code,      \* its exit code once it has exited
    closing,   \* what each closer is in the middle of
    loop,      \* the closer that holds the event loop inside a persist, or None
    prod,      \* _producer_tasks and where each producer is
    mon, todo, \* the monitor: its place, and the ids it has yet to visit
    start,     \* POST /jobs/start, by job
    stream,    \* GET /jobs/{id}/stream, by viewer
    restarts

hubVars == <<closing, loop, prod, mon, todo, start, stream>>
vars == <<row, done, raced, box, code, hubVars, restarts>>

-----------------------------------------------------------------------------
(***************************************************************************)
(* A closer's local state.  seen is the row as its session's identity map  *)
(* holds it: read once and not again before the commit.                    *)
(***************************************************************************)
ClosingPc == {"idle", "read", "inspect", "query", "commit", "closed", "left", "raised",
              "docker"}
Closing == [pc : ClosingPc, job : Jobs \cup {None}, seen : Row,
            code : Codes, found : BOOLEAN]

Idle == [pc |-> "idle", job |-> None, seen |-> NoRow,
         code |-> UnknownCode, found |-> FALSE]
At(pc, j) == [Idle EXCEPT !.pc = pc, !.job = j]
Returned == {"closed", "left", "raised"}   \* True, False, or an exception

LoopFree == loop = None
RunningWithoutId(r) == r.status = "running"     \* mutant: container_id unchecked
Running(r) == r.status = "running" /\ r.cid     \* a running row with a container
Ended(j) == box[j] \in {"exited", "gone"}

Closers_OnIt(j) ==     \* closers that saw j running and may still write a verdict
    {c \in Closers : /\ closing[c].pc \in {"inspect", "query", "commit"}
                     /\ closing[c].job = j
                     /\ closing[c].seen.status = "running"}

StreamPc == {"closed", "polling", "direct", "deaf"}
NoStream == [pc |-> "closed", job |-> None]

TypeOK ==
    /\ row \in [Jobs -> Row]
    /\ done \in [Jobs -> Seq(Done)]
    /\ raced \in [Jobs -> BOOLEAN]
    /\ box \in [Jobs -> {"none", "running", "exited", "gone"}]
    /\ code \in [Jobs -> ContainerCodes \cup {UnknownCode}]
    /\ closing \in [Closers -> Closing]
    /\ loop \in Closers \cup {None}
    /\ prod \in [Jobs -> {"off", "starting", "reconciling", "streaming", "ending"}]
    /\ mon \in {"visiting", "waiting"}
    /\ todo \in SUBSET Jobs
    /\ start \in [Jobs -> {"idle", "launching", "launched", "refused", "over"}]
    /\ stream \in [Viewers -> [pc : StreamPc, job : Jobs \cup {None}]]
    /\ restarts \in 0..MaxRestarts

Init ==
    /\ row = [j \in Jobs |-> NoRow]
    /\ done = [j \in Jobs |-> << >>]
    /\ raced = [j \in Jobs |-> FALSE]
    /\ box = [j \in Jobs |-> "none"]
    /\ code = [j \in Jobs |-> UnknownCode]
    /\ closing = [c \in Closers |-> Idle]
    /\ loop = None
    /\ prod = [j \in Jobs |-> "off"]
    /\ mon = "visiting" /\ todo = {}
    /\ start = [j \in Jobs |-> "idle"]
    /\ stream = [v \in Viewers |-> NoStream]
    /\ restarts = 0

-----------------------------------------------------------------------------
(***************************************************************************)
(* The container (Docker, outside src/).                                   *)
(***************************************************************************)
Exit(j, c) == box' = [box EXCEPT ![j] = "exited"] /\ code' = [code EXCEPT ![j] = c]

ContainerExits(j) ==
    /\ box[j] = "running"
    /\ \E c \in ContainerCodes : Exit(j, c)
    /\ UNCHANGED <<row, done, raced, hubVars, restarts>>

(* docker run --rm, or an administrator's docker rm. *)
ContainerRemoved(j) ==
    /\ box[j] = "exited"
    /\ box' = [box EXCEPT ![j] = "gone"]
    /\ UNCHANGED <<row, done, raced, code, hubVars, restarts>>

-----------------------------------------------------------------------------
(***************************************************************************)
(* persist_job_finished.  The row to write is the one the caller's session *)
(* holds; it is written only if that copy still says "running".  The       *)
(* UPDATE and the INSERT of the `done` event are one transaction.          *)
(***************************************************************************)
WritesAlways(c) == TRUE                  \* mutant: the status is not looked at
Writes(c) == closing[c].seen.status = "running"

Verdict(c) ==
    IF Writes(c) THEN Closed(closing[c].seen, closing[c].code) ELSE closing[c].seen

HasDoneUnseen(j) == FALSE                \* mutant: an existing event is not found

HasDone(j) == done[j] # << >>

LookForDone(c) ==
    /\ closing[c].pc = "query"
    /\ closing' = [closing EXCEPT ![c].pc = "commit", ![c].found = HasDone(closing[c].job)]
    /\ UNCHANGED <<row, done, raced, box, code, loop, prod, mon, todo, start,
                   stream, restarts>>

(* Mutant: a stop leaves the event to the producer. *)
WithDoneUnlessStopped(c) ==
    IF closing[c].found \/ closing[c].code = STOPPED_EXIT_CODE THEN done
    ELSE [done EXCEPT ![closing[c].job] = Append(@, DoneEvent(Verdict(c)))]

WithDone(c) ==
    IF closing[c].found THEN done
    ELSE [done EXCEPT ![closing[c].job] = Append(@, DoneEvent(Verdict(c)))]

Persist(c) ==
    LET j == closing[c].job
    IN /\ closing[c].pc = "commit"
       /\ row' = IF Writes(c)
                 THEN [row EXCEPT ![j].status = Verdict(c).status,
                                  ![j].exit = Verdict(c).exit]
                 ELSE row
       /\ done' = WithDone(c)
       /\ raced' = [raced EXCEPT ![j] = @ \/ (Writes(c) /\ Closers_OnIt(j) # {c})]

(* A closer on the loop reads the row afresh (expire_all, then the query)  *)
(* and holds the loop until the commit.                                    *)
RereadStale(j) == [row[j] EXCEPT !.status = "running"]     \* mutant: the old copy

Reread(j) == row[j]

HoldLoop(c, j, exitCode) ==
    /\ LoopFree
    /\ loop' = c
    /\ closing' = [closing EXCEPT ![c] =
                     [At("query", j) EXCEPT !.seen = Reread(j), !.code = exitCode]]

-----------------------------------------------------------------------------
(***************************************************************************)
(* reconcile_job_state in a worker thread, on behalf of the monitor, of a  *)
(* producer or of a page request.                                          *)
(***************************************************************************)
InThread(c) == closing[c].pc # "idle" /\ loop # c

(* The thread of a page ends with the visit; the others have a task on the *)
(* loop waiting for the answer.                                            *)
Return(c, answer) ==
    closing' = [closing EXCEPT ![c] = IF c \in Pages THEN Idle
                                      ELSE At(answer, closing[c].job)]

ReconcileRead(c) ==
    /\ closing[c].pc = "read"
    /\ LET j == closing[c].job
       IN IF Running(row[j])
          THEN closing' = [closing EXCEPT ![c].pc = "inspect", ![c].seen = row[j]]
          ELSE Return(c, "left")
    /\ UNCHANGED <<row, done, raced, box, code, loop, prod, mon, todo, start,
                   stream, restarts>>

(* get_container_state answers that the container is running, or that      *)
(* Docker would not say ("unknown", at any time).                          *)
ReconcileLeaves(c) ==
    /\ closing[c].pc = "inspect"
    /\ Return(c, "left")
    /\ UNCHANGED <<row, done, raced, box, code, loop, prod, mon, todo, start,
                   stream, restarts>>

(* docker.from_env() asks the daemon for its version before the try, so a  *)
(* daemon that is down makes the whole reconcile raise.                    *)
ReconcileRaises(c) ==
    /\ closing[c].pc = "inspect"
    /\ Return(c, "raised")
    /\ UNCHANGED <<row, done, raced, box, code, loop, prod, mon, todo, start,
                   stream, restarts>>

(* ... or that it has exited with a code, or does not exist any more, in   *)
(* which case there is no code to read and -1 is recorded.                 *)
SeesEndUnasked(j) == TRUE                  \* mutant: "unknown" counts as over
SeesEndUnlessGone(j) == box[j] = "exited"  \* mutant: "not_found" counts as unknown
SeesEnd(j) == Ended(j)
InspectedCodeRaw(j) == IF box[j] = "exited" THEN code[j] ELSE None    \* mutant: no -1
InspectedCode(j) == IF box[j] = "exited" THEN code[j] ELSE UnknownCode

ReconcileSeesEnd(c) ==
    /\ closing[c].pc = "inspect"
    /\ SeesEnd(closing[c].job)
    /\ closing' = [closing EXCEPT ![c].pc = "query",
                                  ![c].code = InspectedCode(closing[c].job)]
    /\ UNCHANGED <<row, done, raced, box, code, loop, prod, mon, todo, start,
                   stream, restarts>>

ReconcileCommit(c) ==
    /\ InThread(c)
    /\ Persist(c)
    /\ Return(c, "closed")
    /\ UNCHANGED <<box, code, loop, prod, mon, todo, start, stream, restarts>>

ThreadStep(c) == ReconcileRead(c) \/ ReconcileLeaves(c) \/ ReconcileRaises(c)
                 \/ ReconcileSeesEnd(c) \/ ReconcileCommit(c)

Dispatch(c, j) == closing' = [closing EXCEPT ![c] = At("read", j)]

(* _reconcile_running_jobs before the dashboard, run page or history is    *)
(* rendered: the jobs it lists as running, one after the other, each read  *)
(* again when its turn comes.                                              *)
PageReconciles(p, j) ==
    /\ closing[p].pc = "idle"
    /\ Running(row[j])
    /\ closing' = [closing EXCEPT ![p] = [At("inspect", j) EXCEPT !.seen = row[j]]]
    /\ UNCHANGED <<row, done, raced, box, code, loop, prod, mon, todo, start,
                   stream, restarts>>

-----------------------------------------------------------------------------
(***************************************************************************)
(* The producer of one job, and the monitor.                               *)
(***************************************************************************)
ensure_job_producer(j) ==
    prod' = IF RuntimeEnabled /\ prod[j] = "off"
            THEN [prod EXCEPT ![j] = "starting"] ELSE prod

MonitorLists ==
    /\ LoopFree /\ RuntimeEnabled
    /\ mon = "visiting" /\ todo = {}
    /\ todo' = {j \in Jobs : row[j].status = "running"}
    /\ UNCHANGED <<row, done, raced, box, code, closing, loop, prod, mon, start,
                   stream, restarts>>

MonitorVisits(j) ==
    /\ LoopFree
    /\ mon = "visiting" /\ j \in todo
    /\ mon' = "waiting" /\ todo' = todo \ {j}
    /\ Dispatch(Monitor, j)
    /\ UNCHANGED <<row, done, raced, box, code, loop, prod, start, stream, restarts>>

(* Mutant: the monitor only reconciles. *)
MonitorResumesOnly ==
    /\ LoopFree
    /\ mon = "waiting" /\ closing[Monitor].pc \in Returned
    /\ mon' = "visiting"
    /\ closing' = [closing EXCEPT ![Monitor] = Idle]
    /\ UNCHANGED <<row, done, raced, box, code, loop, prod, todo, start, stream, restarts>>

(* A producer is ensured only after a reconcile that answered False: one   *)
(* that raised is logged and the next job visited.                         *)
MonitorResumes ==
    /\ LoopFree
    /\ mon = "waiting" /\ closing[Monitor].pc \in Returned
    /\ mon' = "visiting"
    /\ IF closing[Monitor].pc = "left"
       THEN ensure_job_producer(closing[Monitor].job) ELSE prod' = prod
    /\ closing' = [closing EXCEPT ![Monitor] = Idle]
    /\ UNCHANGED <<row, done, raced, box, code, loop, todo, start, stream, restarts>>

ProducerBegins(j) ==
    /\ LoopFree
    /\ prod[j] = "starting"
    /\ IF Running(row[j])
       THEN prod' = [prod EXCEPT ![j] = "reconciling"] /\ Dispatch(j, j)
       ELSE prod' = [prod EXCEPT ![j] = "off"] /\ closing' = closing
    /\ UNCHANGED <<row, done, raced, box, code, loop, mon, todo, start, stream, restarts>>

(* Back from the first reconcile: tail the container's log if it left the  *)
(* job alone, else end.  Back from the last one: end.                      *)
ProducerResumes(j) ==
    /\ LoopFree
    /\ prod[j] \in {"reconciling", "ending"} /\ closing[j].pc \in Returned
    /\ prod' = [prod EXCEPT ![j] =
                  IF @ = "reconciling" /\ closing[j].pc = "left" THEN "streaming" ELSE "off"]
    /\ closing' = [closing EXCEPT ![j] = Idle]
    /\ UNCHANGED <<row, done, raced, box, code, loop, mon, todo, start, stream, restarts>>

(* The stream reports an error, or an event finds the job no longer        *)
(* running: leave the loop and reconcile once more.                        *)
ProducerBreaks(j) ==
    /\ LoopFree
    /\ prod[j] = "streaming"
    /\ prod' = [prod EXCEPT ![j] = "ending"]
    /\ Dispatch(j, j)
    /\ UNCHANGED <<row, done, raced, box, code, loop, mon, todo, start, stream, restarts>>

(* An exception ends the task; it is logged and nothing else.              *)
ProducerDies(j) ==
    /\ LoopFree
    /\ prod[j] = "streaming"
    /\ prod' = [prod EXCEPT ![j] = "off"]
    /\ UNCHANGED <<row, done, raced, box, code, closing, loop, mon, todo, start,
                   stream, restarts>>

(* The stream's `done`: runner.stream_logs has waited for the container to *)
(* exit.  Its code is the container's, or -1 if Docker could not tell.     *)
StreamCodes(j) == {code[j], UnknownCode}

ProducerFinishes(j) ==
    /\ prod[j] = "streaming" /\ Ended(j)
    /\ row[j].status = "running"
    /\ \E c \in StreamCodes(j) : HoldLoop(j, j, c)
    /\ UNCHANGED <<row, done, raced, box, code, prod, mon, todo, start, stream, restarts>>

ProducerCommit(j) ==
    /\ loop = j
    /\ Persist(j)
    /\ closing' = [closing EXCEPT ![j] = Idle]
    /\ loop' = None
    /\ prod' = [prod EXCEPT ![j] = "off"]
    /\ UNCHANGED <<box, code, mon, todo, start, stream, restarts>>

-----------------------------------------------------------------------------
(***************************************************************************)
(* POST /jobs/{id}/stop: the stop is recorded first, then the container is *)
(* stopped in a thread; a Docker error there is logged and nothing else.   *)
(***************************************************************************)
StopRequest(s, j) ==
    /\ closing[s].pc = "idle"
    /\ Running(row[j])
    /\ HoldLoop(s, j, STOPPED_EXIT_CODE)
    /\ UNCHANGED <<row, done, raced, box, code, prod, mon, todo, start, stream, restarts>>

StopCommit(s) ==
    /\ loop = s
    /\ Persist(s)
    /\ closing' = [closing EXCEPT ![s] = At("docker", closing[s].job)]
    /\ loop' = None
    /\ UNCHANGED <<box, code, prod, mon, todo, start, stream, restarts>>

StopContainer(s) ==
    /\ closing[s].pc = "docker"
    /\ closing' = [closing EXCEPT ![s] = Idle]
    /\ \/ UNCHANGED <<box, code>>          \* already over, or Docker refused
       \/ /\ box[closing[s].job] = "running"
          /\ \E c \in ContainerCodes : Exit(closing[s].job, c)
    /\ UNCHANGED <<row, done, raced, loop, prod, mon, todo, start, stream, restarts>>

-----------------------------------------------------------------------------
(***************************************************************************)
(* GET /jobs/{id}/stream.  Which events it sends is JobEventLog's subject; *)
(* here it matters that it restarts producers, that its direct fallback    *)
(* closes jobs, and that it gives a closed job without a `done` event one. *)
(***************************************************************************)
StreamOpens(v, j) ==
    /\ LoopFree
    /\ stream[v].pc = "closed"
    /\ row[j].status # "absent" /\ (row[j].status = "running" => row[j].cid)
    /\ stream' = [stream EXCEPT ![v] = [pc |-> "polling", job |-> j]]
    /\ IF row[j].status = "running" THEN ensure_job_producer(j) ELSE prod' = prod
    /\ UNCHANGED <<row, done, raced, box, code, closing, loop, mon, todo, start, restarts>>

Polling(v, j) == LoopFree /\ stream[v] = [pc |-> "polling", job |-> j]

(* No event to send and the job is running: sleep, or fall back to the     *)
(* container's log once the deadline has passed without durable events.    *)
(* _read_logs calls docker.from_env() outside its try: with the daemon     *)
(* down its thread dies and queues neither an error nor the end of the     *)
(* log, and the stream is deaf - it beats for ever and never looks at the  *)
(* row again.                                                              *)
StreamWaits(v, j) ==
    /\ Polling(v, j)
    /\ row[j].status = "running"
    /\ ensure_job_producer(j)
    /\ \E pc \in {"polling", "direct", "deaf"} : stream' = [stream EXCEPT ![v].pc = pc]
    /\ UNCHANGED <<row, done, raced, box, code, closing, loop, mon, todo, start, restarts>>

(* The job is closed: persist_job_finished finds its `done` event or adds  *)
(* one.  The events were queried before the row was read, so the event may *)
(* already be there.                                                       *)
StreamPersists(v, j) ==
    /\ Polling(v, j)
    /\ row[j].status \in Terminal /\ row[j].exit # None
    /\ HoldLoop(v, j, row[j].exit)
    /\ UNCHANGED <<row, done, raced, box, code, prod, mon, todo, start, stream, restarts>>

StreamEnds(v) == stream' = [stream EXCEPT ![v] = NoStream]

(* `done` is sent and the stream ends. *)
StreamDelivers(v, j) ==
    /\ Polling(v, j)
    /\ done[j] # << >>
    /\ StreamEnds(v)
    /\ UNCHANGED <<row, done, raced, box, code, closing, loop, prod, mon, todo,
                   start, restarts>>

(* Mutant: a `done` for a job already closed is ignored. *)
DirectFinishesRunning(v) ==
    /\ stream[v].pc = "direct" /\ Ended(stream[v].job)
    /\ row[stream[v].job].status = "running"
    /\ \E c \in StreamCodes(stream[v].job) : HoldLoop(v, stream[v].job, c)
    /\ UNCHANGED <<row, done, raced, box, code, prod, mon, todo, start, stream, restarts>>

DirectFinishes(v) ==
    /\ stream[v].pc = "direct" /\ Ended(stream[v].job)
    /\ \E c \in StreamCodes(stream[v].job) : HoldLoop(v, stream[v].job, c)
    /\ UNCHANGED <<row, done, raced, box, code, prod, mon, todo, start, stream, restarts>>

(* After the commit the polling stream looks again, the direct one has     *)
(* sent its `done` and ends.                                               *)
StreamCommit(v) ==
    /\ loop = v
    /\ Persist(v)
    /\ closing' = [closing EXCEPT ![v] = Idle]
    /\ loop' = None
    /\ IF stream[v].pc = "direct" THEN StreamEnds(v) ELSE stream' = stream
    /\ UNCHANGED <<box, code, prod, mon, todo, start, restarts>>

(* The direct stream reports an error, or the browser goes away; nothing   *)
(* but the browser ends a deaf stream.                                     *)
StreamDrops(v) ==
    /\ LoopFree
    /\ stream[v].pc # "closed"
    /\ StreamEnds(v)
    /\ UNCHANGED <<row, done, raced, box, code, closing, loop, prod, mon, todo,
                   start, restarts>>

-----------------------------------------------------------------------------
(***************************************************************************)
(* POST /jobs/start: the row first, then the container, in a thread, then  *)
(* its id.  Only a DockerException is turned into an "error" row.          *)
(***************************************************************************)
Submit(j) ==
    /\ LoopFree
    /\ row[j].status = "absent"
    /\ row' = [row EXCEPT ![j] = NewRow]
    /\ start' = [start EXCEPT ![j] = "launching"]
    /\ UNCHANGED <<done, raced, box, code, closing, loop, prod, mon, todo, stream, restarts>>

StartContainer(j) ==
    /\ start[j] = "launching"
    /\ \/ start' = [start EXCEPT ![j] = "launched"] /\ box' = [box EXCEPT ![j] = "running"]
       \/ start' = [start EXCEPT ![j] = "refused"] /\ box' = box     \* DockerException
       \/ /\ start' = [start EXCEPT ![j] = "over"]                   \* any other error,
          /\ \E b \in {"none", "running"} : box' = [box EXCEPT ![j] = b]  \* a timeout say
    /\ UNCHANGED <<row, done, raced, code, closing, loop, prod, mon, todo, stream, restarts>>

StartRecorded(j) ==
    /\ LoopFree
    /\ start[j] = "launched"
    /\ row' = [row EXCEPT ![j].cid = TRUE]
    /\ ensure_job_producer(j)
    /\ start' = [start EXCEPT ![j] = "over"]
    /\ UNCHANGED <<done, raced, box, code, closing, loop, mon, todo, stream, restarts>>

StartRefused(j) ==
    /\ LoopFree
    /\ start[j] = "refused"
    /\ row' = [row EXCEPT ![j].status = "error", ![j].exit = UnknownCode]
    /\ start' = [start EXCEPT ![j] = "over"]
    /\ UNCHANGED <<done, raced, box, code, closing, loop, prod, mon, todo, stream, restarts>>

-----------------------------------------------------------------------------
(***************************************************************************)
(* The hub process dies and comes back: the database and the containers    *)
(* stay.  lifespan runs mark_legacy_stopped_jobs and starts the monitor.   *)
(***************************************************************************)
LegacyStop(r) == r.status = "failed" /\ r.exit = STOPPED_EXIT_CODE
AsStopped(r)  == [r EXCEPT !.status = "stopped"]

mark_legacy_stopped_jobs ==
    /\ row' = [j \in Jobs |-> IF LegacyStop(row[j]) THEN AsStopped(row[j]) ELSE row[j]]
    /\ done' = [j \in Jobs |-> [i \in 1..Len(done[j]) |->
                  IF LegacyStop(row[j]) /\ done[j][i].status = "failed"
                  THEN AsStopped(done[j][i]) ELSE done[j][i]]]

Restart ==
    /\ restarts < MaxRestarts
    /\ restarts' = restarts + 1
    /\ mark_legacy_stopped_jobs
    /\ closing' = [c \in Closers |-> Idle]
    /\ loop' = None
    /\ prod' = [j \in Jobs |-> "off"]
    /\ mon' = "visiting" /\ todo' = {}
    /\ start' = [j \in Jobs |-> IF start[j] = "idle" THEN "idle" ELSE "over"]
    /\ stream' = [v \in Viewers |-> NoStream]
    /\ UNCHANGED <<raced, box, code>>

-----------------------------------------------------------------------------
JobStep(j) ==
    \/ ContainerExits(j) \/ ContainerRemoved(j)
    \/ Submit(j) \/ StartContainer(j) \/ StartRecorded(j) \/ StartRefused(j)
    \/ MonitorVisits(j)
    \/ ProducerBegins(j) \/ ProducerResumes(j) \/ ProducerBreaks(j) \/ ProducerDies(j)
    \/ ProducerFinishes(j) \/ ProducerCommit(j)
    \/ \E p \in Pages : PageReconciles(p, j)
    \/ \E s \in Stops : StopRequest(s, j)

StreamStep(v) ==
    \/ \E j \in Jobs : StreamOpens(v, j) \/ StreamWaits(v, j) \/ StreamPersists(v, j)
                       \/ StreamDelivers(v, j)
    \/ DirectFinishes(v) \/ StreamCommit(v) \/ StreamDrops(v)

StopStep(s) == StopCommit(s) \/ StopContainer(s)

Next ==
    \/ \E j \in Jobs : JobStep(j)
    \/ \E c \in Closers : LookForDone(c) \/ ThreadStep(c)
    \/ \E v \in Viewers : StreamStep(v)
    \/ \E s \in Stops : StopStep(s)
    \/ MonitorLists \/ MonitorResumes
    \/ Restart

Spec == Init /\ [][Next]_vars

-----------------------------------------------------------------------------
(***************************************************************************)
(* Safety.                                                                 *)
(***************************************************************************)

(* No verdict about a container that is still running, except the user's   *)
(* stop: "success" only if the container really exited with 0, and an exit *)
(* code on record is the container's own.  A reconcile that cannot reach   *)
(* Docker, or a stream that breaks off, must not close the job.            *)
VerdictIsTrue ==
    \A j \in Jobs :
        /\ row[j].status \in {"success", "failed"} => Ended(j)
        /\ row[j].status = "success" => code[j] = 0
        /\ row[j].exit \in ContainerCodes => row[j].exit = code[j]

(* A verdict and its `done` event are there together or not at all, across *)
(* a crash between any two steps: a stream of a job with a verdict always  *)
(* finds its end, and a `done` is never sent for a job still running.      *)
VerdictIsDurable ==
    \A j \in Jobs :
        /\ row[j].status \in Verdicts => done[j] # << >>
        /\ done[j] # << >> => row[j].status \in Terminal

(* As long as no two closers were at work on a job at once, it has at most *)
(* one `done` event and the event tells what the row says.                 *)
UncontestedVerdict ==
    \A j \in Jobs : ~raced[j] =>
        /\ Len(done[j]) <= 1
        /\ done[j] # << >> => done[j][1] = DoneEvent(row[j])

(* Once a job has its verdict and no closer that saw it running is still   *)
(* under way, neither the row nor its `done` events ever change again,     *)
(* whatever is requested, reconciled or restarted afterwards.              *)
SettledStays ==
    [][\A j \in Jobs :
          row[j].status \in Verdicts /\ Closers_OnIt(j) = {} =>
              UNCHANGED <<row[j], done[j]>>]_vars

(* Of the writers on the event loop - the log producer, the direct stream, *)
(* the stop handler - none overwrites a stop: only a reconcile in a worker *)
(* thread can.                                                             *)
LoopKeepsStop ==
    [][\A j \in Jobs :
          row[j].status = "stopped" /\ row'[j] # row[j] => loop' = loop]_vars

-----------------------------------------------------------------------------
(* The ledger this implements: a claim is a closer that saw the job        *)
(* running.                                                                *)
OpenClaims == [j \in Jobs |-> Closers_OnIt(j)]
Ledger == INSTANCE JobLedger WITH Writers <- Closers, claims <- OpenClaims
ImplementsLedger == Ledger!Spec

-----------------------------------------------------------------------------
(***************************************************************************)
(* Fairness.  A thread that runs ends.  The event loop runs its ready      *)
(* tasks in turn, so a task that is ready again and again is run.  Docker  *)
(* answers now and then: a reconcile of a job that the monitor repeats for *)
(* ever is told the container's state at last - it neither raises nor is   *)
(* told "unknown" for ever.  Nothing is assumed of the users, of the       *)
(* container, of a producer, of a deaf stream, or of what a stream of the  *)
(* log yields.                                                             *)
(***************************************************************************)
CloserEnds(c) ==
    \/ LookForDone(c) \/ ThreadStep(c)
    \/ c \in Jobs /\ ProducerCommit(c)
    \/ c \in Stops /\ StopCommit(c)
    \/ c \in Viewers /\ StreamCommit(c)

DockerTells(c, j) ==
    /\ closing[c].job = j
    /\ ReconcileSeesEnd(c) \/ (box[j] = "running" /\ ReconcileLeaves(c))

MonitorStep  == MonitorLists \/ MonitorResumes \/ \E j \in Jobs : MonitorVisits(j)
StartStep(j) == StartContainer(j) \/ StartRecorded(j) \/ StartRefused(j)
StreamTells(v) == DirectFinishes(v) \/ \E j \in Jobs : StreamDelivers(v, j)

Fairness ==
    /\ \A c \in Closers : WF_vars(CloserEnds(c))
    /\ \A j \in Jobs : SF_vars(DockerTells(Monitor, j))
    /\ SF_vars(MonitorStep)
    /\ \A j \in Jobs : SF_vars(StartStep(j))
    /\ \A v \in Viewers : SF_vars(StreamTells(v))

FairSpec == Spec /\ Fairness

(* The safety net: a job whose container has exited gets a verdict, with   *)
(* no page open, whatever happened to its producer.                        *)
EndedJobCloses ==
    \A j \in Jobs : Running(row[j]) /\ Ended(j) ~> row[j].status \in Verdicts

(* A running job without a producer gets one again, or gets its verdict,   *)
(* although a visit of the monitor that cannot reach Docker restarts none. *)
ProducerComesBack ==
    \A j \in Jobs : Running(row[j]) /\ prod[j] = "off"
                      ~> prod[j] # "off" \/ row[j].status \in Verdicts

(* A page that follows a job is told the end: its stream does not outlive  *)
(* the container for ever.  The one stream that does is the deaf one: a    *)
(* stream that polls the events, or reads the container's log, never       *)
(* becomes stuck in any other way.                                         *)
StreamFindsEnd ==
    \A v \in Viewers, j \in Jobs :
        stream[v].job = j /\ Ended(j)
            ~> stream[v].job # j \/ stream[v].pc = "deaf"
=============================================================================
