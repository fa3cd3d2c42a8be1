---------------------------- MODULE RenderQueue -----------------------------
(***************************************************************************)
(* TEC map animations rendered in the background: app/tec_map_jobs.py, the *)
(* handlers /tec-map/gif and /tec-map/gif/jobs of app/tec_map.py, and the  *)
(* page that polls them (static/js/ionmaps.js, runGif).                    *)
(*                                                                         *)
(* Handlers run in threads of their own, one worker thread renders.  Every *)
(* `with _lock` block is one step, except the worker's last: it writes the *)
(* status of the job before its media type, which a handler that reads the *)
(* status without the lock can tell.                                       *)
(***************************************************************************)
EXTENDS Integers, Sequences, FiniteSets

CONSTANTS Users, Requests,    \* a request is the sorted query string
          Tabs, Owner,        \* pages that run runGif, and whose they are
          Directs,            \* threads that answer GET /tec-map/gif
          None,
          MaxActive,          \* MAX_ACTIVE_JOBS_PER_USER
          MaxFailedPolls,     \* runGif gives up after ten
          MaxJobs,            \* bound: animations submitted
          MaxRestarts         \* bound: restarts of the hub

Jobs == 1..MaxJobs            \* in the order of their created_at

ASSUME QueueAssumption ==
    /\ MaxActive \in Nat \ {0} /\ MaxFailedPolls \in Nat \ {0}
    /\ MaxJobs \in Nat /\ MaxRestarts \in Nat
    /\ Owner \in [Tabs -> Users]
    /\ None \notin Users \cup Requests \cup Directs \cup {"worker"}

VARIABLES
    job,       \* the AnimationJob objects
    created,   \* how many were created
    known,     \* _jobs
    queue,     \* _queue
    worker,    \* _worker: what the thread is doing, and for which job
    slot,      \* render_slot
    disk,      \* files in TEC_MAP_RENDER_DIR
    tab,       \* the pages
    restarts

vars == <<job, created, known, queue, worker, slot, disk, tab, restarts>>

Job == [user : Users \cup {None}, key : Requests \cup {None},
        status : {"queued", "running", "done", "failed"},
        typed : BOOLEAN,      \* media_type and filename are set
        old : BOOLEAN,        \* finished longer ago than TEC_MAP_RENDER_TTL_SEC
        stranded : BOOLEAN]   \* history: submit raised between inserting and putting it

NoJob == [user |-> None, key |-> None, status |-> "queued", typed |-> FALSE, old |-> FALSE,
          stranded |-> FALSE]

Tab == [pc : {"idle", "putting", "polling", "describing", "fetching", "checking", "opening"},
        job : Jobs \cup {0}, told : {"", "queued", "running", "done"},
        position : 0..MaxJobs, failedPolls : 0..MaxFailedPolls, typed : BOOLEAN]

NewTab == [pc |-> "idle", job |-> 0, told |-> "", position |-> 0, failedPolls |-> 0, typed |-> FALSE]
NoWorker == [pc |-> "off", job |-> 0]

TypeOK ==
    /\ job \in [Jobs -> Job] /\ created \in 0..MaxJobs
    /\ known \in SUBSET Jobs /\ queue \in Seq(Jobs) /\ disk \in SUBSET Jobs
    /\ worker \in [pc : {"off", "idle", "taken", "working", "publishing"}, job : Jobs \cup {0}]
    /\ slot \in {None, "worker"} \cup Directs
    /\ tab \in [Tabs -> Tab]
    /\ restarts \in 0..MaxRestarts

Init ==
    /\ job = [j \in Jobs |-> NoJob] /\ created = 0
    /\ known = {} /\ queue = <<>> /\ worker = NoWorker /\ slot = None
    /\ disk = {}
    /\ tab = [t \in Tabs |-> NewTab]
    /\ restarts = 0

-----------------------------------------------------------------------------
LockIsFree == worker.pc # "publishing"

Live(j)   == j \in known /\ job[j].status # "failed"
Active(j) == j \in known /\ job[j].status \in {"queued", "running"}
ActiveOf(u) == {j \in Jobs : Active(j) /\ job[j].user = u}
SameRequest(u, k) == {j \in Jobs : Live(j) /\ job[j].user = u /\ job[j].key = k}

(* _expire_locked, at the head of submit and of get. *)
Expired == {j \in known : job[j].old}
_expire_locked == disk' = disk \ Expired

_ensure_worker_only(now_known) ==           \* mutant: earlier files are left
    /\ worker' = IF worker.pc = "off" THEN [pc |-> "idle", job |-> 0] ELSE worker
    /\ disk' = disk \ Expired

(* No worker yet, since no submit after the start has got this far: the    *)
(* files that are there belong to jobs of an earlier process.              *)
_ensure_worker_locked(now_known) ==
    IF worker.pc = "off"
    THEN worker' = [pc |-> "idle", job |-> 0] /\ disk' = (disk \ Expired) \cap now_known
    ELSE worker' = worker /\ disk' = disk \ Expired

-----------------------------------------------------------------------------
(***************************************************************************)
(* submit.  The job is inserted under the lock and put after it.           *)
(***************************************************************************)
SubmitReuses(t, k) ==
    /\ tab[t].pc = "idle" /\ LockIsFree
    /\ \E j \in SameRequest(Owner[t], k) \ Expired :
          tab' = [tab EXCEPT ![t] = [NewTab EXCEPT !.pc = "describing", !.job = j]]
    /\ _expire_locked
    /\ known' = known \ Expired
    /\ UNCHANGED <<job, created, queue, worker, slot, restarts>>

SubmitRefused(t, k) ==
    /\ tab[t].pc = "idle" /\ LockIsFree
    /\ SameRequest(Owner[t], k) \subseteq Expired
    /\ Cardinality(ActiveOf(Owner[t])) >= MaxActive
    /\ tab' = tab                         \* 429
    /\ _expire_locked
    /\ known' = known \ Expired
    /\ UNCHANGED <<job, created, queue, worker, slot, restarts>>

InsertsUnlooked(t, k, j) ==      \* mutant: no look for the same request
    /\ tab[t].pc = "idle" /\ LockIsFree /\ j \in Jobs
    /\ Cardinality(ActiveOf(Owner[t])) < MaxActive
    /\ created' = j
    /\ known' = (known \ Expired) \cup {j}
    /\ UNCHANGED <<queue, slot, restarts>>

(* What both outcomes have in common: nothing under way for the request,   *)
(* the limit not reached, the job in _jobs.                                *)
Inserts(t, k, j) ==
    /\ tab[t].pc = "idle" /\ LockIsFree /\ j \in Jobs
    /\ SameRequest(Owner[t], k) \subseteq Expired
    /\ Cardinality(ActiveOf(Owner[t])) < MaxActive
    /\ created' = j
    /\ known' = (known \ Expired) \cup {j}
    /\ UNCHANGED <<queue, slot, restarts>>

SubmitInserts(t, k) ==
    LET j == created + 1
    IN /\ Inserts(t, k, j)
       /\ job' = [job EXCEPT ![j] = [NoJob EXCEPT !.user = Owner[t], !.key = k]]
       /\ _ensure_worker_locked(known')
       /\ tab' = [tab EXCEPT ![t] = [NewTab EXCEPT !.pc = "putting", !.job = j]]

(* The directory cannot be listed, a file in it cannot be removed or the   *)
(* thread cannot be started: the page gets a 500, no worker runs, and the  *)
(* job that was just inserted is never put.                                *)
SubmitRaises(t, k) ==
    LET j == created + 1
    IN /\ Inserts(t, k, j)
       /\ worker.pc = "off" /\ worker' = worker
       /\ job' = [job EXCEPT ![j] = [NoJob EXCEPT !.user = Owner[t], !.key = k, !.stranded = TRUE]]
       /\ \E removed \in SUBSET (disk \ known') : disk' = (disk \ Expired) \ removed
       /\ tab' = [tab EXCEPT ![t] = NewTab]

Put(t) ==
    /\ tab[t].pc = "putting"
    /\ queue' = Append(queue, tab[t].job)
    /\ tab' = [tab EXCEPT ![t].pc = "describing"]
    /\ UNCHANGED <<job, created, known, worker, slot, disk, restarts>>

-----------------------------------------------------------------------------
(***************************************************************************)
(* The status and the result, as a page asks for them.                     *)
(***************************************************************************)
(* get, through _visible_job: a page knows the ids of its own jobs only. *)
Get(t, from, found) ==
    /\ tab[t].pc = from /\ LockIsFree
    /\ tab' = [tab EXCEPT ![t] = IF @.job \in known \ Expired THEN [@ EXCEPT !.pc = found]
                                 ELSE NewTab]                               \* 404
    /\ _expire_locked
    /\ known' = known \ Expired
    /\ UNCHANGED <<job, created, queue, worker, slot, restarts>>

Poll(t) == Get(t, "polling", "describing")

Ahead(j) == {k \in known : job[k].status = "queued" /\ k < j}
RunningNow == {k \in known : job[k].status = "running"}
QueuePositionOfAll(j) ==         \* mutant: later jobs count as well
    IF job[j].status # "queued" THEN 0
    ELSE Cardinality({k \in known : job[k].status = "queued" /\ k # j})
         + (IF RunningNow = {} THEN 0 ELSE 1)

QueuePosition(j) ==
    IF job[j].status # "queued" THEN 0
    ELSE Cardinality(Ahead(j)) + (IF RunningNow = {} THEN 0 ELSE 1)

describeUnlocked(t) ==           \* mutant: the status is read without the lock
    LET j == tab[t].job
    IN /\ tab[t].pc = "describing"
       /\ tab' = [tab EXCEPT ![t] =
             IF job[j].status = "failed" THEN NewTab
             ELSE [NewTab EXCEPT !.job = j, !.told = job[j].status, !.position = QueuePosition(j),
                                 !.pc = IF job[j].status = "done" THEN "fetching" ELSE "polling"]]
       /\ UNCHANGED <<job, created, known, queue, worker, slot, disk, restarts>>

describe(t) ==
    LET j == tab[t].job
    IN /\ tab[t].pc = "describing" /\ LockIsFree
       /\ tab' = [tab EXCEPT ![t] =
             IF job[j].status = "failed" THEN NewTab
             ELSE [NewTab EXCEPT !.job = j, !.told = job[j].status, !.position = QueuePosition(j),
                                 !.pc = IF job[j].status = "done" THEN "fetching" ELSE "polling"]]
       /\ UNCHANGED <<job, created, known, queue, worker, slot, disk, restarts>>

BlipForever(p) == [p EXCEPT !.failedPolls = @ + 1, !.pc = "polling"]   \* mutant: never gives up

(* A poll without an answer, or with a 5xx. *)
Blip(p) == IF p.failedPolls + 1 < MaxFailedPolls
           THEN [p EXCEPT !.failedPolls = @ + 1, !.pc = "polling"] ELSE NewTab

PollIsLost(t) ==
    /\ tab[t].pc = "polling"
    /\ tab' = [tab EXCEPT ![t] = Blip(@)]
    /\ UNCHANGED <<job, created, known, queue, worker, slot, disk, restarts>>

GetResult(t) == Get(t, "fetching", "checking")

(* The handler reads the status, looks for the file and takes the media    *)
(* type, all without the lock.                                             *)
CheckResult(t) ==
    LET j == tab[t].job
    IN /\ tab[t].pc = "checking"
       /\ tab' = [tab EXCEPT ![t] = IF job[j].status = "done" /\ j \in disk
                                    THEN [@ EXCEPT !.typed = job[j].typed, !.pc = "opening"]
                                    ELSE NewTab]                        \* 409, 404
       /\ UNCHANGED <<job, created, known, queue, worker, slot, disk, restarts>>

(* FileResponse opens the file after the handler returned; if it is gone   *)
(* by then the response breaks.                                            *)
OpenResult(t) ==
    /\ tab[t].pc = "opening"
    /\ tab' = [tab EXCEPT ![t] = NewTab]
    /\ UNCHANGED <<job, created, known, queue, worker, slot, disk, restarts>>

-----------------------------------------------------------------------------
(***************************************************************************)
(* _work_loop and _run.                                                    *)
(***************************************************************************)
TakeUnlessBusy ==                \* mutant: a job that finds the slot taken is dropped
    /\ worker.pc = "idle" /\ queue # <<>>
    /\ queue' = Tail(queue)
    /\ worker' = IF slot = None THEN [pc |-> "taken", job |-> Head(queue)] ELSE worker
    /\ UNCHANGED <<job, created, known, slot, disk, tab, restarts>>

Take ==
    /\ worker.pc = "idle" /\ queue # <<>>
    /\ queue' = Tail(queue)
    /\ worker' = IF Head(queue) \in known /\ job[Head(queue)].status = "queued"
                 THEN [pc |-> "taken", job |-> Head(queue)] ELSE worker
    /\ UNCHANGED <<job, created, known, slot, disk, tab, restarts>>

StartWork ==
    /\ worker.pc = "taken" /\ slot = None
    /\ slot' = "worker"
    /\ job' = [job EXCEPT ![worker.job].status = "running"]
    /\ worker' = [worker EXCEPT !.pc = "working"]
    /\ UNCHANGED <<created, known, queue, disk, tab, restarts>>

(* The animation is rendered and its file written: the worker takes the    *)
(* lock and sets the status ...                                            *)
WorkSucceeds ==
    /\ worker.pc = "working"
    /\ disk' = disk \cup {worker.job}
    /\ job' = [job EXCEPT ![worker.job].status = "done"]
    /\ worker' = [worker EXCEPT !.pc = "publishing"]
    /\ UNCHANGED <<created, known, queue, slot, tab, restarts>>

(* ... and then the media type and the file name, before it gives up the   *)
(* lock and the slot.                                                      *)
WorkIsPublished ==
    /\ worker.pc = "publishing"
    /\ job' = [job EXCEPT ![worker.job].typed = TRUE]
    /\ worker' = [pc |-> "idle", job |-> 0]
    /\ slot' = None
    /\ UNCHANGED <<created, known, queue, disk, tab, restarts>>

WorkFailsInSlot ==               \* mutant: the slot is not given up
    /\ worker.pc = "working"
    /\ disk' = disk
    /\ job' = [job EXCEPT ![worker.job].status = "failed"]
    /\ worker' = [pc |-> "idle", job |-> 0]
    /\ UNCHANGED <<created, known, queue, slot, tab, restarts>>

(* Rendering or writing raises; a full disk leaves a part of the file. *)
WorkFails ==
    /\ worker.pc = "working"
    /\ \E part \in SUBSET {worker.job} : disk' = disk \cup part
    /\ job' = [job EXCEPT ![worker.job].status = "failed"]
    /\ worker' = [pc |-> "idle", job |-> 0]
    /\ slot' = None
    /\ UNCHANGED <<created, known, queue, tab, restarts>>

(* GET /tec-map/gif renders in its own thread, in the same slot. *)
DirectStarts(d) ==
    /\ slot = None
    /\ slot' = d
    /\ UNCHANGED <<job, created, known, queue, worker, disk, tab, restarts>>

DirectEnds(d) ==
    /\ slot = d
    /\ slot' = None
    /\ UNCHANGED <<job, created, known, queue, worker, disk, tab, restarts>>

-----------------------------------------------------------------------------
TtlPasses(j) ==
    /\ j \in known /\ job[j].status \in {"done", "failed"} /\ ~job[j].old
    /\ worker.job # j
    /\ job' = [job EXCEPT ![j].old = TRUE]
    /\ UNCHANGED <<created, known, queue, worker, slot, disk, tab, restarts>>

(* The hub dies and comes back; a request it was answering is lost, and    *)
(* only a poll is repeated.                                                *)
Restart ==
    /\ restarts < MaxRestarts
    /\ restarts' = restarts + 1
    /\ known' = {} /\ queue' = <<>> /\ worker' = NoWorker /\ slot' = None
    /\ job' = [j \in Jobs |-> NoJob]
    /\ tab' = [t \in Tabs |->
                 CASE tab[t].pc = "polling" -> tab[t]
                   [] tab[t].pc = "describing" /\ tab[t].told # "" -> Blip(tab[t])
                   [] OTHER -> NewTab]
    /\ UNCHANGED <<created, disk>>

-----------------------------------------------------------------------------
Submit(t, k) ==
    SubmitReuses(t, k) \/ SubmitRefused(t, k) \/ SubmitInserts(t, k) \/ SubmitRaises(t, k)
Handler(t) == Put(t) \/ describe(t) \/ GetResult(t) \/ CheckResult(t) \/ OpenResult(t)
PollStep(t) == Poll(t) \/ PollIsLost(t)
Finish == WorkSucceeds \/ WorkFails \/ WorkIsPublished

Next ==
    \/ \E t \in Tabs, k \in Requests : Submit(t, k)
    \/ \E t \in Tabs : Handler(t) \/ PollStep(t)
    \/ Take \/ StartWork \/ Finish
    \/ \E d \in Directs : DirectStarts(d) \/ DirectEnds(d)
    \/ \E j \in Jobs : TtlPasses(j)
    \/ Restart

Spec == Init /\ [][Next]_vars

-----------------------------------------------------------------------------
(***************************************************************************)
(* Safety.                                                                 *)
(***************************************************************************)

(* However many pages submit at once, a user has at most MaxActive         *)
(* animations queued or rendering, and never two for the same request      *)
(* unless the earlier ones failed: submit looks and inserts in one block.  *)
UserJobs ==
    \A u \in Users :
        /\ Cardinality(ActiveOf(u)) <= MaxActive
        /\ \A j, k \in known : Live(j) /\ Live(k) /\ job[j].user = u /\ job[k].user = u
                                 /\ job[j].key = job[k].key => j = k

(* A job that reads as queued is in exactly one place on its way to the    *)
(* worker: with the handler that is about to put it, in the queue, or      *)
(* taken.  In none are those whose submit raised, and only those: they     *)
(* count against their user until the hub restarts.                        *)
Waits(j) ==
    /\ \/ \E t \in Tabs : tab[t].pc = "putting" /\ tab[t].job = j
       \/ \E i \in DOMAIN queue : queue[i] = j
       \/ worker.pc = "taken" /\ worker.job = j
    /\ \A t, s \in Tabs : tab[t].pc = "putting" /\ tab[s].pc = "putting"
                             /\ tab[t].job = j /\ tab[s].job = j => t = s
    /\ \A t \in Tabs : tab[t].pc = "putting" /\ tab[t].job = j =>
                            (\A i \in DOMAIN queue : queue[i] # j) /\ worker.job # j
    /\ \A i, n \in DOMAIN queue : queue[i] = j /\ queue[n] = j => i = n
    /\ \A i \in DOMAIN queue : queue[i] = j => worker.job # j

OnItsWay(j) ==
    \/ \E t \in Tabs : tab[t].pc = "putting" /\ tab[t].job = j
    \/ \E i \in DOMAIN queue : queue[i] = j
    \/ worker.job = j

QueuedOnce ==
    \A j \in known : job[j].status = "queued" =>
        IF job[j].stranded THEN ~OnItsWay(j) ELSE Waits(j)

(* Once the worker runs, the directory holds the file of every finished    *)
(* animation that is on offer, and none of an animation that is not: not   *)
(* one that expired, nor one of before the restart.                        *)
FilesMatchJobs ==
    /\ \A j \in known : job[j].status = "done" => j \in disk
    /\ worker.pc # "off" => disk \subseteq known

(* The place in the queue that a page is told only ever falls, unless an   *)
(* animation submitted later runs first: jobs are numbered under the lock  *)
(* and put in the queue after it, so two handlers may cross.               *)
PositionFalls ==
    [][\A t \in Tabs : tab[t].job = tab'[t].job /\ tab[t].told = "queued"
                         /\ tab'[t].position > tab[t].position =>
          \E k \in RunningNow : k > tab[t].job]_vars

(* A page that was told "done" gets the file with its media type, or the   *)
(* animation has expired (or the hub restarted) since: it never sees       *)
(* a result that is not ready or only half published.                      *)
ToldDoneIsServed ==
    \A t \in Tabs : tab[t].told = "done" =>
        /\ tab[t].pc = "opening" => tab[t].typed
        /\ tab[t].job \in known =>
              LET j == tab[t].job IN job[j].status = "done" /\ job[j].typed /\ j \in disk

-----------------------------------------------------------------------------
(***************************************************************************)
(* Fairness.  Threads run and a page polls, with or without an answer; a   *)
(* direct request ends; the worker gets the slot now and then, which       *)
(* threading.Lock does not promise it (it is not first come first served)  *)
(* and practice gives it.                                                  *)
(***************************************************************************)
Fairness ==
    /\ WF_vars(Take \/ Finish) /\ SF_vars(StartWork)
    /\ \A d \in Directs : WF_vars(DirectEnds(d))
    /\ \A t \in Tabs : WF_vars(Handler(t) \/ PollStep(t))

FairSpec == Spec /\ Fairness

(* A page that waits for its animation does not wait for ever: it gets the *)
(* file, an error, or the news that the animation is gone, and is idle.    *)
(* Not so the page that repeats a request whose submit raised: it is given *)
(* the stranded job and polls it.                                          *)
PageLearnsTheEnd ==
    \A t \in Tabs :
        tab[t].pc = "polling" ~> \/ tab[t].pc = "idle"
                                 \/ tab[t].job \in known /\ job[tab[t].job].stranded
=============================================================================
