--------------------------- MODULE JobLedgerProofs ---------------------------
(***************************************************************************)
(* Why the verdict of a job can be trusted, for every number of jobs,      *)
(* requests, viewers and restarts: it is true of the container, it is the  *)
(* only one unless two closers met, it stays, and the tasks and threads of *)
(* JobCompletion implement JobLedger.                                      *)
(***************************************************************************)
EXTENDS JobCompletionProofs

USE DEF STOPPED_EXIT_CODE, UnknownCode

-----------------------------------------------------------------------------
(***************************************************************************)
(* The inductive invariant, in parts.                                      *)
(*                                                                         *)
(* Who holds the event loop is in the middle of a persist, and a producer, *)
(* stream or stop is busy only then; the monitor and a producer that has   *)
(* no reconcile under way are idle.                                        *)
(***************************************************************************)
Place(c, holder, k, p, m) ==
    IF holder = c
    THEN /\ c \in Jobs \cup Stops \cup Viewers /\ k.pc \in {"query", "commit"}
         /\ c \in Jobs => p[c] = "streaming"
    ELSE /\ c \in Jobs /\ p[c] \notin {"reconciling", "ending"} => k.pc = "idle"
         /\ c \in Viewers => k.pc = "idle"
         /\ c \in Stops => k.pc \in {"idle", "docker"}
         /\ c = Monitor /\ m = "visiting" => k.pc = "idle"

LoopOk == \A c \in Closers : Place(c, loop, closing[c], prod, mon)

(* A row has its container's id only once the start is over, is as it was  *)
(* inserted until then, and is an "error" only without a container.        *)
StartOk(j) ==
    /\ row[j].status = "absent" => start[j] = "idle"
    /\ start[j] \in {"launching", "launched", "refused"} => row[j] = NewRow
    /\ start[j] \in {"idle", "launching"} => box[j] = "none"
    /\ row[j].cid => start[j] = "over"
    /\ row[j].status = "error" => ~row[j].cid

(* What the row says of the container is so, and no row is left in the     *)
(* form that mark_legacy_stopped_jobs corrects.                            *)
TrueOk(j) ==
    /\ row[j].status \in {"success", "failed"} => Ended(j)
    /\ row[j].status = "success" => code[j] = 0
    /\ row[j].exit \in ContainerCodes => Ended(j) /\ row[j].exit = code[j]
    /\ ~LegacyStop(row[j])

RowsOk == \A j \in Jobs : StartOk(j) /\ TrueOk(j)

(* Only a job whose container has an id is streamed or tailed. *)
HasId(j) == row[j].status = "running" => row[j].cid
StreamsOk ==
    /\ \A v \in Viewers : stream[v].pc # "closed" => HasId(stream[v].job)
    /\ \A j \in Jobs : prod[j] \notin {"off", "starting"} => row[j].cid

(* A closer that saw the job running writes a stop, on the loop, or what   *)
(* the ended container left; one that saw it closed is on the loop, and    *)
(* has an event to add only to an "error" row that has none.               *)
CloserOk(c) ==
    LET k == closing[c]
    IN k.pc \in Busy =>
         IF k.seen.status = "running"
         THEN /\ row[k.job].cid
              /\ loop = c => row[k.job].status # "stopped"
              /\ k.pc # "inspect" => \/ k.code = STOPPED_EXIT_CODE /\ loop = c
                                     \/ Ended(k.job) /\ k.code \in StreamCodes(k.job)
         ELSE /\ loop = c
              /\ row[k.job].status = "error" => k.seen = row[k.job]
              /\ k.pc = "commit" /\ ~k.found =>
                    row[k.job].status = "error" /\ done[k.job] = << >>

ClosersOk == \A c \in Closers : CloserOk(c)

(* Without a race a closed job has one event, its own, and nobody is left  *)
(* who could write another verdict.                                        *)
RaceOk(j) ==
    ~raced[j] =>
        /\ Len(done[j]) <= 1
        /\ done[j] # << >> => done[j][1] = DoneEvent(row[j])
        /\ row[j].status \in Terminal => Closers_OnIt(j) = {}

RacesOk == \A j \in Jobs : RaceOk(j)

LedgerInv == DurableInv /\ LoopOk /\ RowsOk /\ StreamsOk /\ ClosersOk /\ RacesOk
-----------------------------------------------------------------------------
(***************************************************************************)
(* What a step does to the rest of the state: the loop, the containers,    *)
(* the starts.  Together with RowEffect and CloserEffect that is all the   *)
(* proofs below know of the actions.                                       *)
(***************************************************************************)
LoopMoves ==
    \/ loop' = loop
    \/ /\ loop = None /\ loop' \in Closers /\ closing[loop'].pc = "idle"
       /\ HasId(closing'[loop'].job)
    \/ loop # None /\ loop' = None /\ closing'[loop].pc \notin Busy

(* A verdict is committed: its closer is done with it, the others stay. *)
Commits(c) ==
    /\ Persist(c)
    /\ closing'[c].pc \notin Busy
    /\ \A d \in Closers : d # c => closing'[d] = closing[d]
    /\ loop' = IF loop = c THEN None ELSE loop
    /\ UNCHANGED <<box, code, start>>

Starts(j) == Submit(j) \/ StartContainer(j) \/ StartRecorded(j) \/ StartRefused(j)

(* The container of j ends or is removed. *)
Boxes(j) ==
    /\ \A i \in Jobs : i # j => box'[i] = box[i] /\ code'[i] = code[i]
    /\ \/ box[j] = "running" /\ box'[j] = "exited" /\ code'[j] \in ContainerCodes
       \/ box[j] = "exited" /\ box'[j] = "gone" /\ code'[j] = code[j]
    /\ UNCHANGED <<row, done, raced, loop, start>>

Quiet == UNCHANGED <<row, done, raced, box, code, start>>

Kinds == Quiet \/ Restart \/ (\E c \in Closers : Commits(c)) \/ \E j \in Jobs : Starts(j) \/ Boxes(j)

(* A commit, by whichever of the four who can. *)
LEMMA CommitsAre ==
    ASSUME TypeInv, NEW c \in Closers,
           \/ c \in Jobs /\ ProducerCommit(c)
           \/ c \in Stops /\ StopCommit(c)
           \/ c \in Viewers /\ StreamCommit(c)
           \/ ReconcileCommit(c)
    PROVE  Commits(c)
<1>1. \E r : r.pc \notin Busy /\ closing' = [closing EXCEPT ![c] = r]
  <2>1. Idle.pc \notin Busy /\ \A j : \A pc \in {"docker", "closed"} : At(pc, j).pc \notin Busy
    BY RestingStates DEF Busy
  <2>2. \E r \in {Idle, At("docker", closing[c].job), At("closed", closing[c].job)} :
           closing' = [closing EXCEPT ![c] = r]
    BY DEF ProducerCommit, StopCommit, StreamCommit, ReconcileCommit, Return
  <2> QED
    BY <2>1, <2>2
<1>2. closing'[c].pc \notin Busy /\ \A d \in Closers : d # c => closing'[d] = closing[d]
  BY <1>1 DEF TypeInv, TypeOK
<1>3. /\ Persist(c) /\ loop' = IF loop = c THEN None ELSE loop
      /\ UNCHANGED <<box, code, start>>
  BY DEF ProducerCommit, StopCommit, StreamCommit, ReconcileCommit, InThread
<1> QED
  BY <1>2, <1>3 DEF Commits

(* The container ends by itself or by a stop. *)
LEMMA ExitBoxes ==
    ASSUME TypeInv, NEW j \in Jobs, box[j] = "running", NEW x \in ContainerCodes, Exit(j, x),
           UNCHANGED <<row, done, raced, loop, start>>
    PROVE  Boxes(j)
BY DEF Exit, Boxes, TypeInv, TypeOK

(* Every step is of one of these kinds. *)
LEMMA StepKinds == TypeInv /\ [Next]_vars => Kinds
<1> SUFFICES ASSUME TypeInv, [Next]_vars PROVE Kinds
  OBVIOUS
<1>1. CASE \E c \in Closers : \/ c \in Jobs /\ ProducerCommit(c)
                              \/ c \in Stops /\ StopCommit(c)
                              \/ c \in Viewers /\ StreamCommit(c)
                              \/ ReconcileCommit(c)
  BY <1>1, CommitsAre DEF Kinds
<1>2. CASE \E j \in Jobs : ContainerExits(j) \/ ContainerRemoved(j)
  <2> PICK j \in Jobs : ContainerExits(j) \/ ContainerRemoved(j)
    BY <1>2
  <2>1. CASE ContainerExits(j)
    <3>1. PICK x \in ContainerCodes : Exit(j, x)
      BY <2>1 DEF ContainerExits
    <3> QED
      BY <2>1, <3>1, ExitBoxes DEF ContainerExits, hubVars, Kinds
  <2>2. CASE ContainerRemoved(j)
    <3>1. Boxes(j)
      BY <2>2 DEF ContainerRemoved, hubVars, Boxes, TypeInv, TypeOK
    <3> QED
      BY <3>1 DEF Kinds
  <2> QED
    BY <2>1, <2>2
<1>3. CASE \E s \in Stops : StopContainer(s)
  <2> PICK s \in Stops : StopContainer(s)
    BY <1>3
  <2> DEFINE j == closing[s].job
  <2>0. j \in Jobs /\ UNCHANGED <<row, done, raced, loop, start>>
    BY DEF StopContainer, Closers, TypeInv, HasJob, BusyHasJob
  <2>1. CASE UNCHANGED <<box, code>>
    BY <2>0, <2>1 DEF Quiet, Kinds
  <2>2. CASE box[j] = "running" /\ \E x \in ContainerCodes : Exit(j, x)
    BY <2>0, <2>2, ExitBoxes DEF Kinds
  <2> QED
    BY <2>1, <2>2 DEF StopContainer
<1>4. CASE \E j \in Jobs : Starts(j)
  BY <1>4 DEF Kinds
<1>5. CASE Restart
  BY <1>5 DEF Kinds
<1>6. CASE UNCHANGED vars
  BY <1>6 DEF vars, hubVars, Kinds, Quiet
<1>7. CASE \/ \E c \in Closers : LookForDone(c) \/ ReconcileRead(c) \/ ReconcileLeaves(c) \/ ReconcileRaises(c) \/ ReconcileSeesEnd(c)
           \/ \E p \in Pages, j \in Jobs : PageReconciles(p, j)
           \/ \E s \in Stops, j \in Jobs : StopRequest(s, j)
  BY <1>7 DEF LookForDone, ReconcileRead, ReconcileLeaves, ReconcileRaises, ReconcileSeesEnd, PageReconciles, StopRequest,
              Kinds, Quiet
<1>8. CASE \/ \E j \in Jobs : \/ MonitorVisits(j) \/ ProducerBegins(j) \/ ProducerResumes(j)
                              \/ ProducerBreaks(j) \/ ProducerDies(j) \/ ProducerFinishes(j)
           \/ MonitorLists \/ MonitorResumes
  BY <1>8 DEF MonitorVisits, ProducerBegins, ProducerResumes, ProducerBreaks, ProducerDies, ProducerFinishes,
              MonitorLists, MonitorResumes, Kinds, Quiet
<1>9. CASE \E v \in Viewers : \/ DirectFinishes(v) \/ StreamDrops(v)
                              \/ \E j \in Jobs : \/ StreamOpens(v, j) \/ StreamWaits(v, j)
                                                 \/ StreamPersists(v, j) \/ StreamDelivers(v, j)
  BY <1>9 DEF DirectFinishes, StreamDrops, StreamOpens, StreamWaits, StreamPersists, StreamDelivers,
              Kinds, Quiet
<1> QED
  BY <1>1, <1>2, <1>3, <1>4, <1>5, <1>6, <1>7, <1>8, <1>9
  DEF Next, JobStep, StreamStep, StopStep, ThreadStep, Starts, Closers
-----------------------------------------------------------------------------
(***************************************************************************)
(* The event loop.                                                         *)
(***************************************************************************)
(* The kinds of closers are different tasks. *)
LEMMA Apart ==
    ASSUME NEW c \in Closers
    PROVE  /\ c # None
           /\ c \in Jobs => c # Monitor /\ c \notin Stops /\ c \notin Viewers /\ c \notin Pages
           /\ c \in Stops => c # Monitor /\ c \notin Viewers /\ c \notin Pages
           /\ c \in Viewers => c # Monitor /\ c \notin Pages
           /\ c \in Pages => c # Monitor
BY JobCompletionAssumption DEF Closers

(* Nobody's place is touched but that of d. *)
ProdOk(d) ==
    \A j \in Jobs \ {d} :
        prod'[j] = prod[j] \/ (loop # j /\ prod[j] \notin {"reconciling", "ending"})

LEMMA OthersStay ==
    ASSUME LoopOk, NEW d, \A c \in Closers : c # d => closing'[c] = closing[c],
           \A c \in Closers : c # d => (loop' = c <=> loop = c),
           mon' = mon \/ d = Monitor, ProdOk(d),
           d \in Closers => Place(d, loop', closing'[d], prod', mon')
    PROVE  LoopOk'
<1> SUFFICES ASSUME NEW c \in Closers, c # d PROVE Place(c, loop', closing'[c], prod', mon')
  BY DEF LoopOk
<1>1. Place(c, loop, closing[c], prod, mon)
  BY DEF LoopOk
<1>2. closing'[c] = closing[c] /\ (loop' = c <=> loop = c) /\ (mon' = mon \/ c # Monitor)
  OBVIOUS
<1>3. c \in Jobs => prod'[c] = prod[c] \/ (loop # c /\ prod[c] \notin {"reconciling", "ending"})
  BY DEF ProdOk
<1> QED
  BY <1>1, <1>2, <1>3 DEF Place

(* A thread goes on, or a closer on the loop goes from query to commit. *)
LEMMA ThreadPlace ==
    ASSUME TypeInv, LoopOk, NEW d \in Closers, NEW r, closing' = [closing EXCEPT ![d] = r],
           closing[d].pc \notin {"idle", "docker"}, loop = d => r.pc \in {"query", "commit"},
           loop' = loop, prod' = prod, mon' = mon
    PROVE  LoopOk'
<1>1. closing'[d] = r /\ \A c \in Closers : c # d => closing'[c] = closing[c]
  BY DEF TypeInv, TypeOK
<1>2. Place(d, loop, closing[d], prod, mon)
  BY DEF LoopOk
<1>3. Place(d, loop', closing'[d], prod', mon')
  BY <1>1, <1>2, Apart DEF Place
<1>4. ProdOk(d)
  BY DEF ProdOk
<1> QED
  BY <1>1, <1>3, <1>4, OthersStay

(* A handler takes the loop. *)
LEMMA HoldPlace ==
    ASSUME TypeInv, LoopOk, NEW d \in Jobs \cup Stops \cup Viewers, NEW j \in Jobs, NEW x, HoldLoop(d, j, x),
           d \in Jobs => prod[d] = "streaming", prod' = prod, mon' = mon
    PROVE  LoopOk'
<1> DEFINE r == [At("query", j) EXCEPT !.seen = Reread(j), !.code = x]
<1>1. r.pc = "query"
  BY DEF At, Idle
<1>2. closing' = [closing EXCEPT ![d] = r] /\ loop = None /\ loop' = d
  BY DEF HoldLoop, LoopFree
<1> HIDE DEF r
<1>3. d \in Closers
  BY DEF Closers
<1>4. closing'[d] = r /\ \A c \in Closers : c # d => closing'[c] = closing[c]
  BY <1>2, <1>3 DEF TypeInv, TypeOK
<1>5. Place(d, loop', closing'[d], prod', mon')
  BY <1>1, <1>2, <1>4 DEF Place
<1>6. \A c \in Closers : c # d => (loop' = c <=> loop = c)
  BY <1>2, Apart
<1>7. ProdOk(d)
  BY DEF ProdOk
<1> QED
  BY <1>4, <1>5, <1>6, <1>7, OthersStay

(* No closer moves. *)
LEMMA ClosersStay ==
    ASSUME LoopOk, closing' = closing, loop' = loop, mon' = mon, ProdOk(None)
    PROVE  LoopOk'
<1>1. None \notin Closers
  BY JobCompletionAssumption
<1> QED
  BY <1>1, OthersStay

(* A producer is asked for only where there is none. *)
LEMMA EnsurePlace ==
    ASSUME TypeInv, LoopOk, NEW i \in Jobs, ensure_job_producer(i), NEW d
    PROVE  ProdOk(d)
<1> SUFFICES ASSUME NEW j \in Jobs
             PROVE  prod'[j] = prod[j] \/ (loop # j /\ prod[j] \notin {"reconciling", "ending"})
  BY DEF ProdOk
<1>1. Place(j, loop, closing[j], prod, mon)
  BY DEF LoopOk, Closers
<1>2. CASE j = i /\ prod[i] = "off"
  BY <1>1, <1>2 DEF Place
<1>3. CASE ~(j = i /\ prod[i] = "off")
  BY <1>3 DEF ensure_job_producer, TypeInv, TypeOK
<1> QED
  BY <1>2, <1>3
-----------------------------------------------------------------------------
(* One closer is put into the state r while nobody holds the loop, or by   *)
(* its holder.                                                             *)
LEMMA MovePlace ==
    ASSUME TypeInv, LoopOk, NEW d \in Closers, NEW r, closing' = [closing EXCEPT ![d] = r],
           loop' = loop \/ (loop = d /\ loop' = None), mon' = mon \/ d = Monitor, ProdOk(d),
           Place(d, loop', r, prod', mon')
    PROVE  LoopOk'
<1>1. closing'[d] = r /\ \A c \in Closers : c # d => closing'[c] = closing[c]
  BY DEF TypeInv, TypeOK
<1>2. \A c \in Closers : c # d => (loop' = c <=> loop = c)
  BY Apart
<1> QED
  BY <1>1, <1>2, OthersStay

(* The loop has one holder and its closer is the one that persists. *)
LEMMA StepLoop == TypeInv /\ LoopOk /\ [Next]_vars => LoopOk'
<1> SUFFICES ASSUME TypeInv, LoopOk, [Next]_vars PROVE LoopOk'
  OBVIOUS
<1>0. \A c \in Closers : Place(c, loop, closing[c], prod, mon)
  BY DEF LoopOk
<1>1. CASE UNCHANGED <<closing, loop, prod, mon>>
  BY <1>1, ClosersStay DEF ProdOk
<1>2. CASE \E j \in Jobs : \/ StartRecorded(j)
                           \/ \E v \in Viewers : StreamOpens(v, j) \/ StreamWaits(v, j)
  <2> PICK j \in Jobs : \/ StartRecorded(j)
                        \/ \E v \in Viewers : StreamOpens(v, j) \/ StreamWaits(v, j)
    BY <1>2
  <2>1. closing' = closing /\ loop' = loop /\ mon' = mon /\ (ensure_job_producer(j) \/ prod' = prod)
    BY DEF StartRecorded, StreamOpens, StreamWaits
  <2>2. prod' = prod => ProdOk(None)
    BY DEF ProdOk
  <2> QED
    BY <2>1, <2>2, EnsurePlace, ClosersStay
<1>3. CASE \E j \in Jobs : ProducerDies(j)
  <2> PICK j \in Jobs : ProducerDies(j)
    BY <1>3
  <2>1. closing' = closing /\ loop' = loop /\ mon' = mon
    BY DEF ProducerDies
  <2>2. ProdOk(None)
    BY JobCompletionAssumption DEF ProducerDies, LoopFree, ProdOk, TypeInv, TypeOK, Closers
  <2> QED
    BY <2>1, <2>2, ClosersStay
<1>4. CASE \E c \in Closers : LookForDone(c) \/ ReconcileSeesEnd(c)
  <2> PICK c \in Closers : LookForDone(c) \/ ReconcileSeesEnd(c)
    BY <1>4
  <2>1. closing[c] \in Closing /\ loop' = loop /\ prod' = prod /\ mon' = mon
    BY DEF LookForDone, ReconcileSeesEnd, TypeInv, TypeOK
  <2> DEFINE k == closing[c]
  <2>2. PICK r : closing' = [closing EXCEPT ![c] = r] /\ r.pc \in {"query", "commit"}
    <3>1. CASE LookForDone(c)
      <4> DEFINE r == [k EXCEPT !.pc = "commit", !.found = HasDone(k.job)]
      <4>1. r.pc = "commit"
        BY <2>1 DEF Closing
      <4> QED
        BY <3>1, <4>1 DEF LookForDone
    <3>2. CASE ReconcileSeesEnd(c)
      <4> DEFINE r == [k EXCEPT !.pc = "query", !.code = InspectedCode(k.job)]
      <4>1. r.pc = "query"
        BY <2>1 DEF Closing
      <4> QED
        BY <3>2, <4>1 DEF ReconcileSeesEnd
    <3> QED
      BY <3>1, <3>2
  <2>3. k.pc \notin {"idle", "docker"}
    BY DEF LookForDone, ReconcileSeesEnd
  <2> QED
    BY <2>1, <2>2, <2>3, ThreadPlace
<1>5. CASE \E c \in Closers : ReconcileRead(c) \/ ReconcileLeaves(c) \/ ReconcileRaises(c) \/ ReconcileCommit(c)
  <2> PICK c \in Closers : ReconcileRead(c) \/ ReconcileLeaves(c) \/ ReconcileRaises(c) \/ ReconcileCommit(c)
    BY <1>5
  <2>1. loop' = loop /\ prod' = prod /\ mon' = mon
    BY DEF ReconcileRead, ReconcileLeaves, ReconcileRaises, ReconcileCommit
  <2>2. loop # c
    BY <1>0 DEF Place, ReconcileRead, ReconcileLeaves, ReconcileRaises, ReconcileCommit, InThread
  <2>3. closing[c].pc \notin {"idle", "docker"}
    BY DEF ReconcileRead, ReconcileLeaves, ReconcileRaises, ReconcileCommit, Persist
  <2>4. \E r : closing' = [closing EXCEPT ![c] = r]
    BY DEF ReconcileRead, ReconcileLeaves, ReconcileRaises, ReconcileCommit, Return
  <2> QED
    BY <2>1, <2>2, <2>3, <2>4, ThreadPlace
<1>6. CASE \E j \in Jobs : ProducerFinishes(j)
  BY <1>6, HoldPlace DEF ProducerFinishes
<1>7. CASE \E s \in Stops, j \in Jobs : StopRequest(s, j)
  <2> PICK s \in Stops, j \in Jobs : StopRequest(s, j)
    BY <1>7
  <2>1. HoldLoop(s, j, STOPPED_EXIT_CODE) /\ prod' = prod /\ mon' = mon
    BY DEF StopRequest
  <2>2. s \notin Jobs
    BY Apart DEF Closers
  <2> QED
    BY <2>1, <2>2, HoldPlace
<1>8. CASE \E v \in Viewers : DirectFinishes(v) \/ \E j \in Jobs : StreamPersists(v, j)
  <2> PICK v \in Viewers : DirectFinishes(v) \/ \E j \in Jobs : StreamPersists(v, j)
    BY <1>8
  <2>1. PICK j \in Jobs : \E x : HoldLoop(v, j, x)
    BY DEF DirectFinishes, StreamPersists, TypeInv, HasJob, OpenHasJob
  <2>2. v \notin Jobs /\ prod' = prod /\ mon' = mon
    BY Apart DEF Closers, DirectFinishes, StreamPersists
  <2> QED
    BY <2>1, <2>2, HoldPlace
<1>9. CASE \E p \in Pages, j \in Jobs : PageReconciles(p, j)
  <2> PICK p \in Pages, j \in Jobs : PageReconciles(p, j)
    BY <1>9
  <2> DEFINE r == [At("inspect", j) EXCEPT !.seen = row[j]]
  <2>1. p \in Closers /\ p # Monitor /\ p \notin Jobs \cup Stops \cup Viewers
    BY Apart DEF Closers
  <2>2. closing' = [closing EXCEPT ![p] = r] /\ loop' = loop /\ prod' = prod /\ mon' = mon
    BY DEF PageReconciles
  <2> HIDE DEF r
  <2>3. Place(p, loop', r, prod', mon')
    BY <1>0, <2>1, <2>2 DEF Place
  <2>4. ProdOk(p)
    BY <2>2 DEF ProdOk
  <2> QED
    BY <2>1, <2>2, <2>3, <2>4, MovePlace
<1>10. CASE MonitorResumes \/ \E j \in Jobs : MonitorVisits(j)
  <2>1. /\ Monitor \in Closers /\ Monitor \notin Jobs \cup Stops \cup Viewers
        /\ Monitor # None
    BY JobCompletionAssumption DEF Closers
  <2>2. loop = None /\ loop' = loop
    BY <1>10 DEF MonitorResumes, MonitorVisits, LoopFree
  <2>3. PICK r : /\ closing' = [closing EXCEPT ![Monitor] = r]
                 /\ mon' = "visiting" => r.pc = "idle"
    <3>1. MonitorResumes => closing' = [closing EXCEPT ![Monitor] = Idle]
      BY DEF MonitorResumes
    <3>2. \A j : MonitorVisits(j) => /\ closing' = [closing EXCEPT ![Monitor] = At("read", j)]
                                     /\ mon' # "visiting"
      BY DEF MonitorVisits, Dispatch
    <3>3. Idle.pc = "idle"
      BY DEF Idle
    <3> QED
      BY <1>10, <3>1, <3>2, <3>3
  <2>4. Place(Monitor, loop', r, prod', mon')
    BY <2>1, <2>2, <2>3 DEF Place
  <2>5. ProdOk(Monitor)
    <3>1. CASE prod' = prod
      BY <3>1 DEF ProdOk
    <3>2. CASE MonitorResumes /\ ensure_job_producer(closing[Monitor].job)
      <4>1. closing[Monitor].job \in Jobs
        BY <3>2, <2>1 DEF MonitorResumes, Returned, TypeInv, HasJob, BusyHasJob
      <4> QED
        BY <3>2, <4>1, EnsurePlace
    <3> QED
      BY <1>10, <3>1, <3>2 DEF MonitorResumes, MonitorVisits
  <2> QED
    BY <2>1, <2>2, <2>3, <2>4, <2>5, MovePlace
<1>11. CASE \E j \in Jobs : \/ ProducerBegins(j) \/ ProducerResumes(j) \/ ProducerBreaks(j)
                            \/ ProducerCommit(j)
  <2> PICK j \in Jobs : \/ ProducerBegins(j) \/ ProducerResumes(j) \/ ProducerBreaks(j)
                        \/ ProducerCommit(j)
    BY <1>11
  <2>1. j \in Closers /\ j \notin Stops \cup Viewers /\ j # Monitor /\ j # None
    BY Apart DEF Closers
  <2>2. loop' = None /\ loop \in {j, None} /\ mon' = mon
    BY DEF ProducerBegins, ProducerResumes, ProducerBreaks, ProducerCommit, LoopFree
  <2>3. PICK q : prod' = [prod EXCEPT ![j] = q]
    BY DEF ProducerBegins, ProducerResumes, ProducerBreaks, ProducerCommit
  <2>4. ProdOk(j)
    BY <2>3 DEF ProdOk, TypeInv, TypeOK
  <2>5. CASE ProducerBegins(j) /\ closing' = closing
    <3>1. closing' = [closing EXCEPT ![j] = closing[j]]
      BY <2>5 DEF TypeInv, TypeOK
    <3>2. closing[j].pc = "idle"
      BY <1>0, <2>1, <2>5 DEF ProducerBegins, LoopFree, Place
    <3>3. Place(j, loop', closing[j], prod', mon')
      BY <2>1, <2>2, <3>2 DEF Place
    <3> QED
      BY <2>1, <2>2, <2>4, <3>1, <3>3, MovePlace
  <2>6. CASE closing' = [closing EXCEPT ![j] = Idle]
    <3>1. Place(j, loop', Idle, prod', mon')
      BY <2>1, <2>2 DEF Place, Idle
    <3> QED
      BY <2>1, <2>2, <2>4, <2>6, <3>1, MovePlace
  <2>7. CASE Dispatch(j, j) /\ prod'[j] \in {"reconciling", "ending"}
    <3>1. Place(j, loop', At("read", j), prod', mon')
      BY <2>1, <2>2, <2>7 DEF Place
    <3> QED
      BY <2>1, <2>2, <2>4, <2>7, <3>1, MovePlace DEF Dispatch
  <2>8. ProducerBreaks(j) => Dispatch(j, j) /\ prod'[j] = "ending"
    BY DEF ProducerBreaks, TypeInv, TypeOK
  <2>9. ProducerBegins(j) => closing' = closing \/ (Dispatch(j, j) /\ prod'[j] = "reconciling")
    BY DEF ProducerBegins, TypeInv, TypeOK
  <2> QED
    BY <2>5, <2>6, <2>7, <2>8, <2>9 DEF ProducerResumes, ProducerCommit
<1>12. CASE \E s \in Stops : StopCommit(s) \/ StopContainer(s)
  <2> PICK s \in Stops : StopCommit(s) \/ StopContainer(s)
    BY <1>12
  <2>1. s \in Closers /\ s \notin Jobs \cup Viewers /\ s # Monitor /\ s # None
    BY Apart DEF Closers
  <2>2. (loop = s /\ loop' = None) \/ (loop # s /\ loop' = loop)
    BY <1>0, <2>1 DEF StopCommit, StopContainer, Place
  <2>3. PICK r : closing' = [closing EXCEPT ![s] = r] /\ r.pc \in {"idle", "docker"}
    BY RestingStates DEF StopCommit, StopContainer, Idle
  <2>4. prod' = prod /\ mon' = mon
    BY DEF StopCommit, StopContainer
  <2>5. Place(s, loop', r, prod', mon')
    BY <2>1, <2>2, <2>3 DEF Place
  <2>6. ProdOk(s)
    BY <2>4 DEF ProdOk
  <2> QED
    BY <2>1, <2>2, <2>3, <2>4, <2>5, <2>6, MovePlace
<1>13. CASE \E v \in Viewers : StreamCommit(v)
  <2> PICK v \in Viewers : StreamCommit(v)
    BY <1>13
  <2>1. v \in Closers /\ v \notin Jobs \cup Stops /\ v # Monitor /\ v # None
    BY Apart DEF Closers
  <2>2. loop = v /\ loop' = None /\ closing' = [closing EXCEPT ![v] = Idle] /\ prod' = prod /\ mon' = mon
    BY DEF StreamCommit
  <2>3. Place(v, loop', Idle, prod', mon')
    BY <2>1, <2>2 DEF Place, Idle
  <2>4. ProdOk(v)
    BY <2>2 DEF ProdOk
  <2> QED
    BY <2>1, <2>2, <2>3, <2>4, MovePlace
<1>14. CASE Restart
  BY <1>14, JobCompletionAssumption DEF Restart, LoopOk, Place, Idle
<1> QED
  BY <1>1, <1>2, <1>3, <1>4, <1>5, <1>6, <1>7, <1>8, <1>9, <1>10, <1>11, <1>12, <1>13, <1>14
  DEF Next, vars, hubVars, JobStep, StreamStep, StopStep, ThreadStep, ContainerExits,
      ContainerRemoved, Submit, StartContainer, StartRefused, MonitorLists,
      StreamDelivers, StreamDrops

(* The loop is taken by a closer that was at rest, for a job with an id. *)
LEMMA TakesLoop ==
    ASSUME TypeInv, NEW d \in Closers, NEW j \in Jobs, NEW x, HoldLoop(d, j, x),
           closing[d].pc = "idle", HasId(j)
    PROVE  LoopMoves
<1> DEFINE r == [At("query", j) EXCEPT !.seen = Reread(j), !.code = x]
<1>1. r.job = j
  BY DEF At, Idle
<1>2. closing' = [closing EXCEPT ![d] = r] /\ loop = None /\ loop' = d
  BY DEF HoldLoop, LoopFree
<1> HIDE DEF r
<1>3. closing'[d] = r
  BY <1>2 DEF TypeInv, TypeOK
<1> QED
  BY <1>1, <1>2, <1>3 DEF LoopMoves

LEMMA StepLoopMoves == TypeInv /\ LoopOk /\ StreamsOk /\ [Next]_vars => LoopMoves
<1> SUFFICES ASSUME TypeInv, LoopOk, StreamsOk, [Next]_vars PROVE LoopMoves
  OBVIOUS
<1>0. \A c \in Closers : c # None /\ Place(c, loop, closing[c], prod, mon)
  BY Apart DEF LoopOk
<1>1. CASE loop' = loop
  BY <1>1 DEF LoopMoves
<1>2. CASE \E j \in Jobs : ProducerFinishes(j)
  <2> PICK j \in Jobs : ProducerFinishes(j)
    BY <1>2
  <2>1. j \in Closers /\ HasId(j)
    BY DEF StreamsOk, ProducerFinishes, Closers, HasId
  <2>2. closing[j].pc = "idle"
    BY <1>0, <2>1 DEF Place, ProducerFinishes, HoldLoop, LoopFree
  <2> QED
    BY <2>1, <2>2, TakesLoop DEF ProducerFinishes
<1>3. CASE \E s \in Stops, j \in Jobs : StopRequest(s, j)
  BY <1>3, TakesLoop DEF StopRequest, Closers, HasId, Running
<1>4. CASE \E v \in Viewers : DirectFinishes(v) \/ \E j \in Jobs : StreamPersists(v, j)
  <2> PICK v \in Viewers : DirectFinishes(v) \/ \E j \in Jobs : StreamPersists(v, j)
    BY <1>4
  <2>1. PICK j \in Jobs : HasId(j) /\ \E x : HoldLoop(v, j, x)
    <3>1. CASE DirectFinishes(v)
      BY <3>1 DEF DirectFinishes, StreamsOk, TypeInv, HasJob, OpenHasJob
    <3>2. CASE \E j \in Jobs : StreamPersists(v, j)
      BY <3>2 DEF StreamPersists, HasId, Terminal, Verdicts
    <3> QED
      BY <3>1, <3>2
  <2>2. v \in Closers /\ closing[v].pc = "idle"
    BY <1>0, <2>1 DEF Place, Closers, HoldLoop, LoopFree
  <2> QED
    BY <2>1, <2>2, TakesLoop
<1>5. CASE \E c \in Closers : \/ c \in Jobs /\ ProducerCommit(c)
                              \/ c \in Stops /\ StopCommit(c)
                              \/ c \in Viewers /\ StreamCommit(c)
  <2> PICK c \in Closers : \/ c \in Jobs /\ ProducerCommit(c)
                           \/ c \in Stops /\ StopCommit(c)
                           \/ c \in Viewers /\ StreamCommit(c)
    BY <1>5
  <2>1. Commits(c)
    BY CommitsAre
  <2>2. loop = c
    BY DEF ProducerCommit, StopCommit, StreamCommit
  <2> QED
    BY <1>0, <2>1, <2>2 DEF Commits, LoopMoves
<1>6. CASE Restart
  <2>1. loop' = None
    BY <1>6 DEF Restart
  <2>2. CASE loop = None
    BY <2>1, <2>2 DEF LoopMoves
  <2>3. CASE loop \in Closers
    BY <1>0, <1>6, <2>1, <2>3, RestingStates DEF Restart, LoopMoves
  <2> QED
    BY <2>2, <2>3 DEF TypeInv, TypeOK
<1> QED
  BY <1>1, <1>2, <1>3, <1>4, <1>5, <1>6
  DEF Next, vars, hubVars, JobStep, StreamStep, StopStep, ThreadStep, Closers, ContainerExits,
      ContainerRemoved, Submit, StartContainer, StartRecorded, StartRefused, MonitorVisits,
      ProducerBegins, ProducerResumes, ProducerBreaks, ProducerDies, PageReconciles,
      LookForDone, ReconcileRead, ReconcileLeaves, ReconcileRaises, ReconcileSeesEnd, ReconcileCommit,
      StreamOpens, StreamWaits, StreamDelivers, StreamDrops, StopContainer, MonitorLists,
      MonitorResumes
-----------------------------------------------------------------------------
(***************************************************************************)
(* The rows and their events.                                              *)
(***************************************************************************)
(* The verdict of c's container is on record, with an event.  The copy of  *)
(* the row that c holds is old, but what is written of it is not.          *)
Wrote(c, j) ==
    /\ Writes(c) /\ c \in Closers_OnIt(j) /\ row[j].cid
    /\ row' = [row EXCEPT ![j] = Closed(row[j], closing[c].code)]
    /\ \/ done[j] # << >> /\ done' = done
       \/ done' = [done EXCEPT ![j] = Append(@, DoneEvent(Closed(row[j], closing[c].code)))]

(* A closed job without an event is given one. *)
Answered(c, j) ==
    /\ ~Writes(c) /\ row[j].status = "error" /\ done[j] = << >>
    /\ row' = row
    /\ done' = [done EXCEPT ![j] = <<DoneEvent(row[j])>>]

LEMMA PersistIs ==
    ASSUME LedgerInv, NEW c \in Closers, Persist(c)
    PROVE  /\ closing[c].job \in Jobs /\ closing[c].code \in Codes
           /\ closing[c].pc = "commit"
           /\ \/ Wrote(c, closing[c].job)
              \/ Answered(c, closing[c].job)
              \/ ~Writes(c) /\ row' = row /\ done' = done
<1> DEFINE j == closing[c].job
           k == closing[c]
<1>1. /\ j \in Jobs /\ k.pc = "commit" /\ k \in Closing
      /\ row \in [Jobs -> Row] /\ done \in [Jobs -> Seq(Done)]
  BY DEF LedgerInv, DurableInv, TypeInv, TypeOK, HasJob, BusyHasJob, Persist
<1>2. /\ CloserOk(c) /\ (k.found => done[j] # << >>) /\ k.pc \in Busy
      /\ k.seen \in Row /\ k.code \in Codes /\ row[j] \in Row /\ done[j] \in Seq(Done)
  BY <1>1 DEF LedgerInv, DurableInv, ClosersKnow, ClosersOk, Busy, Closing
<1>3. CASE Writes(c)
  <2>1. c \in Closers_OnIt(j) /\ row[j].cid
    BY <1>1, <1>2, <1>3 DEF Closers_OnIt, CloserOk, Writes
  <2> DEFINE s == status_for_exit_code(k.code)
  <2>2. Verdict(c).status = s /\ Verdict(c).exit = k.code
    BY <1>2, <1>3 DEF Verdict, Closed, Row
  <2>3. Closed(row[j], k.code) = [row[j] EXCEPT !.status = s, !.exit = k.code]
    BY DEF Closed
  <2>4. row' = [row EXCEPT ![j].status = s, ![j].exit = k.code]
    BY <1>3, <2>2 DEF Persist
  <2>5. row' = [row EXCEPT ![j] = Closed(row[j], k.code)]
    <3> HIDE DEF s
    <3> QED
      BY <1>1, <2>3, <2>4
  <2>6. DoneEvent(Verdict(c)) = DoneEvent(Closed(row[j], k.code))
    <3>1. Closed(row[j], k.code).status = s /\ Closed(row[j], k.code).exit = k.code
      BY <1>2, <2>3 DEF Row
    <3> QED
      BY <2>2, <3>1 DEF DoneEvent
  <2>7. done' = WithDone(c)
    BY DEF Persist
  <2>8. \/ done[j] # << >> /\ done' = done
        \/ done' = [done EXCEPT ![j] = Append(@, DoneEvent(Closed(row[j], k.code)))]
    BY <1>2, <2>6, <2>7 DEF WithDone
  <2> QED
    BY <1>1, <1>2, <1>3, <2>1, <2>5, <2>8 DEF Wrote
<1>4. CASE ~Writes(c)
  <2>1. row' = row /\ Verdict(c) = k.seen /\ done' = WithDone(c)
    BY <1>4 DEF Persist, Verdict
  <2>2. CASE k.found
    BY <1>1, <1>2, <1>4, <2>1, <2>2 DEF WithDone
  <2>3. CASE ~k.found
    <3>1. row[j].status = "error" /\ done[j] = << >> /\ k.seen = row[j]
      BY <1>1, <1>2, <1>4, <2>3 DEF CloserOk, Writes
    <3>2. done' = [done EXCEPT ![j] = Append(@, DoneEvent(row[j]))]
      BY <2>1, <2>3, <3>1 DEF WithDone
    <3>3. Append(done[j], DoneEvent(row[j])) = <<DoneEvent(row[j])>>
      BY <3>1
    <3>4. done' = [done EXCEPT ![j] = <<DoneEvent(row[j])>>]
      BY <1>1, <3>2, <3>3
    <3> QED
      BY <1>1, <1>2, <1>4, <2>1, <3>1, <3>4 DEF Answered
  <2> QED
    BY <2>2, <2>3
<1> QED
  BY <1>3, <1>4

(* Nothing is left for mark_legacy_stopped_jobs to do. *)
LEMMA RestartKeeps ==
    ASSUME LedgerInv, Restart
    PROVE  row' = row /\ done' = done
<1>1. row \in [Jobs -> Row] /\ done \in [Jobs -> Seq(Done)] /\ \A j \in Jobs : ~LegacyStop(row[j])
  BY DEF LedgerInv, DurableInv, TypeInv, TypeOK, RowsOk, TrueOk
<1>2. row' = [j \in Jobs |-> IF LegacyStop(row[j]) THEN AsStopped(row[j]) ELSE row[j]]
  BY DEF Restart, mark_legacy_stopped_jobs
<1>3. row' = row
  BY <1>1, <1>2
<1>4. done' = [j \in Jobs |-> [i \in 1..Len(done[j]) |->
                  IF LegacyStop(row[j]) /\ done[j][i].status = "failed"
                  THEN AsStopped(done[j][i]) ELSE done[j][i]]]
  BY DEF Restart, mark_legacy_stopped_jobs
<1>5. ASSUME NEW j \in Jobs
      PROVE  [i \in 1..Len(done[j]) |->
                  IF LegacyStop(row[j]) /\ done[j][i].status = "failed"
                  THEN AsStopped(done[j][i]) ELSE done[j][i]] = done[j]
  <2>1. done[j] \in Seq(Done) /\ ~LegacyStop(row[j])
    BY <1>1
  <2>2. done[j] = [i \in 1..Len(done[j]) |-> done[j][i]]
    BY <2>1
  <2> QED
    BY <2>1, <2>2
<1>6. done' = [j \in Jobs |-> done[j]]
  BY <1>4, <1>5
<1> QED
  BY <1>1, <1>3, <1>6

(* What a step does to one job. *)
Same(j) == row'[j] = row[j] /\ done'[j] = done[j]

Changes(j) ==
    \/ Same(j)
    \/ /\ \/ row[j].status = "absent" /\ row'[j] = NewRow
          \/ row[j] = NewRow /\ start[j] = "launched" /\ row'[j] = [NewRow EXCEPT !.cid = TRUE]
          \/ row[j] = NewRow /\ row'[j] = [NewRow EXCEPT !.status = "error", !.exit = UnknownCode]
       /\ done'[j] = done[j]
       /\ UNCHANGED <<raced, closing, loop, box, code>>
    \/ \E c \in Closers : Commits(c) /\ (Wrote(c, j) \/ Answered(c, j))

LEMMA JobChanges ==
    ASSUME LedgerInv, [Next]_vars, NEW j \in Jobs
    PROVE  Changes(j)
<1>0. Kinds /\ row \in [Jobs -> Row] /\ done \in [Jobs -> Seq(Done)]
  BY StepKinds DEF LedgerInv, DurableInv, TypeInv, TypeOK
<1>1. CASE Quiet \/ \E i \in Jobs : Boxes(i)
  BY <1>1 DEF Quiet, Boxes, Changes, Same
<1>2. CASE Restart
  BY <1>2, RestartKeeps DEF Changes, Same
<1>3. CASE \E c \in Closers : Commits(c)
  <2> PICK c \in Closers : Commits(c)
    BY <1>3
  <2> DEFINE i == closing[c].job
  <2>1. i \in Jobs /\ (Wrote(c, i) \/ Answered(c, i) \/ (row' = row /\ done' = done))
    BY PersistIs DEF Commits
  <2>2. CASE j = i
    BY <2>1, <2>2 DEF Changes, Same
  <2>3. CASE j # i
    BY <1>0, <2>1, <2>3 DEF Wrote, Answered, Changes, Same
  <2> QED
    BY <2>2, <2>3
<1>4. CASE \E i \in Jobs : Starts(i)
  <2> PICK i \in Jobs : Starts(i)
    BY <1>4
  <2>1. StartOk(i) /\ StartOk(j) /\ row[i] \in Row
    BY <1>0 DEF LedgerInv, RowsOk
  <2>2. CASE Submit(i)
    BY <1>0, <2>2 DEF Submit, Changes, Same
  <2>3. CASE StartContainer(i)
    BY <2>3 DEF StartContainer, Changes, Same
  <2>4. CASE StartRecorded(i)
    <3>1. row[i] = NewRow
      BY <2>1, <2>4 DEF StartOk, StartRecorded
    <3>2. row' = [row EXCEPT ![i] = [NewRow EXCEPT !.cid = TRUE]]
      BY <1>0, <2>4, <3>1 DEF StartRecorded
    <3>3. done' = done /\ start[i] = "launched" /\ UNCHANGED <<raced, closing, loop, box, code>>
      BY <2>4 DEF StartRecorded
    <3> QED
      BY <1>0, <3>1, <3>2, <3>3 DEF Changes, Same
  <2>5. CASE StartRefused(i)
    <3>1. row[i] = NewRow
      BY <2>1, <2>5 DEF StartOk, StartRefused
    <3>2. row' = [row EXCEPT ![i] = [NewRow EXCEPT !.status = "error", !.exit = UnknownCode]]
      BY <1>0, <2>5, <3>1 DEF StartRefused
    <3>3. done' = done /\ UNCHANGED <<raced, closing, loop, box, code>>
      BY <2>5 DEF StartRefused
    <3> QED
      BY <1>0, <3>1, <3>2, <3>3 DEF Changes, Same
  <2> QED
    BY <2>2, <2>3, <2>4, <2>5 DEF Starts
<1> QED
  BY <1>0, <1>1, <1>2, <1>3, <1>4 DEF Kinds

(* What is written: the row's verdict, its code and its id. *)
LEMMA ClosedIs ==
    ASSUME NEW r \in Row, NEW x \in Codes
    PROVE  /\ Closed(r, x).status = status_for_exit_code(x) /\ Closed(r, x).exit = x
           /\ Closed(r, x).cid = r.cid
           /\ Closed(r, x).status \in Verdicts
BY VerdictOfCode DEF Closed, Row

(* A container that has ended stays ended, with its code. *)
LEMMA EndedStays ==
    ASSUME LedgerInv, [Next]_vars, NEW j \in Jobs, Ended(j)
    PROVE  Ended(j)' /\ code'[j] = code[j]
<1>1. Kinds
  BY StepKinds DEF LedgerInv, DurableInv
<1>2. CASE UNCHANGED <<box, code>>
  BY <1>2 DEF Ended
<1>3. CASE \E i \in Jobs : Boxes(i)
  BY <1>3 DEF Boxes, Ended
<1>4. CASE \E i \in Jobs : StartContainer(i)
  <2> PICK i \in Jobs : StartContainer(i)
    BY <1>4
  <2>1. box[i] = "none"
    BY DEF StartContainer, LedgerInv, RowsOk, StartOk
  <2>2. i # j
    BY <2>1 DEF Ended
  <2> QED
    BY <2>2 DEF StartContainer, Ended, LedgerInv, DurableInv, TypeInv, TypeOK
<1> QED
  BY <1>1, <1>2, <1>3, <1>4
  DEF Kinds, Quiet, Restart, Commits, Starts, Submit, StartRecorded, StartRefused

(* The container id stays, a row with an "error" stays as it is, and a     *)
(* running row has been in place before.                                   *)
LEMMA RowStays ==
    ASSUME LedgerInv, [Next]_vars, NEW j \in Jobs
    PROVE  /\ row[j].cid => row'[j].cid
           /\ row[j].status = "error" => row'[j] = row[j]
           /\ row'[j].status = "running" => \/ row'[j] = row[j]
                                            \/ row[j].status = "absent"
                                            \/ row'[j].cid
           /\ row'[j].status = "error" => row'[j] = row[j] \/ row[j] = NewRow
<1>1. Changes(j) /\ row[j] \in Row /\ StartOk(j)
  BY JobChanges DEF LedgerInv, DurableInv, TypeInv, TypeOK, RowsOk
<1>2. CASE Same(j)
  BY <1>2 DEF Same
<1>3. CASE row[j].status = "absent" /\ row'[j] = NewRow
  BY <1>1, <1>3 DEF NewRow, StartOk
<1>4. CASE row[j] = NewRow /\ row'[j] \in {[NewRow EXCEPT !.cid = TRUE],
                                           [NewRow EXCEPT !.status = "error", !.exit = UnknownCode]}
  <2>1. ~row[j].cid /\ row[j].status = "running"
    BY <1>4 DEF NewRow
  <2>2. row'[j].status = "error" \/ (row'[j].status = "running" /\ row'[j].cid)
    BY <1>4 DEF NewRow
  <2> QED
    BY <1>4, <2>1, <2>2
<1>5. CASE \E c \in Closers : Commits(c) /\ (Wrote(c, j) \/ Answered(c, j))
  <2> PICK c \in Closers : Commits(c) /\ (Wrote(c, j) \/ Answered(c, j))
    BY <1>5
  <2>1. CASE Wrote(c, j)
    <3>1. row'[j] = Closed(row[j], closing[c].code) /\ row[j].cid
      BY <2>1 DEF Wrote, LedgerInv, DurableInv, TypeInv, TypeOK
    <3>2. closing[c].code \in Codes
      BY PersistIs DEF Commits
    <3>3. row[j].status # "error"
      BY <1>1, <3>1 DEF StartOk
    <3> QED
      BY <1>1, <3>1, <3>2, <3>3, ClosedIs DEF Verdicts
  <2>2. CASE Answered(c, j)
    BY <2>2 DEF Answered
  <2> QED
    BY <2>1, <2>2
<1> QED
  BY <1>1, <1>2, <1>3, <1>4, <1>5 DEF Changes
-----------------------------------------------------------------------------
(***************************************************************************)
(* The rows stay right.                                                    *)
(***************************************************************************)
(* The rows and the stops are told apart from exit codes. *)
LEMMA CodesApart ==
    /\ STOPPED_EXIT_CODE \notin ContainerCodes /\ UnknownCode \notin ContainerCodes
    /\ None \notin ContainerCodes
    /\ status_for_exit_code(STOPPED_EXIT_CODE) = "stopped"
    /\ \A x \in ContainerCodes \cup {UnknownCode} :
          status_for_exit_code(x) = IF x = 0 THEN "success" ELSE "failed"
<1>1. /\ STOPPED_EXIT_CODE \notin ContainerCodes /\ UnknownCode \notin ContainerCodes
      /\ None \notin ContainerCodes
  <2>1. \A x \in ContainerCodes : x \in 0..255
    BY JobRowsAssumption
  <2>2. STOPPED_EXIT_CODE \notin 0..255 /\ UnknownCode \notin 0..255
    OBVIOUS
  <2>3. \A x \in ContainerCodes : x \in Int
    BY <2>1
  <2> QED
    BY <2>1, <2>2, <2>3, JobRowsAssumption, Zenon
<1>2. status_for_exit_code(STOPPED_EXIT_CODE) = "stopped"
  BY DEF status_for_exit_code
<1>3. ASSUME NEW x \in ContainerCodes \cup {UnknownCode}
      PROVE  status_for_exit_code(x) = IF x = 0 THEN "success" ELSE "failed"
  <2>1. x # STOPPED_EXIT_CODE
    BY <1>1
  <2> QED
    BY <2>1 DEF status_for_exit_code
<1> QED
  BY <1>1, <1>2, <1>3

(* A verdict that is written tells what the container left, or is a stop. *)
LEMMA WroteTrue ==
    ASSUME LedgerInv, NEW c \in Closers, NEW j \in Jobs, Commits(c), Wrote(c, j)
    PROVE  /\ row[j] \in Row /\ row'[j] = Closed(row[j], closing[c].code)
           /\ closing[c].code \in Codes
           /\ \/ closing[c].code = STOPPED_EXIT_CODE /\ loop = c
              \/ /\ Ended(j) /\ closing[c].code \in {code[j], UnknownCode}
                 /\ closing[c].code \in ContainerCodes \cup {UnknownCode}
<1>1. /\ row \in [Jobs -> Row] /\ code \in [Jobs -> ContainerCodes \cup {UnknownCode}]
      /\ CloserOk(c)
  BY DEF LedgerInv, DurableInv, TypeInv, TypeOK, ClosersOk
<1>2. /\ closing[c].job = j /\ closing[c].seen.status = "running"
      /\ row'[j] = Closed(row[j], closing[c].code)
  BY <1>1 DEF Wrote, Closers_OnIt
<1>3. closing[c].pc = "commit" /\ closing[c].code \in Codes
  BY PersistIs DEF Commits
<1>4. \/ closing[c].code = STOPPED_EXIT_CODE /\ loop = c
      \/ Ended(j) /\ closing[c].code \in StreamCodes(j)
  BY <1>1, <1>2, <1>3 DEF CloserOk, Busy
<1> QED
  BY <1>1, <1>2, <1>3, <1>4 DEF StreamCodes

LEMMA StepRows == LedgerInv /\ [Next]_vars => RowsOk'
<1> SUFFICES ASSUME LedgerInv, [Next]_vars, NEW j \in Jobs
             PROVE  StartOk(j)' /\ TrueOk(j)'
  BY DEF RowsOk
<1>0. /\ row \in [Jobs -> Row] /\ row[j] \in Row /\ StartOk(j) /\ TrueOk(j)
      /\ box \in [Jobs -> {"none", "running", "exited", "gone"}]
      /\ code \in [Jobs -> ContainerCodes \cup {UnknownCode}]
      /\ start \in [Jobs -> {"idle", "launching", "launched", "refused", "over"}]
  BY DEF LedgerInv, DurableInv, TypeInv, TypeOK, RowsOk
<1>1. CASE /\ UNCHANGED <<row, box, code>>
           /\ \/ start' = start
              \/ start' = [i \in Jobs |-> IF start[i] = "idle" THEN "idle" ELSE "over"]
  BY <1>0, <1>1 DEF StartOk, TrueOk, Ended
<1>2. CASE \E c \in Closers : Commits(c) /\ row'[j] # row[j]
  <2> PICK c \in Closers : Commits(c) /\ row'[j] # row[j]
    BY <1>2
  <2> DEFINE x == closing[c].code
  <2>1. Wrote(c, j)
    <3>1. row' # row
      OBVIOUS
    <3>2. Wrote(c, closing[c].job)
      BY <3>1, PersistIs DEF Commits, Answered
    <3>3. closing[c].job = j
      BY <1>0, <3>2 DEF Wrote
    <3> QED
      BY <3>2, <3>3
  <2>2. /\ row'[j].status = status_for_exit_code(x) /\ row'[j].exit = x /\ row'[j].cid = row[j].cid
        /\ row'[j].status \in Verdicts /\ row[j].cid
        /\ \/ x = STOPPED_EXIT_CODE
           \/ Ended(j) /\ x \in {code[j], UnknownCode} /\ x \in ContainerCodes \cup {UnknownCode}
    <3>1. /\ row'[j] = Closed(row[j], x) /\ x \in Codes /\ row[j].cid
          /\ \/ x = STOPPED_EXIT_CODE
             \/ Ended(j) /\ x \in {code[j], UnknownCode} /\ x \in ContainerCodes \cup {UnknownCode}
      BY <2>1, WroteTrue DEF Wrote
    <3> HIDE DEF x
    <3>2. /\ Closed(row[j], x).status = status_for_exit_code(x) /\ Closed(row[j], x).exit = x
          /\ Closed(row[j], x).cid = row[j].cid /\ Closed(row[j], x).status \in Verdicts
      BY <1>0, <3>1, ClosedIs
    <3> QED
      BY <3>1, <3>2
  <2>3. UNCHANGED <<box, code, start>>
    BY DEF Commits
  <2>4. StartOk(j)'
    BY <1>0, <2>2, <2>3 DEF StartOk, Verdicts
  <2>5. TrueOk(j)'
    <3>1. CASE x = STOPPED_EXIT_CODE
      BY <2>2, <3>1, CodesApart DEF TrueOk, LegacyStop
    <3>2. CASE x # STOPPED_EXIT_CODE
      <4>1. /\ Ended(j)' /\ code' = code /\ x \in {code[j], UnknownCode}
            /\ row'[j].status = (IF x = 0 THEN "success" ELSE "failed")
        BY <2>2, <2>3, <3>2, CodesApart DEF Ended
      <4>2. UnknownCode # 0 /\ UnknownCode \notin ContainerCodes
        BY CodesApart
      <4>3. row'[j].exit # STOPPED_EXIT_CODE
        BY <2>2, <3>2
      <4> QED
        BY <2>2, <4>1, <4>2, <4>3 DEF TrueOk, LegacyStop
    <3> QED
      BY <3>1, <3>2
  <2> QED
    BY <2>4, <2>5
<1>3. CASE \E c \in Closers : Commits(c) /\ row'[j] = row[j]
  BY <1>0, <1>3 DEF Commits, StartOk, TrueOk, Ended
<1>4. CASE \E i \in Jobs : Starts(i)
  <2> PICK i \in Jobs : Starts(i)
    BY <1>4
  <2>0. StartOk(i) /\ row[i] \in Row
    BY <1>0 DEF LedgerInv, RowsOk
  <2>1. CASE i # j
    <3>1. row'[j] = row[j] /\ box'[j] = box[j] /\ code' = code /\ start'[j] = start[j]
      BY <1>0, <2>1 DEF Starts, Submit, StartContainer, StartRecorded, StartRefused
    <3> QED
      BY <1>0, <3>1 DEF StartOk, TrueOk, Ended
  <2>2. CASE i = j /\ Submit(j)
    <3>1. row'[j] = NewRow /\ box' = box /\ code' = code /\ start'[j] = "launching" /\ start[j] = "idle"
      BY <1>0, <2>2 DEF Submit, StartOk
    <3> QED
      BY <1>0, <3>1, CodesApart DEF StartOk, TrueOk, NewRow, LegacyStop
  <2>3. CASE i = j /\ StartContainer(j)
    <3>1. /\ row[j] = NewRow /\ row' = row /\ start[j] = "launching"
          /\ start'[j] \in {"launched", "refused", "over"}
      BY <1>0, <2>3 DEF StartContainer, StartOk
    <3> QED
      BY <1>0, <3>1, CodesApart DEF StartOk, TrueOk, NewRow, LegacyStop
  <2>4. CASE i = j /\ (StartRecorded(j) \/ StartRefused(j))
    <3>1. /\ row[j] = NewRow /\ UNCHANGED <<box, code>> /\ start'[j] = "over"
          /\ row'[j].status \in {"running", "error"} /\ row'[j].exit \in {None, UnknownCode}
          /\ row'[j].status = "error" => ~row'[j].cid
      BY <1>0, <2>4 DEF StartRecorded, StartRefused, StartOk, NewRow
    <3> QED
      BY <3>1, CodesApart DEF StartOk, TrueOk, LegacyStop
  <2> QED
    BY <2>1, <2>2, <2>3, <2>4 DEF Starts
<1>5. CASE \E i \in Jobs : Boxes(i)
  BY <1>0, <1>5 DEF Boxes, StartOk, TrueOk, Ended
<1>6. Kinds
  BY StepKinds DEF LedgerInv, DurableInv
<1>7. CASE Restart
  BY <1>1, <1>7, RestartKeeps DEF Restart
<1> QED
  BY <1>1, <1>2, <1>3, <1>4, <1>5, <1>6, <1>7 DEF Kinds, Quiet

(* A stream and a producer keep to jobs with a container. *)
LEMMA StepStreams == LedgerInv /\ [Next]_vars => StreamsOk'
<1> SUFFICES ASSUME LedgerInv, [Next]_vars PROVE StreamsOk'
  OBVIOUS
<1>0. /\ OpenHasRow /\ StreamsOk
      /\ stream \in [Viewers -> [pc : StreamPc, job : Jobs \cup {None}]]
      /\ prod \in [Jobs -> {"off", "starting", "reconciling", "streaming", "ending"}]
  BY DEF LedgerInv, DurableInv, TypeInv, TypeOK
<1>1. ASSUME NEW j \in Jobs, row[j].status # "absent", HasId(j)
      PROVE  row'[j].status = "running" => row'[j].cid
  BY <1>1, RowStays DEF HasId
<1>2. ASSUME NEW v \in Viewers, stream'[v].pc # "closed"
      PROVE  row'[stream'[v].job].status = "running" => row'[stream'[v].job].cid
  <2>1. CASE stream'[v].job = stream[v].job /\ stream[v].pc # "closed"
    <3>1. stream[v].job \in Jobs
      BY <2>1 DEF LedgerInv, DurableInv, TypeInv, HasJob, OpenHasJob
    <3> QED
      BY <1>0, <1>1, <2>1, <3>1 DEF OpenHasRow, StreamsOk
  <2>2. CASE \E w \in Viewers, j \in Jobs : StreamOpens(w, j)
    <3> PICK w \in Viewers, j \in Jobs : StreamOpens(w, j)
      BY <2>2
    <3>1. row[j].status # "absent" /\ HasId(j)
      BY DEF StreamOpens, HasId
    <3>2. CASE v = w
      <4>1. stream'[v].job = j
        BY <1>0, <3>2 DEF StreamOpens
      <4> QED
        BY <1>1, <3>1, <4>1
    <3>3. CASE v # w
      BY <1>0, <1>2, <2>1, <3>3 DEF StreamOpens
    <3> QED
      BY <3>2, <3>3
  <2>3. CASE \E w \in Viewers : StreamDrops(w) \/ StreamCommit(w)
                                 \/ \E j \in Jobs : StreamDelivers(w, j)
    <3>1. PICK w \in Viewers : stream' = stream \/ stream' = [stream EXCEPT ![w] = NoStream]
      BY <2>3 DEF StreamDrops, StreamCommit, StreamDelivers, StreamEnds
    <3>2. stream'[v] = stream[v] \/ stream'[v] = NoStream
      BY <1>0, <3>1
    <3>3. NoStream.pc = "closed"
      BY DEF NoStream
    <3> QED
      BY <1>2, <2>1, <3>2, <3>3
  <2>4. CASE \E w \in Viewers, j \in Jobs : StreamWaits(w, j)
    <3> PICK w \in Viewers, j \in Jobs : StreamWaits(w, j)
      BY <2>4
    <3>1. stream'[v].job = stream[v].job /\ (stream'[v] = stream[v] \/ v = w)
      BY <1>0 DEF StreamWaits
    <3>2. stream[w].pc = "polling"
      BY DEF StreamWaits, Polling
    <3> QED
      BY <1>2, <2>1, <3>1, <3>2
  <2>5. CASE Restart
    BY <1>2, <2>5 DEF Restart, NoStream
  <2>6. CASE UNCHANGED stream
    BY <1>2, <2>1, <2>6
  <2> QED
    BY <2>2, <2>3, <2>4, <2>5, <2>6
    DEF Next, vars, hubVars, JobStep, StreamStep, StopStep, ThreadStep, LookForDone,
        ContainerExits, ContainerRemoved, Submit, StartContainer, StartRecorded, StartRefused,
        MonitorVisits, ProducerBegins, ProducerResumes, ProducerBreaks, ProducerDies,
        ProducerFinishes, ProducerCommit, PageReconciles, StopRequest, ReconcileRead,
        ReconcileLeaves, ReconcileRaises, ReconcileSeesEnd, ReconcileCommit, StreamPersists, DirectFinishes,
        StopCommit, StopContainer, MonitorLists, MonitorResumes
<1>3. ASSUME NEW j \in Jobs, prod'[j] \notin {"off", "starting"}
      PROVE  row'[j].cid
  <2>1. CASE prod[j] \notin {"off", "starting"}
    BY <1>0, <2>1, RowStays DEF StreamsOk
  <2>2. CASE ProducerBegins(j)
    BY <1>0, <1>3, <2>2, RowStays DEF ProducerBegins, Running
  <2>4. CASE \E i : ensure_job_producer(i)
    BY <1>0, <1>3, <2>1, <2>4 DEF ensure_job_producer
  <2>5. CASE prod' = prod
    BY <1>3, <2>1, <2>5
  <2>6. CASE \E i \in Jobs : \/ ProducerBegins(i) \/ ProducerResumes(i) \/ ProducerBreaks(i)
                             \/ ProducerDies(i) \/ ProducerCommit(i)
    <3> PICK i \in Jobs : \/ ProducerBegins(i) \/ ProducerResumes(i) \/ ProducerBreaks(i)
                          \/ ProducerDies(i) \/ ProducerCommit(i)
      BY <2>6
    <3>1. CASE i # j
      <4>1. PICK q : prod' = [prod EXCEPT ![i] = q]
        BY DEF ProducerBegins, ProducerResumes, ProducerBreaks, ProducerDies, ProducerCommit
      <4>2. prod'[j] = prod[j]
        BY <1>0, <3>1, <4>1
      <4> QED
        BY <1>3, <2>1, <4>2
    <3>2. CASE i = j
      <4>1. ProducerResumes(j) \/ ProducerBreaks(j) => prod[j] \notin {"off", "starting"}
        BY DEF ProducerResumes, ProducerBreaks
      <4>2. ProducerDies(j) \/ ProducerCommit(j) => prod'[j] = "off"
        BY <1>0 DEF ProducerDies, ProducerCommit
      <4> QED
        BY <1>3, <2>1, <2>2, <3>2, <4>1, <4>2
    <3> QED
      BY <3>1, <3>2
  <2>7. CASE Restart
    BY <1>3, <2>7 DEF Restart
  <2>8. CASE \E i \in Jobs : JobStep(i)
    BY <2>4, <2>5, <2>6, <2>8
    DEF JobStep, hubVars, ContainerExits, ContainerRemoved, Submit, StartContainer, StartRecorded,
        StartRefused, MonitorVisits, ProducerFinishes, PageReconciles, StopRequest
  <2>9. CASE \/ \E c \in Closers : LookForDone(c) \/ ThreadStep(c)
             \/ \E v \in Viewers : StreamStep(v)
    BY <2>4, <2>5, <2>9
    DEF StreamStep, ThreadStep, LookForDone, ReconcileRead, ReconcileLeaves, ReconcileRaises, ReconcileSeesEnd,
        ReconcileCommit, StreamOpens, StreamWaits, StreamPersists, StreamDelivers, StreamDrops,
        StreamCommit, DirectFinishes
  <2> QED
    BY <2>4, <2>5, <2>7, <2>8, <2>9
    DEF Next, vars, hubVars, StopStep, StopCommit, StopContainer, MonitorLists, MonitorResumes
<1> QED
  BY <1>2, <1>3 DEF StreamsOk, HasId
-----------------------------------------------------------------------------
(***************************************************************************)
(* The closers.                                                            *)
(***************************************************************************)
(* Who holds the loop in the middle of a persist goes on holding it.       *)
LEMMA StaysOnLoop ==
    ASSUME LoopMoves, NEW c \in Closers, closing'[c].pc \in Busy, closing[c].pc \in Busy
    PROVE  loop' = c <=> loop = c
<1>1. closing[c].pc # "idle"
  BY DEF Busy
<1>2. None \notin Closers
  BY JobCompletionAssumption
<1> QED
  BY <1>1, <1>2 DEF LoopMoves

(* What a closer saw of a row that is not running is not overtaken: its    *)
(* holder has the loop.                                                    *)
LEMMA ErrorKept ==
    ASSUME LedgerInv, [Next]_vars, NEW c \in Closers, loop = c, closing[c].pc \in Busy,
           closing'[c] = closing[c], row[closing[c].job].status = "error"
    PROVE  /\ row'[closing[c].job] = row[closing[c].job]
           /\ done[closing[c].job] = << >> => done'[closing[c].job] = << >>
<1> DEFINE j == closing[c].job
<1>1. j \in Jobs
  BY DEF Busy, LedgerInv, DurableInv, TypeInv, HasJob, BusyHasJob
<1>2. row'[j] = row[j]
  BY <1>1, RowStays
<1>3. Changes(j) /\ StartOk(j)
  BY <1>1, JobChanges DEF LedgerInv, RowsOk
<1>4. ASSUME NEW d \in Closers, Commits(d)
      PROVE  ~Wrote(d, j) /\ ~Answered(d, j)
  <2>1. d # c
    BY <1>4 DEF Commits
  <2>2. ~Wrote(d, j)
    BY <1>3 DEF Wrote, StartOk
  <2>3. Writes(d) \/ loop = d
    BY <1>4, PersistIs DEF LedgerInv, ClosersOk, CloserOk, Commits, Writes, Busy
  <2> QED
    BY <2>1, <2>2, <2>3 DEF Answered
<1>5. done'[j] = done[j]
  BY <1>3, <1>4 DEF Changes, Same
<1> QED
  BY <1>2, <1>5

(* The holder of the loop sees no stop appear under it. *)
LEMMA NoStopUnder ==
    ASSUME LedgerInv, [Next]_vars, NEW c \in Closers, NEW j \in Jobs, loop = c,
           closing[c].pc \in Busy, closing'[c] = closing[c], row[j].status # "stopped"
    PROVE  row'[j].status # "stopped"
<1>1. Changes(j)
  BY JobChanges
<1>2. ASSUME NEW d \in Closers, Commits(d), Wrote(d, j)
      PROVE  row'[j].status # "stopped"
  <2>1. d # c
    BY <1>2 DEF Commits
  <2> DEFINE x == closing[d].code
  <2>2. /\ row[j] \in Row /\ row'[j] = Closed(row[j], x) /\ x \in Codes
        /\ x \in ContainerCodes \cup {UnknownCode}
    BY <1>2, <2>1, WroteTrue
  <2> HIDE DEF x
  <2>3. row'[j].status = status_for_exit_code(x)
    BY <2>2, ClosedIs
  <2> QED
    BY <2>2, <2>3, CodesApart
<1>3. CASE row'[j] \in {NewRow, [NewRow EXCEPT !.cid = TRUE],
                        [NewRow EXCEPT !.status = "error", !.exit = UnknownCode]}
  <2>1. /\ NewRow.status = "running" /\ [NewRow EXCEPT !.cid = TRUE].status = "running"
        /\ [NewRow EXCEPT !.status = "error", !.exit = UnknownCode].status = "error"
    BY DEF NewRow
  <2> QED
    BY <1>3, <2>1
<1> QED
  BY <1>1, <1>2, <1>3 DEF Changes, Same, Answered

(* A closer that does not move. *)
LEMMA CloserKept ==
    ASSUME LedgerInv, [Next]_vars, LoopMoves, NEW c \in Closers, closing'[c] = closing[c]
    PROVE  CloserOk(c)'
<1> DEFINE k == closing[c]
           j == closing[c].job
<1> SUFFICES ASSUME k.pc \in Busy
             PROVE  IF k.seen.status = "running"
                    THEN /\ row'[j].cid
                         /\ loop' = c => row'[j].status # "stopped"
                         /\ k.pc # "inspect" => \/ k.code = STOPPED_EXIT_CODE /\ loop' = c
                                                \/ Ended(j)' /\ k.code \in {code'[j], UnknownCode}
                    ELSE /\ loop' = c
                         /\ row'[j].status = "error" => k.seen = row'[j]
                         /\ k.pc = "commit" /\ ~k.found =>
                               row'[j].status = "error" /\ done'[j] = << >>
  BY DEF CloserOk, StreamCodes, Ended
<1>1. CloserOk(c) /\ j \in Jobs /\ (k.seen.status = "running" \/ IsClosed(j))
  BY DEF LedgerInv, ClosersOk, DurableInv, TypeInv, HasJob, BusyHasJob, ClosersKnow, Busy
<1>2. loop' = c <=> loop = c
  BY StaysOnLoop
<1>3. CASE k.seen.status = "running"
  <2>1. row[j].cid /\ row'[j].cid
    BY <1>1, <1>3, RowStays DEF CloserOk
  <2>2. loop' = c => row'[j].status # "stopped"
    BY <1>1, <1>2, <1>3, NoStopUnder DEF CloserOk
  <2>3. Ended(j) => Ended(j)' /\ code'[j] = code[j]
    BY <1>1, EndedStays
  <2>4. k.pc # "inspect" => \/ k.code = STOPPED_EXIT_CODE /\ loop' = c
                            \/ Ended(j)' /\ k.code \in {code'[j], UnknownCode}
    BY <1>1, <1>2, <1>3, <2>3 DEF CloserOk, StreamCodes
  <2> QED
    BY <1>3, <2>1, <2>2, <2>4
<1>4. CASE k.seen.status # "running"
  <2>1. loop = c /\ loop' = c /\ IsClosed(j)
    BY <1>1, <1>2, <1>4 DEF CloserOk
  <2>2. row'[j].status = "error" => row'[j] = row[j] /\ row[j].status = "error"
    BY <1>1, <2>1, RowStays DEF NewRow, IsClosed, Terminal, Verdicts
  <2>3. row'[j].status = "error" => k.seen = row'[j]
    BY <1>1, <1>4, <2>2 DEF CloserOk
  <2>4. k.pc = "commit" /\ ~k.found => row'[j].status = "error" /\ done'[j] = << >>
    BY <1>1, <1>4, <2>1, ErrorKept DEF CloserOk
  <2> QED
    BY <1>4, <2>1, <2>3, <2>4
<1> QED
  BY <1>3, <1>4

LEMMA StepClosers == LedgerInv /\ [Next]_vars => ClosersOk'
<1> SUFFICES ASSUME LedgerInv, [Next]_vars, NEW c \in Closers
             PROVE  CloserOk(c)'
  BY DEF ClosersOk
<1>0. LoopMoves /\ CloserMoves(c)
  BY StepLoopMoves, CloserEffect DEF LedgerInv, DurableInv
<1> DEFINE k == closing'[c]
           j == closing'[c].job
<1>1. CASE closing'[c] = closing[c]
  BY <1>0, <1>1, CloserKept
<1>2. CASE Rests(c)
  BY <1>2 DEF Rests, CloserOk
<1>3. CASE Reads(c)
  BY <1>3 DEF Reads, Running, CloserOk
<1>4. CASE Holds(c)
  <2>1. row' = row /\ box' = box /\ code' = code /\ k.pc = "query" /\ k.seen = row[j] /\ loop' = c
    BY <1>4 DEF Holds
  <2>2. row[j].status = "running" => row[j].cid
    BY <1>0, <1>4, JobCompletionAssumption DEF Holds, LoopMoves, HasId
  <2>3. k.seen.status = "running" =>
           \/ k.code = STOPPED_EXIT_CODE
           \/ box'[j] \in {"exited", "gone"} /\ k.code \in {code'[j], UnknownCode}
    BY <1>4, <2>1 DEF Holds, StreamCodes, Ended
  <2> QED
    BY <2>1, <2>2, <2>3 DEF CloserOk, StreamCodes, Ended
<1>5. CASE ReconcileSeesEnd(c)
  <2>1. /\ closing[c] \in Closing /\ closing[c].pc = "inspect" /\ CloserOk(c)
        /\ closing[c].seen.status = "running"
    BY <1>5 DEF ReconcileSeesEnd, LedgerInv, ClosersOk, DurableInv, TypeInv, TypeOK, ClosersKnow
  <2> DEFINE i == closing[c].job
  <2>2. closing'[c] = [closing[c] EXCEPT !.pc = "query", !.code = InspectedCode(i)]
    BY <1>5 DEF ReconcileSeesEnd, LedgerInv, DurableInv, TypeInv, TypeOK
  <2>3. k.pc = "query" /\ k.code = InspectedCode(i) /\ j = i /\ k.seen = closing[c].seen
    BY <2>1, <2>2 DEF Closing
  <2>4. row' = row /\ box' = box /\ code' = code /\ loop' = loop /\ box[i] \in {"exited", "gone"}
    BY <1>5 DEF ReconcileSeesEnd, SeesEnd, Ended
  <2>5. InspectedCode(i) \in {code[i], UnknownCode}
    BY DEF InspectedCode
  <2> QED
    BY <2>1, <2>3, <2>4, <2>5 DEF CloserOk, Busy, StreamCodes, Ended
<1>6. CASE LookForDone(c)
  <2>1. /\ closing[c] \in Closing /\ closing[c].pc = "query" /\ CloserOk(c)
        /\ closing[c].seen.status = "running" \/ IsClosed(closing[c].job)
        /\ closing[c].job \in Jobs
    BY <1>6 DEF LookForDone, LedgerInv, ClosersOk, DurableInv, TypeInv, TypeOK, ClosersKnow, Busy,
                HasJob, BusyHasJob
  <2> DEFINE i == closing[c].job
  <2>2. closing'[c] = [closing[c] EXCEPT !.pc = "commit", !.found = HasDone(i)]
    BY <1>6 DEF LookForDone, LedgerInv, DurableInv, TypeInv, TypeOK
  <2>3. /\ k.pc = "commit" /\ k.code = closing[c].code /\ j = i /\ k.seen = closing[c].seen
        /\ k.found = HasDone(i)
    BY <2>1, <2>2 DEF Closing
  <2>4. row' = row /\ done' = done /\ box' = box /\ code' = code /\ loop' = loop
    BY <1>6 DEF LookForDone
  <2>5. IsClosed(i) /\ ~HasDone(i) => row[i].status = "error" /\ done[i] = << >>
    BY <2>1 DEF IsClosed, HasDone, LedgerInv, DurableInv, VerdictIsDurable, Terminal
  <2> QED
    BY <2>1, <2>3, <2>4, <2>5 DEF CloserOk, Busy, StreamCodes, Ended
<1> QED
  BY <1>0, <1>1, <1>2, <1>3, <1>4, <1>5, <1>6 DEF CloserMoves
-----------------------------------------------------------------------------
(***************************************************************************)
(* Races.  A closer comes to have seen a job running only while it runs.   *)
(***************************************************************************)
LEMMA ClaimsGrow ==
    ASSUME LedgerInv, [Next]_vars, NEW j \in Jobs, NEW c \in Closers_OnIt(j)'
    PROVE  c \in Closers_OnIt(j) \/ (Running(row[j]) /\ Same(j) /\ closing[c].pc \notin Busy)
<1>0. LoopMoves /\ CloserMoves(c) /\ c \in Closers
  BY StepLoopMoves, CloserEffect DEF LedgerInv, DurableInv, Closers_OnIt
<1>1. closing'[c].pc \in Busy /\ closing'[c].job = j /\ closing'[c].seen.status = "running"
  BY DEF Closers_OnIt, Busy
<1>2. CASE closing'[c] = closing[c]
  BY <1>0, <1>1, <1>2 DEF Closers_OnIt, Busy
<1>3. CASE Rests(c)
  BY <1>1, <1>3 DEF Rests
<1>4. CASE Reads(c)
  BY <1>1, <1>4 DEF Reads, Same
<1>5. CASE Holds(c)
  BY <1>0, <1>1, <1>5, JobCompletionAssumption DEF Holds, LoopMoves, HasId, Running, Same, Busy
<1>6. CASE ReconcileSeesEnd(c) \/ LookForDone(c)
  <2>1. closing[c] \in Closing /\ closing[c].pc \in {"inspect", "query"}
    BY <1>0, <1>6 DEF ReconcileSeesEnd, LookForDone, LedgerInv, DurableInv, TypeInv, TypeOK
  <2>2. closing'[c].job = closing[c].job /\ closing'[c].seen = closing[c].seen
    BY <1>0, <1>6, <2>1 DEF ReconcileSeesEnd, LookForDone, LedgerInv, DurableInv, TypeInv, TypeOK, Closing
  <2> QED
    BY <1>0, <1>1, <2>1, <2>2 DEF Closers_OnIt
<1> QED
  BY <1>0, <1>2, <1>3, <1>4, <1>5, <1>6 DEF CloserMoves

(* A race stays on record, and a commit that meets another one is on it. *)
LEMMA RacedStays ==
    ASSUME LedgerInv, [Next]_vars, NEW j \in Jobs, ~raced'[j]
    PROVE  /\ ~raced[j]
           /\ \A c \in Closers : Commits(c) /\ Wrote(c, j) => Closers_OnIt(j) = {c}
<1>0. raced \in [Jobs -> BOOLEAN] /\ Kinds
  BY StepKinds DEF LedgerInv, DurableInv, TypeInv, TypeOK
<1>1. ASSUME NEW c \in Closers, Commits(c)
      PROVE  ~raced[j] /\ (Wrote(c, j) => Closers_OnIt(j) = {c})
  <2> DEFINE i == closing[c].job
             b == raced[i] \/ (Writes(c) /\ Closers_OnIt(i) # {c})
  <2>1. i \in Jobs /\ raced' = [raced EXCEPT ![i] = b]
    BY <1>1, PersistIs DEF Commits, Persist
  <2>2. Wrote(c, j) => i = j /\ Writes(c)
    BY DEF Wrote, Closers_OnIt
  <2>3. i = j => raced'[j] = b
    BY <1>0, <2>1
  <2>4. i # j => raced'[j] = raced[j]
    BY <1>0, <2>1
  <2> QED
    BY <2>2, <2>3, <2>4
<1>2. ASSUME raced' = raced
      PROVE  ~raced[j]
  BY <1>2
<1>3. (\E c \in Closers : Commits(c)) \/ raced' = raced
  BY <1>0 DEF Kinds, Quiet, Restart, Starts, Submit, StartContainer, StartRecorded, StartRefused, Boxes
<1> QED
  BY <1>1, <1>2, <1>3

LEMMA StepRaces == LedgerInv /\ [Next]_vars => RacesOk'
<1> SUFFICES ASSUME LedgerInv, [Next]_vars, NEW j \in Jobs, ~raced'[j]
             PROVE  /\ Len(done'[j]) <= 1
                    /\ done'[j] # << >> => done'[j][1] = DoneEvent(row'[j])
                    /\ row'[j].status \in Terminal => Closers_OnIt(j)' = {}
  BY DEF RacesOk, RaceOk
<1>0. /\ RaceOk(j) /\ StartOk(j) /\ ~raced[j] /\ Changes(j)
      /\ row[j] \in Row /\ done[j] \in Seq(Done)
      /\ done[j] # << >> => row[j].status \in Terminal
  BY RacedStays, JobChanges DEF LedgerInv, RacesOk, RowsOk, DurableInv, TypeInv, TypeOK, VerdictIsDurable
<1>1. ASSUME NEW c \in Closers_OnIt(j)'
      PROVE  c \in Closers_OnIt(j) \/ (row[j].status = "running" /\ Same(j))
  BY <1>1, ClaimsGrow DEF Running
<1>2. "running" \notin Terminal
  BY DEF Terminal, Verdicts
<1>3. CASE Same(j)
  BY <1>0, <1>1, <1>2, <1>3 DEF Same, RaceOk
<1>4. CASE /\ row'[j] \in {NewRow, [NewRow EXCEPT !.cid = TRUE]} \/ row[j] = NewRow
           /\ row[j].status \notin Terminal
           /\ done'[j] = done[j] /\ closing' = closing
  <2>1. done'[j] = << >>
    BY <1>0, <1>4
  <2>2. Closers_OnIt(j)' = Closers_OnIt(j)
    BY <1>4 DEF Closers_OnIt
  <2>3. NewRow.status = "running" /\ [NewRow EXCEPT !.cid = TRUE].status = "running" /\ ~NewRow.cid
    BY DEF NewRow
  <2>4. row[j] = NewRow => Closers_OnIt(j) = {}
    BY <2>3 DEF Closers_OnIt, LedgerInv, ClosersOk, CloserOk, Busy
  <2>5. row[j] # NewRow => row'[j].status \notin Terminal
    BY <1>2, <1>4, <2>3
  <2> QED
    BY <2>1, <2>2, <2>4, <2>5
<1>5. ASSUME NEW c \in Closers, Commits(c), Wrote(c, j)
      PROVE  /\ done'[j] = <<DoneEvent(row'[j])>>
             /\ Closers_OnIt(j)' = {}
  <2>1. Closers_OnIt(j) = {c}
    BY <1>5, RacedStays
  <2>2. row[j].status \notin Terminal /\ done[j] = << >>
    BY <1>0, <2>1 DEF RaceOk
  <2>3. row'[j] = Closed(row[j], closing[c].code) /\ closing[c].code \in Codes
    BY <1>5, WroteTrue
  <2>4. done'[j] = Append(done[j], DoneEvent(row'[j]))
    BY <1>5, <2>2, <2>3 DEF Wrote, LedgerInv, DurableInv, TypeInv, TypeOK
  <2>5. done'[j] = <<DoneEvent(row'[j])>>
    BY <2>2, <2>4
  <2>6. row'[j].status \in Terminal
    BY <1>0, <2>3, ClosedIs DEF Terminal
  <2>7. c \notin Closers_OnIt(j)'
    BY <1>5 DEF Commits, Closers_OnIt, Busy
  <2> QED
    BY <1>1, <2>1, <2>2, <2>5, <2>6, <2>7 DEF Same
<1>6. ASSUME NEW c \in Closers, Commits(c), Answered(c, j)
      PROVE  /\ done'[j] = <<DoneEvent(row'[j])>>
             /\ Closers_OnIt(j)' = {}
  <2>1. row' = row /\ row[j].status = "error" /\ done'[j] = <<DoneEvent(row[j])>>
    BY <1>6 DEF Answered, LedgerInv, DurableInv, TypeInv, TypeOK
  <2>2. Closers_OnIt(j) = {}
    BY <1>0, <2>1 DEF RaceOk, Terminal
  <2> QED
    BY <1>1, <2>1, <2>2
<1>7. ASSUME done'[j] = <<DoneEvent(row'[j])>>
      PROVE  Len(done'[j]) <= 1 /\ done'[j][1] = DoneEvent(row'[j])
  BY <1>7
<1>8. row[j] = NewRow \/ row[j].status = "absent" => row[j].status \notin Terminal
  BY DEF NewRow, Terminal, Verdicts
<1> QED
  BY <1>0, <1>3, <1>4, <1>5, <1>6, <1>7, <1>8 DEF Changes
-----------------------------------------------------------------------------
(***************************************************************************)
(* The invariant, and what follows from it.                                *)
(***************************************************************************)
LEMMA InitLedger == Init => LedgerInv
<1> SUFFICES ASSUME Init PROVE LedgerInv
  OBVIOUS
<1>1. DurableInv
  BY InitType DEF Init, DurableInv, OpenHasRow, ClosersKnow, VerdictIsDurable, NoStream,
                  Idle, Busy, NoRow, Verdicts, Terminal
<1>2. LoopOk
  BY JobCompletionAssumption DEF Init, LoopOk, Place, Idle
<1>3. RowsOk
  BY CodesApart DEF Init, RowsOk, StartOk, TrueOk, NoRow, LegacyStop
<1>4. StreamsOk
  BY DEF Init, StreamsOk, NoStream
<1>5. ClosersOk
  BY DEF Init, ClosersOk, CloserOk, Idle, Busy
<1>6. RacesOk
  BY DEF Init, RacesOk, RaceOk, NoRow, Terminal, Verdicts
<1> QED
  BY <1>1, <1>2, <1>3, <1>4, <1>5, <1>6 DEF LedgerInv

LEMMA StepLedger == LedgerInv /\ [Next]_vars => LedgerInv'
<1>1. DurableInv /\ [Next]_vars => DurableInv'
  BY StepType, StepOpen, StepKnow, StepGrows DEF DurableInv
<1> QED
  BY <1>1, StepLoop, StepRows, StepStreams, StepClosers, StepRaces DEF LedgerInv, DurableInv

LEMMA LedgerInductive == Spec => []LedgerInv
BY InitLedger, StepLedger, PTL DEF Spec

(* No verdict about a container that is still running, except the user's   *)
(* stop; "success" is the container's own exit with 0 and an exit code on  *)
(* record is its own: a reconcile that does not reach Docker, a stream     *)
(* that breaks off and a thread that comes late close nothing wrongly.     *)
THEOREM VerdictTrue == Spec => []VerdictIsTrue
<1>1. LedgerInv => VerdictIsTrue
  BY DEF LedgerInv, RowsOk, TrueOk, VerdictIsTrue
<1> QED
  BY <1>1, LedgerInductive, PTL

(* A job on which no two closers met has one `done` event at most, and it  *)
(* says what the row says.                                                 *)
THEOREM VerdictUncontested == Spec => []UncontestedVerdict
<1>1. LedgerInv => UncontestedVerdict
  BY DEF LedgerInv, RacesOk, RaceOk, UncontestedVerdict
<1> QED
  BY <1>1, LedgerInductive, PTL

(* Only a reconcile in a thread can overwrite a stop: no producer, direct  *)
(* stream or stop that has the loop does.                                  *)
THEOREM StopKept == Spec => LoopKeepsStop
<1>1. ASSUME LedgerInv, [Next]_vars, NEW j \in Jobs,
             row[j].status = "stopped", row'[j] # row[j]
      PROVE  loop' = loop
  <2>1. PICK c \in Closers : Commits(c) /\ Wrote(c, j)
    BY <1>1, JobChanges DEF Changes, Same, Answered, NewRow
  <2>2. loop # c
    BY <1>1, <2>1 DEF Wrote, Closers_OnIt, LedgerInv, ClosersOk, CloserOk, Busy
  <2> QED
    BY <2>1, <2>2 DEF Commits
<1>2. LedgerInv /\ [Next]_vars =>
         [\A j \in Jobs : row[j].status = "stopped" /\ row'[j] # row[j] => loop' = loop]_vars
  BY <1>1
<1> QED
  BY <1>2, LedgerInductive, PTL DEF LoopKeepsStop, Spec

(* A verdict nobody is left to contest is final, in the row and in its     *)
(* events, for streams, pages, producers and restarts to come.             *)
THEOREM VerdictSettled == Spec => SettledStays
<1>1. ASSUME LedgerInv, [Next]_vars, NEW j \in Jobs,
             row[j].status \in Verdicts, Closers_OnIt(j) = {}
      PROVE  UNCHANGED <<row[j], done[j]>>
  BY <1>1, JobChanges DEF Changes, Same, Wrote, Answered, NewRow, Verdicts
<1>2. LedgerInv /\ [Next]_vars =>
         [\A j \in Jobs : row[j].status \in Verdicts /\ Closers_OnIt(j) = {} =>
              UNCHANGED <<row[j], done[j]>>]_vars
  BY <1>1
<1> QED
  BY <1>2, LedgerInductive, PTL DEF SettledStays, Spec
-----------------------------------------------------------------------------
(***************************************************************************)
(* The refinement: a claim is a closer that saw the job running.           *)
(***************************************************************************)
Claims(c, k, j) == k.pc \in Busy /\ k.job = j /\ k.seen.status = "running"
OnIt(j, cl) == {c \in Closers : Claims(c, cl[c], j)}

LEMMA ClaimsAre ==
    /\ OpenClaims = [j \in Jobs |-> OnIt(j, closing)]
    /\ OpenClaims' = [j \in Jobs |-> OnIt(j, closing')]
    /\ \A j : Closers_OnIt(j) = OnIt(j, closing)
<1>1. \A j : Closers_OnIt(j) = OnIt(j, closing)
  BY DEF Closers_OnIt, OnIt, Claims, Busy
<1>2. OpenClaims = [j \in Jobs |-> OnIt(j, closing)]
  BY <1>1 DEF OpenClaims
<1>3. OpenClaims' = [j \in Jobs |-> OnIt(j, closing')]
  BY DEF OpenClaims, Closers_OnIt, OnIt, Claims, Busy
<1> QED
  BY <1>1, <1>2, <1>3

(* One closer moves and its claims change on one job only. *)
LEMMA ClaimChange ==
    ASSUME NEW c \in Closers, \A d \in Closers : d # c => closing'[d] = closing[d],
           NEW i \in Jobs,
           \A j \in Jobs : j # i => (Claims(c, closing[c], j) <=> Claims(c, closing'[c], j))
    PROVE  /\ Claims(c, closing'[c], i) => OpenClaims' = [OpenClaims EXCEPT ![i] = @ \cup {c}]
           /\ ~Claims(c, closing'[c], i) => OpenClaims' = [OpenClaims EXCEPT ![i] = @ \ {c}]
           /\ (Claims(c, closing[c], i) <=> Claims(c, closing'[c], i)) => OpenClaims' = OpenClaims
<1>1. ASSUME NEW j \in Jobs, j # i
      PROVE  OnIt(j, closing') = OnIt(j, closing)
  BY <1>1 DEF OnIt, Claims
<1>2. Claims(c, closing'[c], i) => OnIt(i, closing') = OnIt(i, closing) \cup {c}
  BY DEF OnIt, Claims
<1>3. ~Claims(c, closing'[c], i) => OnIt(i, closing') = OnIt(i, closing) \ {c}
  BY DEF OnIt, Claims
<1>4. (Claims(c, closing[c], i) <=> Claims(c, closing'[c], i)) => OnIt(i, closing') = OnIt(i, closing)
  BY DEF OnIt, Claims
<1> HIDE DEF OnIt, Claims
<1> QED
  BY <1>1, <1>2, <1>3, <1>4, ClaimsAre

(* Nobody's claims change. *)
LEMMA ClaimsStay ==
    ASSUME \A d \in Closers, j \in Jobs : Claims(d, closing[d], j) <=> Claims(d, closing'[d], j)
    PROVE  OpenClaims' = OpenClaims
<1>1. \A j \in Jobs : OnIt(j, closing') = OnIt(j, closing)
  BY DEF OnIt
<1> QED
  BY <1>1, ClaimsAre

(* A step moves one closer at most, unless the hub restarts. *)
LEMMA OneMoves ==
    TypeInv /\ [Next]_vars =>
        Restart \/ \E c \in Closers : \A d \in Closers : d # c => closing'[d] = closing[d]
<1> SUFFICES ASSUME TypeInv, [Next]_vars, ~Restart
             PROVE  \E c \in Closers : \A d \in Closers : d # c => closing'[d] = closing[d]
  OBVIOUS
<1>0. Monitor \in Closers
  BY DEF Closers
<1>1. CASE closing' = closing
  BY <1>0, <1>1
<1>2. CASE \E c \in Closers : \E r : closing' = [closing EXCEPT ![c] = r]
  BY <1>2 DEF TypeInv, TypeOK
<1>3. CASE \E c \in Closers : LookForDone(c) \/ ThreadStep(c)
  <2> PICK c \in Closers : LookForDone(c) \/ ThreadStep(c)
    BY <1>3
  <2>1. \E r : closing' = [closing EXCEPT ![c] = r]
    <3>1. \A a : Return(c, a) => \E r : closing' = [closing EXCEPT ![c] = r]
      BY DEF Return
    <3>2. ReconcileLeaves(c) \/ ReconcileRaises(c) \/ ReconcileCommit(c) \/ ReconcileRead(c) =>
             \/ \E a : Return(c, a)
             \/ \E r : closing' = [closing EXCEPT ![c] = r]
      <4>1. ReconcileRead(c) => \/ Return(c, "left")
                                \/ closing' = [closing EXCEPT ![c] = [@ EXCEPT !.pc = "inspect", !.seen = row[closing[c].job]]]
        BY DEF ReconcileRead, TypeInv, TypeOK
      <4> QED
        BY <4>1 DEF ReconcileLeaves, ReconcileRaises, ReconcileCommit
    <3>3. ReconcileSeesEnd(c) \/ LookForDone(c) => \E r : closing' = [closing EXCEPT ![c] = r]
      <4>1. ReconcileSeesEnd(c) =>
              closing' = [closing EXCEPT ![c] = [@ EXCEPT !.pc = "query", !.code = InspectedCode(closing[c].job)]]
        BY DEF ReconcileSeesEnd, TypeInv, TypeOK
      <4>2. LookForDone(c) =>
              closing' = [closing EXCEPT ![c] = [@ EXCEPT !.pc = "commit", !.found = HasDone(closing[c].job)]]
        BY DEF LookForDone, TypeInv, TypeOK
      <4> QED
        BY <4>1, <4>2
    <3> QED
      BY <3>1, <3>2, <3>3 DEF ThreadStep
  <2> QED
    BY <1>2, <2>1
<1>4. CASE \E c \in Closers : \E j, x : HoldLoop(c, j, x) \/ Dispatch(c, j)
  BY <1>2, <1>4 DEF HoldLoop, Dispatch
<1>5. CASE \E j \in Jobs : MonitorVisits(j) \/ ProducerBegins(j) \/ ProducerBreaks(j) \/ ProducerFinishes(j)
  BY <1>0, <1>1, <1>4, <1>5 DEF MonitorVisits, ProducerBegins, ProducerBreaks, ProducerFinishes, Closers
<1>6. CASE \/ \E s \in Stops, j \in Jobs : StopRequest(s, j)
           \/ \E v \in Viewers : DirectFinishes(v) \/ \E j \in Jobs : StreamPersists(v, j)
  BY <1>4, <1>6 DEF StopRequest, DirectFinishes, StreamPersists, Closers
<1>7. CASE \/ \E j \in Jobs : ProducerResumes(j) \/ ProducerCommit(j)
           \/ \E s \in Stops : StopCommit(s) \/ StopContainer(s)
           \/ \E v \in Viewers : StreamCommit(v)
           \/ \E p \in Pages, j \in Jobs : PageReconciles(p, j)
           \/ MonitorResumes
  BY <1>0, <1>2, <1>7 DEF ProducerResumes, ProducerCommit, StopCommit, StopContainer, StreamCommit,
                          PageReconciles, MonitorResumes, Closers
<1> QED
  BY <1>1, <1>3, <1>5, <1>6, <1>7
  DEF Next, vars, hubVars, JobStep, StreamStep, StopStep, ContainerExits, ContainerRemoved,
      Submit, StartContainer, StartRecorded, StartRefused, ProducerDies, StreamOpens,
      StreamWaits, StreamDelivers, StreamDrops, MonitorLists

(* A step that leaves rows and events alone: a claim, a withdrawal or      *)
(* nothing at all.                                                         *)
LEMMA QuietStep ==
    ASSUME LedgerInv, [Next]_vars, row' = row, done' = done,
           NEW c \in Closers, \A d \in Closers : d # c => closing'[d] = closing[d]
    PROVE  \/ OpenClaims' = OpenClaims
           \/ \E j \in Jobs : Ledger!Claim(c, j) \/ Ledger!Withdraw(c, j)
<1>0. LoopMoves /\ CloserMoves(c) /\ closing[c] \in Closing
  BY StepLoopMoves, CloserEffect DEF LedgerInv, DurableInv, TypeInv, TypeOK
<1> DEFINE k == closing'[c]
           j == closing'[c].job
<1>1. ASSUME \A i \in Jobs : Claims(c, closing[c], i) <=> Claims(c, closing'[c], i)
      PROVE  OpenClaims' = OpenClaims
  <2>1. \A d \in Closers, i \in Jobs : Claims(d, closing[d], i) <=> Claims(d, closing'[d], i)
    BY <1>1
  <2> QED
    BY <2>1, ClaimsStay
<1>2. CASE closing'[c] = closing[c]
  BY <1>1, <1>2
<1>3. CASE Rests(c)
  <2>1. \A i \in Jobs : ~Claims(c, closing'[c], i)
    BY <1>3 DEF Rests, Claims
  <2>2. CASE \A i \in Jobs : ~Claims(c, closing[c], i)
    BY <1>1, <2>1, <2>2
  <2>3. CASE \E i \in Jobs : Claims(c, closing[c], i)
    <3> PICK i \in Jobs : Claims(c, closing[c], i)
      BY <2>3
    <3>1. \A m \in Jobs : m # i => ~Claims(c, closing[c], m)
      BY DEF Claims
    <3>2. OpenClaims' = [OpenClaims EXCEPT ![i] = @ \ {c}]
      BY <2>1, <3>1, ClaimChange
    <3>3. c \in OpenClaims[i]
      BY ClaimsAre DEF OnIt
    <3> QED
      BY <3>2, <3>3 DEF Ledger!Withdraw
  <2> QED
    BY <2>2, <2>3
<1>4. CASE /\ closing[c].pc \notin Busy /\ k.pc \in Busy /\ j \in Jobs
           /\ k.seen.status = "running" => Running(row[j])
  <2>1. \A i \in Jobs : ~Claims(c, closing[c], i)
    BY <1>4 DEF Claims
  <2>2. \A i \in Jobs : Claims(c, closing'[c], i) => i = j
    BY DEF Claims
  <2>3. CASE ~Claims(c, closing'[c], j)
    BY <1>1, <2>1, <2>2, <2>3
  <2>4. CASE Claims(c, closing'[c], j)
    <3>1. OpenClaims' = [OpenClaims EXCEPT ![j] = @ \cup {c}]
      BY <1>4, <2>1, <2>2, <2>4, ClaimChange
    <3>2. Running(row[j])
      BY <1>4, <2>4 DEF Claims
    <3> QED
      BY <1>4, <3>1, <3>2 DEF Ledger!Claim, Running
  <2> QED
    BY <2>3, <2>4
<1>5. Reads(c) => /\ closing[c].pc \notin Busy /\ k.pc \in Busy /\ j \in Jobs
                  /\ k.seen.status = "running" => Running(row[j])
  BY DEF Reads, Busy
<1>6. Holds(c) => /\ closing[c].pc \notin Busy /\ k.pc \in Busy /\ j \in Jobs
                  /\ k.seen.status = "running" => Running(row[j])
  BY <1>0, JobCompletionAssumption DEF Holds, LoopMoves, HasId, Running, Busy
<1>7. CASE ReconcileSeesEnd(c) \/ LookForDone(c)
  <2>1. /\ closing[c].pc \in Busy /\ k.pc \in Busy
        /\ k.job = closing[c].job /\ k.seen = closing[c].seen
    BY <1>0, <1>7 DEF ReconcileSeesEnd, LookForDone, LedgerInv, DurableInv, TypeInv, TypeOK, Closing, Busy
  <2> QED
    BY <1>1, <2>1 DEF Claims
<1> QED
  BY <1>0, <1>2, <1>3, <1>4, <1>5, <1>6, <1>7 DEF CloserMoves

(* The ledger's rows and codes are those of the hub. *)
LEMMA SameRows ==
    /\ Ledger!NewRow = NewRow /\ Ledger!NoRow = NoRow
    /\ Ledger!UnknownCode = UnknownCode /\ Ledger!Codes = Codes
    /\ \A r, x : Ledger!Closed(r, x) = Closed(r, x)
    /\ \A r : Ledger!DoneEvent(r) = DoneEvent(r)
BY DEF Ledger!NewRow, NewRow, Ledger!NoRow, NoRow, Ledger!UnknownCode, Ledger!Codes, Codes,
       Ledger!STOPPED_EXIT_CODE, Ledger!Closed, Closed, Ledger!status_for_exit_code,
       status_for_exit_code, Ledger!DoneEvent, DoneEvent

(* A commit is a verdict on record, an answer, or nothing.                 *)
LEMMA CommitStep ==
    ASSUME LedgerInv, NEW c \in Closers, Commits(c)
    PROVE  [Ledger!Next]_Ledger!vars
<1> DEFINE j == closing[c].job
<1>1. /\ j \in Jobs /\ closing[c].code \in Codes /\ closing[c].pc = "commit"
      /\ Wrote(c, j) \/ Answered(c, j) \/ (~Writes(c) /\ row' = row /\ done' = done)
      /\ closing'[c].pc \notin Busy /\ \A d \in Closers : d # c => closing'[d] = closing[d]
  BY PersistIs DEF Commits
<1>2. \A i : ~Claims(c, closing'[c], i)
  BY <1>1 DEF Claims
<1>3. CASE Wrote(c, j)
  <2>1. \A i \in Jobs : i # j => ~Claims(c, closing[c], i)
    BY DEF Claims
  <2>2. OpenClaims' = [OpenClaims EXCEPT ![j] = @ \ {c}]
    BY <1>1, <1>2, <2>1, ClaimChange
  <2>3. c \in OpenClaims[j]
    BY <1>1, <1>3, ClaimsAre DEF Wrote
  <2>4. Ledger!Record(c, j, closing[c].code)
    BY <1>3, <2>2, <2>3, SameRows DEF Wrote, Ledger!Record
  <2> QED
    BY <1>1, <2>4, SameRows DEF Ledger!Next
<1>4. CASE ~Writes(c)
  <2>1. \A i : ~Claims(c, closing[c], i)
    BY <1>4 DEF Claims, Writes
  <2>2. \A d \in Closers, i \in Jobs : Claims(d, closing[d], i) <=> Claims(d, closing'[d], i)
    BY <1>1, <1>2, <2>1
  <2>3. OpenClaims' = OpenClaims
    BY <2>2, ClaimsStay
  <2>4. Answered(c, j) => Ledger!Answer(j)
    BY <2>3, SameRows DEF Answered, Ledger!Answer
  <2>5. CASE Answered(c, j)
    BY <1>1, <2>4, <2>5 DEF Ledger!Next
  <2>6. CASE row' = row /\ done' = done
    BY <2>3, <2>6 DEF Ledger!vars
  <2>7. ~Wrote(c, j)
    BY <1>4 DEF Wrote
  <2>8. Answered(c, j) \/ (row' = row /\ done' = done)
    BY <1>1, <2>7
  <2> QED
    BY <2>5, <2>6, <2>8
<1> QED
  BY <1>1, <1>3, <1>4 DEF Answered

(* Every step of the hub and of Docker is a step of the ledger or none.    *)
LEMMA LedgerStep == LedgerInv /\ [Next]_vars => [Ledger!Next]_Ledger!vars
<1> SUFFICES ASSUME LedgerInv, [Next]_vars PROVE [Ledger!Next]_Ledger!vars
  OBVIOUS
<1>0. /\ Kinds /\ row \in [Jobs -> Row]
      /\ Restart \/ \E c \in Closers : \A d \in Closers : d # c => closing'[d] = closing[d]
  BY StepKinds, OneMoves DEF LedgerInv, DurableInv, TypeInv, TypeOK
<1>1. CASE Restart
  <2>1. row' = row /\ done' = done
    BY <1>1, RestartKeeps
  <2>2. \A j \in Jobs, c \in Closers : ~Claims(c, closing'[c], j)
    BY <1>1, RestingStates DEF Restart, Claims
  <2>3. OpenClaims' = [j \in Jobs |-> {}]
    BY <2>2, ClaimsAre DEF OnIt
  <2> QED
    BY <2>1, <2>3 DEF Ledger!Forget, Ledger!Next
<1>2. CASE ~Restart /\ row' = row /\ done' = done
  <2>1. PICK c \in Closers : \A d \in Closers : d # c => closing'[d] = closing[d]
    BY <1>0, <1>2
  <2> QED
    BY <1>2, <2>1, QuietStep DEF Ledger!Next, Ledger!vars
<1>3. CASE \E c \in Closers : Commits(c)
  BY <1>3, CommitStep
<1>4. CASE \E j \in Jobs : Submit(j) \/ StartRecorded(j) \/ StartRefused(j)
  <2> PICK j \in Jobs : Submit(j) \/ StartRecorded(j) \/ StartRefused(j)
    BY <1>4
  <2>1. closing' = closing /\ done' = done
    BY DEF Submit, StartRecorded, StartRefused
  <2>2. OpenClaims' = OpenClaims
    BY <2>1, ClaimsStay
  <2>3. CASE Submit(j)
    BY <2>1, <2>2, <2>3, SameRows DEF Submit, Ledger!Insert, Ledger!Next
  <2>4. StartRecorded(j) \/ StartRefused(j) => row[j] = NewRow
    BY DEF StartRecorded, StartRefused, LedgerInv, RowsOk, StartOk
  <2>5. NewRow.status = "running" /\ ~NewRow.cid
    BY DEF NewRow
  <2>6. CASE StartRecorded(j)
    BY <2>1, <2>2, <2>4, <2>5, <2>6 DEF StartRecorded, Ledger!Attach, Ledger!Next
  <2>7. CASE StartRefused(j)
    <3>1. Closers_OnIt(j) = {}
      BY <2>4, <2>5, <2>7 DEF Closers_OnIt, LedgerInv, ClosersOk, CloserOk, Busy
    <3>2. OpenClaims[j] = {}
      BY <3>1 DEF OpenClaims
    <3> QED
      BY <2>1, <2>2, <2>4, <2>7, <3>2, SameRows DEF StartRefused, Ledger!Refuse, Ledger!Next
  <2> QED
    BY <2>3, <2>6, <2>7
<1> QED
  BY <1>0, <1>1, <1>2, <1>3, <1>4 DEF Kinds, Quiet, Boxes, Starts, StartContainer

(* The tasks, threads and requests of the hub keep the ledger of verdicts. *)
THEOREM LedgerImplemented == Spec => ImplementsLedger
<1>1. Init => Ledger!Init
  <2> SUFFICES ASSUME Init PROVE Ledger!Init
    OBVIOUS
  <2>1. \A c \in Closers, j \in Jobs : ~Claims(c, closing[c], j)
    BY RestingStates DEF Init, Claims
  <2>2. OpenClaims = [j \in Jobs |-> {}]
    BY <2>1, ClaimsAre DEF OnIt
  <2> QED
    BY <2>2, SameRows DEF Init, Ledger!Init
<1> QED
  BY <1>1, LedgerInductive, LedgerStep, PTL DEF Spec, ImplementsLedger, Ledger!Spec
=============================================================================
