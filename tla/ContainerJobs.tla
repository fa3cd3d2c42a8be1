---------------------------- MODULE ContainerJobs ---------------------------
(***************************************************************************)
(* How containers become jobs: POST /jobs/start (jobs.py, start_job, with  *)
(* converters.py for the dockur runner) and the discovery before a page    *)
(* (jobs.py, _discover_running_converter_containers).  A page runs in a    *)
(* thread; a start runs on the loop but for its two calls of Docker.       *)
(* What becomes of the verdicts is JobCompletion's subject.  The accounts  *)
(* do not change meanwhile.                                                *)
(***************************************************************************)
EXTENDS Integers, FiniteSets

CONSTANTS Starts, Pages,   \* requests; each is made once
          Users, Admin,
          Strays,          \* containers docker runs that the hub did not start
          Casts,           \* bound: which of these meet, [starts, pages, strays]
          Converters, Abstec,
          Nobody           \* no label, no container id

VARIABLES accounts,  \* the users there are: a lost database leaves only the admin
          boxes,     \* the containers that run: labels, what the image is like, whether it is a dockur run
          rows,      \* job_runs; dockur is what the row's flags say of the runner
          start,     \* start_job
          page,      \* _discover_running_converter_containers
          adopted,   \* history: containers imported while their start, or another page, was at them
          rivals     \* history: dockur starts that were checked while another was under way

containersVars == <<accounts, boxes, rows, start, page, adopted, rivals>>

-----------------------------------------------------------------------------
Idle == [pc |-> "idle"]
Over == [pc |-> "over"]

ContainersInit ==
    /\ accounts = {} /\ boxes = {} /\ rows = {}
    /\ start = [s \in Starts |-> Over] /\ page = [p \in Pages |-> Over]
    /\ adopted = {} /\ rivals = FALSE

(* The hub comes up beside containers that run already: its own, from      *)
(* before its database was lost, and others.  A label may name a user it   *)
(* no longer knows; like is how well their image fits (_image_match_score).*)
Comes ==
    /\ accounts = {}
    /\ accounts' \in {{Admin}, Users}
    /\ \E cast \in Casts :
          /\ start' = [s \in Starts |-> IF s \in cast.starts THEN Idle ELSE Over]
          /\ page' = [p \in Pages |-> IF p \in cast.pages THEN Idle ELSE Over]
          /\ \E u \in Users \cup {Nobody}, conv \in Converters \cup {Nobody},
                like \in [Converters -> {0, 2}], dockur \in BOOLEAN :
                /\ dockur => conv = Abstec
                /\ boxes' = {[id |-> c, user |-> u, conv |-> conv, like |-> like, dockur |-> dockur] :
                                c \in cast.strays}
    /\ UNCHANGED <<rows, adopted, rivals>>

-----------------------------------------------------------------------------
(***************************************************************************)
(* start_job.                                                              *)
(***************************************************************************)
RunsDockurWithBox ==     \* mutant: a job counts once it has a container
    \E r \in rows : r.status = "running" /\ r.dockur /\ r.cid # Nobody

RunsDockur == \E r \in rows : r.status = "running" /\ r.conv = Abstec /\ r.dockur

Begins(s, u, conv, dockur) ==
    /\ start[s] = Idle /\ u \in accounts
    /\ dockur => conv = Abstec
    /\ start' = [start EXCEPT ![s] =
          IF ~dockur THEN [pc |-> "prepared", user |-> u, conv |-> conv, dockur |-> FALSE]
          ELSE IF RunsDockur THEN Over
          ELSE [pc |-> "vm", user |-> u, conv |-> conv, dockur |-> TRUE]]
    /\ rivals' = (rivals \/ (dockur /\ \E t \in Starts :
                                 start[t].pc \in {"vm", "prepared"} /\ start[t].dockur))
    /\ UNCHANGED <<accounts, boxes, rows, page, adopted>>

(* ensure_container_running, in a thread: the machine runs, or is started; *)
(* or there is none, or Docker does not answer.                            *)
VmIsUp(s) ==
    /\ start[s].pc = "vm"
    /\ start' = [start EXCEPT ![s].pc = "prepared"]
    /\ UNCHANGED <<accounts, boxes, rows, page, adopted, rivals>>

VmIsMissing(s) ==
    /\ start[s].pc = "vm"
    /\ start' = [start EXCEPT ![s] = Over]
    /\ UNCHANGED <<accounts, boxes, rows, page, adopted, rivals>>

InsertsRow(s) ==
    LET q == start[s]
    IN /\ q.pc = "prepared"
       /\ rows' = rows \cup {[user |-> q.user, conv |-> q.conv, dockur |-> q.dockur,
                              status |-> "running", cid |-> Nobody, from |-> s]}
       /\ start' = [start EXCEPT ![s].pc = "inserted"]
       /\ UNCHANGED <<accounts, boxes, page, adopted, rivals>>

RowOf(s) == CHOOSE r \in rows : r.from = s

start_container(s) ==
    LET q == start[s]
    IN /\ q.pc = "inserted"
       /\ boxes' = boxes \cup {[id |-> s, user |-> q.user, conv |-> q.conv,
                                like |-> [c \in Converters |-> IF c = q.conv THEN 3 ELSE 0],
                                dockur |-> q.dockur]}
       /\ start' = [start EXCEPT ![s].pc = "started"]
       /\ UNCHANGED <<accounts, rows, page, adopted, rivals>>

StartFails(s) ==
    /\ start[s].pc = "inserted"
    /\ rows' = (rows \ {RowOf(s)}) \cup {[RowOf(s) EXCEPT !.status = "error"]}
    /\ start' = [start EXCEPT ![s] = Over]
    /\ UNCHANGED <<accounts, boxes, page, adopted, rivals>>

RecordsId(s) ==
    /\ start[s].pc = "started"
    /\ rows' = (rows \ {RowOf(s)}) \cup {[RowOf(s) EXCEPT !.cid = s]}
    /\ start' = [start EXCEPT ![s] = Over]
    /\ UNCHANGED <<accounts, boxes, page, adopted, rivals>>

(* Anything but a DockerException leaves the row as it is. *)
StartBreaks(s) ==
    /\ start[s].pc \in {"inserted", "started"}
    /\ start' = [start EXCEPT ![s] = Over]
    /\ UNCHANGED <<accounts, boxes, rows, page, adopted, rivals>>

start_job(s) ==
    \/ \E u \in Users, conv \in Converters, dockur \in BOOLEAN : Begins(s, u, conv, dockur)
    \/ VmIsUp(s) \/ VmIsMissing(s) \/ InsertsRow(s)
    \/ start_container(s) \/ StartFails(s) \/ RecordsId(s) \/ StartBreaks(s)

-----------------------------------------------------------------------------
(***************************************************************************)
(* Discovery.                                                              *)
(***************************************************************************)
list_running_containers(p, u, convs) ==
    /\ page[p] = Idle /\ u \in accounts
    /\ page' = [page EXCEPT ![p] = [pc |-> "scan", user |-> u, convs |-> convs,
                                    found |-> boxes, import |-> {}]]
    /\ UNCHANGED <<accounts, boxes, rows, start, adopted, rivals>>

(* An operator gets back only what the hub started for him. *)
MayAttach(p, b) ==
    \/ page[p].user = Admin
    \/ b.user = page[p].user /\ b.conv \in page[p].convs

(* The label's user, if the database still knows him. *)
Owner(p, b) == IF b.user \in accounts THEN b.user ELSE page[p].user

(* The label decides, else the first best match of the image. *)
Matches(p, b) ==
    IF b.conv \in page[p].convs THEN {b.conv}
    ELSE {c \in page[p].convs : /\ b.like[c] > 0
                                /\ \A d \in page[p].convs : b.like[d] <= b.like[c]}

KnownToUser(p, b) ==     \* mutant: only the viewer's own jobs are looked through
    \E r \in rows : r.cid = b.id /\ r.user = page[p].user

Known(p, b) == \E r \in rows : r.cid = b.id

LooksAt(p) ==
    /\ page[p].pc = "scan"
    /\ \E b \in page[p].found :
        /\ IF Known(p, b) \/ ~MayAttach(p, b) \/ Matches(p, b) = {}
           THEN page' = [page EXCEPT ![p].found = @ \ {b}]
           ELSE \E c \in Matches(p, b) :
                   page' = [page EXCEPT ![p].found = @ \ {b},
                               ![p].import = @ \cup {[id |-> b.id, user |-> Owner(p, b), conv |-> c,
                                                     new |-> \A r \in rows : r.cid # b.id]}]
        /\ UNCHANGED <<accounts, boxes, rows, start, adopted, rivals>>

(* What nobody had recorded when this page looked, and its own start still *)
(* has not, or another has by now.                                         *)
Contested(p) == {i.id : i \in {j \in page[p].import :
    j.new /\ ((j.id \in Starts /\ start[j.id] # Over) \/ \E r \in rows : r.cid = j.id)}}

(* The flags of an import have no runner, whatever the container runs.     *)
Imports(p) ==
    /\ page[p].pc = "scan" /\ page[p].found = {}
    /\ rows' = rows \cup {[user |-> i.user, conv |-> i.conv, dockur |-> FALSE, status |-> "running",
                           cid |-> i.id, from |-> p] : i \in page[p].import}
    /\ adopted' = adopted \cup Contested(p)
    /\ page' = [page EXCEPT ![p] = Over]
    /\ UNCHANGED <<accounts, boxes, start, rivals>>

_discover_running_converter_containers(p) ==
    \/ \E u \in Users, convs \in {Converters} \cup {{c} : c \in Converters} :
          list_running_containers(p, u, convs)
    \/ LooksAt(p) \/ Imports(p)

-----------------------------------------------------------------------------
Exits(b) ==
    /\ boxes' = boxes \ {b}
    /\ UNCHANGED <<accounts, rows, start, page, adopted, rivals>>

(* A job with a container id that no running container has is closed. *)
reconcile_job_state(r) ==
    /\ r.status = "running" /\ r.cid # Nobody /\ \A b \in boxes : b.id # r.cid
    /\ rows' = (rows \ {r}) \cup {[r EXCEPT !.status = "over"]}
    /\ UNCHANGED <<accounts, boxes, start, page, adopted, rivals>>

(* The row is stopped first.  The container exits during docker stop,      *)
(* which waits ten seconds for it, or runs on if Docker does not answer.   *)
stop_job(r) ==
    /\ r.status = "running" /\ r.cid # Nobody
    /\ rows' = (rows \ {r}) \cup {[r EXCEPT !.status = "stopped"]}
    /\ UNCHANGED <<accounts, boxes, start, page, adopted, rivals>>

ContainersNext ==
    \/ Comes
    \/ (\E s \in Starts : start_job(s))
    \/ (\E p \in Pages : _discover_running_converter_containers(p))
    \/ (\E b \in boxes : Exits(b))
    \/ (\E r \in rows : reconcile_job_state(r) \/ stop_job(r))

ContainersSpec == ContainersInit /\ [][ContainersNext]_containersVars

-----------------------------------------------------------------------------
(* A container is one job: pages import it once, however often and by whom *)
(* they are opened.  The exceptions are a page that imports it before its  *)
(* own start has recorded the id, and two pages at once.                   *)
OneJobPerContainer ==
    \A r, q \in rows : r # q /\ r.cid = q.cid /\ r.cid # Nobody => r.cid \in adopted

(* The virtual machine takes one dockur job at a time: there is one row of *)
(* a running one, and of the containers the hub started and nobody stopped *)
(* one is a dockur run.  The exception is two starts checked while neither *)
(* has its row: the first waits for the virtual machine in between.  Not   *)
(* counted, since the check goes by the flags of running rows: a dockur    *)
(* container found running, whose import has no runner in its flags, and   *)
(* one that is being stopped, whose row no longer runs.                    *)
OneDockurAtATime ==
    rivals \/
    /\ Cardinality({r \in rows : r.status = "running" /\ r.dockur}) <= 1
    /\ \A b, c \in {d \in boxes : d.dockur /\ d.id \in Starts} :
          b = c \/ \E r \in rows : r.status = "stopped" /\ r.cid \in {b.id, c.id}
=============================================================================
