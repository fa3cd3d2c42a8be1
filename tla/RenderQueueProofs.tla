-------------------------- MODULE RenderQueueProofs --------------------------
(***************************************************************************)
(* What holds of RenderQueue for every set of users, pages, requests and   *)
(* direct renderings, every limit and any number of animations and         *)
(* restarts.                                                               *)
(***************************************************************************)
EXTENDS RenderQueue, FiniteSetTheorems, TLAPS

-----------------------------------------------------------------------------
(***************************************************************************)
(* The worker, the pages and the jobs agree on where a job is.             *)
(***************************************************************************)
Numbered ==
    /\ known \subseteq 1..created
    /\ \A i \in DOMAIN queue : queue[i] <= created

WorkerKnows ==
    /\ IF worker.pc \in {"off", "idle"} THEN worker.job = 0 ELSE worker.job \in known
    /\ worker.pc = "taken" => job[worker.job].status = "queued"
    /\ worker.pc = "working" => job[worker.job].status = "running"
    /\ worker.pc = "publishing" => job[worker.job].status = "done"

JobsTell ==
    \A j \in Jobs :
        /\ job[j].old => job[j].status \in {"done", "failed"} /\ worker.job # j
        /\ job[j].status = "running" => worker.pc = "working" /\ worker.job = j
        /\ job[j].status = "done" => job[j].typed \/ (worker.pc = "publishing" /\ worker.job = j)

PageOk(p) ==
    /\ p.job <= created
    /\ p.pc # "idle" => p.job \in Jobs
    /\ p.told = "done" => /\ p.pc \in {"fetching", "checking", "opening"}
                          /\ job[p.job].status = "done" /\ job[p.job].typed
                          /\ p.pc = "opening" => p.typed

PagesTell == \A t \in Tabs : PageOk(tab[t])

Inv == TypeOK /\ Numbered /\ WorkerKnows /\ JobsTell /\ PagesTell

(* The constants that states are made of. *)
LEMMA StateParts ==
    /\ NoJob \in Job /\ NewTab \in Tab /\ NewTab.pc = "idle" /\ NewTab.job = 0 /\ NewTab.told = ""
    /\ NewTab.position = 0
    /\ NoJob.status = "queued" /\ ~NoJob.old /\ ~NoJob.stranded
    /\ 0 \in 0..MaxJobs /\ 0 \in 0..MaxFailedPolls /\ 0 \in 0..MaxRestarts
BY QueueAssumption DEF NoJob, Job, NewTab, Tab, Jobs

(* Before the first submit. *)
LEMMA InitInv == Init => Inv
<1> SUFFICES ASSUME Init PROVE Inv
  OBVIOUS
<1>1. TypeOK
  <2>1. job \in [Jobs -> Job] /\ tab \in [Tabs -> Tab]
    BY StateParts DEF Init
  <2>2. known \in SUBSET Jobs /\ queue \in Seq(Jobs) /\ disk \in SUBSET Jobs
    BY DEF Init
  <2>3. /\ worker \in [pc : {"off", "idle", "taken", "working", "publishing"}, job : Jobs \cup {0}]
        /\ slot \in {None, "worker"} \cup Directs
    BY DEF Init, NoWorker
  <2>4. created \in 0..MaxJobs /\ restarts \in 0..MaxRestarts
    BY StateParts DEF Init
  <2> QED
    BY <2>1, <2>2, <2>3, <2>4 DEF TypeOK
<1>2. Numbered /\ WorkerKnows /\ JobsTell
  <2>1. Numbered
    BY DEF Init, Numbered
  <2>2. WorkerKnows
    BY DEF Init, WorkerKnows, NoWorker
  <2>3. \A j \in Jobs : job[j] = NoJob
    BY DEF Init
  <2> QED
    BY <2>1, <2>2, <2>3, StateParts DEF JobsTell
<1>3. PagesTell
  <2>1. \A t \in Tabs : tab[t] = NewTab
    BY DEF Init
  <2>2. created = 0
    BY DEF Init
  <2>4. NewTab.job <= created /\ NewTab.pc = "idle" /\ NewTab.told # "done"
    BY <2>2 DEF NewTab
  <2>3. PageOk(NewTab)
    BY <2>4 DEF PageOk
  <2> QED
    BY <2>1, <2>3 DEF PagesTell
<1> QED
  BY <1>1, <1>2, <1>3 DEF Inv

(* A page that moves, while the jobs stay as they are or are forgotten.    *)
LEMMA PageMoves ==
    ASSUME Inv, NEW t \in Tabs, NEW p \in Tab, PageOk(p),
           tab' = [tab EXCEPT ![t] = p],
           UNCHANGED <<job, created, queue, worker, slot, restarts>>,
           \/ known' = known /\ disk' = disk
           \/ known' = known \ Expired /\ disk' = disk \ Expired
    PROVE  Inv'
<1>1. TypeOK'
  BY DEF Inv, TypeOK
<1>2. Numbered'
  BY DEF Inv, Numbered
<1>3. WorkerKnows'
  <2>1. worker.pc \notin {"off", "idle"} => worker.job \in known \ Expired
    BY DEF Inv, TypeOK, WorkerKnows, JobsTell, Expired
  <2> QED
    BY <2>1 DEF Inv, WorkerKnows
<1>4. JobsTell'
  BY DEF Inv, JobsTell
<1>5. PagesTell'
  <2>1. \A s \in Tabs : tab'[s] \in {tab[s], p}
    BY DEF Inv, TypeOK
  <2>2. \A s \in Tabs : PageOk(tab[s])
    BY DEF Inv, PagesTell
  <2> QED
    BY <2>1, <2>2 DEF PagesTell, PageOk
<1> QED
  BY <1>1, <1>2, <1>3, <1>4, <1>5 DEF Inv

(* The place in the queue is a number of jobs.                             *)
Earlier(j) == {k \in known : job[k].status \in {"queued", "running"} /\ k < j}

(* The place is a number no higher than that of the jobs there can be. *)
LEMMA Places ==
    ASSUME Inv, NEW j \in Jobs
    PROVE  /\ IsFiniteSet(Earlier(j)) /\ Cardinality(Earlier(j)) \in Nat
           /\ IsFiniteSet(Ahead(j)) /\ Cardinality(Ahead(j)) \in Nat
           /\ QueuePosition(j) \in 0..MaxJobs
<1>1. MaxJobs \in Nat /\ j \in 1..MaxJobs
  BY QueueAssumption DEF Jobs
<1>2. IsFiniteSet(1..(j - 1)) /\ Cardinality(1..(j - 1)) = j - 1
  BY <1>1, FS_Interval
<1>3. Earlier(j) \in SUBSET (1..(j - 1)) /\ Ahead(j) \in SUBSET (1..(j - 1))
  <2>1. \A k \in known : k \in 1..MaxJobs
    BY DEF Inv, TypeOK, Jobs
  <2> QED
    BY <1>1, <2>1 DEF Earlier, Ahead
<1>4. /\ IsFiniteSet(Earlier(j)) /\ IsFiniteSet(Ahead(j))
      /\ Cardinality(Ahead(j)) <= j - 1
  <2>1. /\ IsFiniteSet(Earlier(j)) /\ Cardinality(Earlier(j)) <= Cardinality(1..(j - 1))
        /\ IsFiniteSet(Ahead(j)) /\ Cardinality(Ahead(j)) <= Cardinality(1..(j - 1))
    BY <1>2, <1>3, FS_Subset, Zenon
  <2> QED
    BY <1>2, <2>1
<1>5. Cardinality(Earlier(j)) \in Nat /\ Cardinality(Ahead(j)) \in Nat
  BY <1>4, FS_CardinalityType
<1>6. QueuePosition(j) \in 0..MaxJobs
  BY <1>1, <1>4, <1>5 DEF QueuePosition
<1> QED
  BY <1>4, <1>5, <1>6

(* A page that starts over. *)
LEMMA NewTabOk == Inv => PageOk(NewTab)
<1>1. Inv => created \in 0..MaxJobs
  BY DEF Inv, TypeOK
<1>2. \A c \in 0..MaxJobs : 0 <= c
  BY QueueAssumption
<1> QED
  BY <1>1, <1>2, StateParts DEF PageOk

(* What a page is that was told of its job. *)
LEMMA DescribedPage ==
    ASSUME Inv, NEW t \in Tabs, describe(t)
    PROVE  \E p \in Tab : PageOk(p) /\ tab' = [tab EXCEPT ![t] = p]
<1> DEFINE j == tab[t].job
           p == IF job[j].status = "failed" THEN NewTab
                ELSE [NewTab EXCEPT !.job = j, !.told = job[j].status, !.position = QueuePosition(j),
                                    !.pc = IF job[j].status = "done" THEN "fetching" ELSE "polling"]
<1>1. tab[t].pc = "describing" /\ worker.pc # "publishing" /\ tab' = [tab EXCEPT ![t] = p]
  BY DEF describe, LockIsFree
<1>2. j \in Jobs /\ j <= created
  BY <1>1 DEF Inv, PagesTell, PageOk
<1>3. job[j] \in Job /\ QueuePosition(j) \in 0..MaxJobs
  BY <1>2, Places DEF Inv, TypeOK
<1>4. CASE job[j].status = "failed"
  <2>1. p = NewTab
    BY <1>4
  <2> QED
    BY <1>1, <2>1, NewTabOk, StateParts
<1>5. CASE job[j].status # "failed"
  <2>1. p = [NewTab EXCEPT !.job = j, !.told = job[j].status, !.position = QueuePosition(j),
                           !.pc = IF job[j].status = "done" THEN "fetching" ELSE "polling"]
    BY <1>5
  <2>2. /\ p \in Tab /\ p.job = j /\ p.told = job[j].status
        /\ p.pc = IF job[j].status = "done" THEN "fetching" ELSE "polling"
    BY <1>2, <1>3, <1>5, <2>1, StateParts DEF NewTab, Tab, Job
  <2>3. job[j].status = "done" => job[j].typed
    BY <1>1, <1>2 DEF Inv, JobsTell
  <2> HIDE DEF p
  <2> QED
    BY <1>1, <1>2, <2>2, <2>3 DEF PageOk
<1> QED
  BY <1>4, <1>5

(* An animation for the same request is shared. *)
LEMMA SubmitReusesInv ==
    ASSUME Inv, NEW t \in Tabs, NEW k \in Requests, SubmitReuses(t, k)
    PROVE  Inv'
<1>1. PICK j \in SameRequest(Owner[t], k) \ Expired :
         tab' = [tab EXCEPT ![t] = [NewTab EXCEPT !.pc = "describing", !.job = j]]
  BY DEF SubmitReuses
<1> DEFINE p == [NewTab EXCEPT !.pc = "describing", !.job = j]
<1>2. j \in Jobs /\ j <= created
  BY <1>1 DEF SameRequest, Live, Inv, Numbered, TypeOK
<1>3. p \in Tab /\ p.job = j /\ p.pc = "describing" /\ p.told = ""
  BY <1>2, StateParts DEF NewTab, Tab
<1>4. PageOk(p) /\ tab' = [tab EXCEPT ![t] = p]
  BY <1>1, <1>2, <1>3 DEF PageOk
<1> HIDE DEF p
<1> QED
  BY <1>3, <1>4, PageMoves DEF SubmitReuses, _expire_locked

(* A page asks for the status, or for the result. *)
LEMMA GetInv ==
    ASSUME Inv, NEW t \in Tabs,
           Poll(t) \/ GetResult(t)
    PROVE  Inv'
<1>0. tab[t] \in Tab /\ PageOk(tab[t]) /\ NewTab \in Tab /\ PageOk(NewTab)
  BY StateParts, NewTabOk DEF Inv, TypeOK, PagesTell
<1>1. ASSUME NEW from, NEW found, Get(t, from, found),
             <<from, found>> \in {<<"polling", "describing">>, <<"fetching", "checking">>}
      PROVE  Inv'
  <2> DEFINE p == [tab[t] EXCEPT !.pc = found]
  <2>1. tab[t].pc = from /\ (tab' = [tab EXCEPT ![t] = p] \/ tab' = [tab EXCEPT ![t] = NewTab])
    BY <1>1 DEF Get
  <2>2. p \in Tab /\ p.pc = found /\ p.job = tab[t].job /\ p.told = tab[t].told /\ p.typed = tab[t].typed
    BY <1>0, <1>1 DEF Tab
  <2>3. PageOk(p)
    BY <1>0, <1>1, <2>1, <2>2 DEF PageOk
  <2> HIDE DEF p
  <2> QED
    BY <1>0, <1>1, <2>1, <2>2, <2>3, PageMoves DEF Get, _expire_locked
<1> QED
  BY <1>1 DEF Poll, GetResult

(* A lost poll, and the result as it is served. *)
LEMMA OtherPageStepsInv ==
    ASSUME Inv, NEW t \in Tabs, PollIsLost(t) \/ CheckResult(t) \/ OpenResult(t)
    PROVE  Inv'
<1>0. tab[t] \in Tab /\ PageOk(tab[t]) /\ NewTab \in Tab /\ PageOk(NewTab)
  BY StateParts, NewTabOk DEF Inv, TypeOK, PagesTell
<1>1. \E p \in Tab : PageOk(p) /\ tab' = [tab EXCEPT ![t] = p]
  <2>1. CASE PollIsLost(t)
    <3> DEFINE p == [tab[t] EXCEPT !.failedPolls = @ + 1, !.pc = "polling"]
    <3>1. tab[t].pc = "polling" /\ tab' = [tab EXCEPT ![t] = Blip(tab[t])]
      BY <2>1 DEF PollIsLost
    <3>2. CASE tab[t].failedPolls + 1 < MaxFailedPolls
      <4>0. tab[t].failedPolls \in 0..MaxFailedPolls
        BY <1>0 DEF Tab
      <4>3. tab[t].failedPolls + 1 \in 0..MaxFailedPolls
        BY <4>0, <3>2, QueueAssumption
      <4>1. p \in Tab /\ p.pc = "polling" /\ p.job = tab[t].job /\ p.told = tab[t].told
        BY <1>0, <4>3 DEF Tab
      <4>2. PageOk(p)
        BY <1>0, <3>1, <4>1 DEF PageOk
      <4> QED
        BY <3>1, <3>2, <4>1, <4>2 DEF Blip
    <3>3. CASE ~(tab[t].failedPolls + 1 < MaxFailedPolls)
      BY <1>0, <3>1, <3>3 DEF Blip
    <3> QED
      BY <3>2, <3>3
  <2>2. CASE CheckResult(t)
    <3> DEFINE j == tab[t].job
               p == [tab[t] EXCEPT !.typed = job[j].typed, !.pc = "opening"]
    <3>1. /\ tab[t].pc = "checking"
          /\ tab' = [tab EXCEPT ![t] = p] \/ tab' = [tab EXCEPT ![t] = NewTab]
      BY <2>2 DEF CheckResult
    <3>2. j \in Jobs /\ job[j] \in Job
      BY <1>0, <3>1 DEF PageOk, Inv, TypeOK
    <3>3. /\ p \in Tab /\ p.pc = "opening" /\ p.job = j /\ p.told = tab[t].told
          /\ p.typed = job[j].typed
      BY <1>0, <3>2 DEF Tab, Job
    <3>4. PageOk(p)
      BY <1>0, <3>1, <3>2, <3>3 DEF PageOk
    <3> HIDE DEF p
    <3> QED
      BY <1>0, <3>1, <3>3, <3>4
  <2>3. CASE OpenResult(t)
    BY <1>0, <2>3 DEF OpenResult
  <2> QED
    BY <2>1, <2>2, <2>3
<1> QED
  BY <1>1, PageMoves DEF PollIsLost, CheckResult, OpenResult

(* The answer to a page. *)
LEMMA DescribeInv ==
    ASSUME Inv, NEW t \in Tabs, describe(t)
    PROVE  Inv'
<1>1. PICK p \in Tab : PageOk(p) /\ tab' = [tab EXCEPT ![t] = p]
  BY DescribedPage
<1> QED
  BY <1>1, PageMoves DEF describe

(* A refused submit only forgets what expired. *)
LEMMA SubmitRefusedInv ==
    ASSUME Inv, NEW t \in Tabs, NEW k \in Requests, SubmitRefused(t, k)
    PROVE  Inv'
<1>1. tab[t] \in Tab /\ PageOk(tab[t]) /\ tab' = [tab EXCEPT ![t] = tab[t]]
  BY DEF SubmitRefused, Inv, TypeOK, PagesTell
<1> QED
  BY <1>1, PageMoves DEF SubmitRefused, _expire_locked

(* The number of a new animation is not in use. *)
LEMMA NewNumber ==
    ASSUME Inv, created + 1 \in Jobs
    PROVE  /\ created \in Nat /\ created + 1 \notin known /\ worker.job # created + 1
           /\ \A i \in DOMAIN queue : queue[i] # created + 1
           /\ \A t \in Tabs : tab[t].job # created + 1
<1>1. created \in 0..MaxJobs
  BY DEF Inv, TypeOK
<1>2. created \in Nat
  BY <1>1, QueueAssumption
<1>3. created + 1 \notin known /\ \A i \in DOMAIN queue : queue[i] # created + 1
  <2>1. known \subseteq 1..created /\ \A i \in DOMAIN queue : queue[i] <= created
    BY DEF Inv, Numbered
  <2> QED
    BY <1>2, <2>1
<1>4. worker.job # created + 1
  BY <1>2, <1>3 DEF Inv, WorkerKnows
<1>5. \A t \in Tabs : tab[t].job # created + 1
  <2>1. \A t \in Tabs : tab[t].job <= created
    BY DEF Inv, PagesTell, PageOk
  <2> QED
    BY <1>2, <2>1
<1> QED
  BY <1>2, <1>3, <1>4, <1>5

(* A new animation, that waits to be put or that is stranded. *)
Inserted(t, k) == SubmitInserts(t, k) \/ SubmitRaises(t, k)

(* Animation r is inserted, and the page that submitted it becomes p. *)
InsertedAs(t, k, p, r) ==
    /\ created + 1 \in Jobs /\ created' = created + 1
    /\ job' = [job EXCEPT ![created + 1] = r]
    /\ r.user = Owner[t] /\ r.key = k /\ r.status = "queued" /\ ~r.old
    /\ known' = (known \ Expired) \cup {created + 1}
    /\ worker' = worker \/ (worker.pc = "off" /\ worker' = [pc |-> "idle", job |-> 0])
    /\ disk' \subseteq disk
    /\ tab[t].pc = "idle" /\ tab' = [tab EXCEPT ![t] = p] /\ p.told = ""
    /\ \/ p.pc = "putting" /\ p.job = created + 1 /\ ~r.stranded
       \/ p.pc = "idle" /\ p.job = 0 /\ r.stranded
    /\ UNCHANGED <<queue, slot, restarts>>

(* What the two outcomes of an insertion have in common. *)
LEMMA Insertion ==
    ASSUME Inv, NEW t \in Tabs, NEW k \in Requests, Inserted(t, k)
    PROVE  \E p \in Tab, r \in Job : InsertedAs(t, k, p, r)
<1>1. CASE SubmitInserts(t, k)
  <2> DEFINE r == [NoJob EXCEPT !.user = Owner[t], !.key = k]
             p == [NewTab EXCEPT !.pc = "putting", !.job = created + 1]
  <2>1. /\ created + 1 \in Jobs /\ created' = created + 1 /\ job' = [job EXCEPT ![created + 1] = r]
        /\ known' = (known \ Expired) \cup {created + 1}
        /\ worker' = worker \/ (worker.pc = "off" /\ worker' = [pc |-> "idle", job |-> 0])
        /\ disk' \subseteq disk
        /\ tab[t].pc = "idle" /\ tab' = [tab EXCEPT ![t] = p]
        /\ UNCHANGED <<queue, slot, restarts>>
    BY <1>1 DEF SubmitInserts, Inserts, _ensure_worker_locked
  <2>2. /\ r \in Job /\ r.user = Owner[t] /\ r.key = k /\ r.status = "queued"
        /\ ~r.old /\ ~r.stranded
    BY QueueAssumption DEF NoJob, Job
  <2>3. p \in Tab /\ p.pc = "putting" /\ p.job = created + 1 /\ p.told = ""
    BY <2>1, StateParts DEF NewTab, Tab
  <2> HIDE DEF r, p
  <2>4. InsertedAs(t, k, p, r)
    BY <2>1, <2>2, <2>3 DEF InsertedAs
  <2> QED
    BY <2>2, <2>3, <2>4
<1>2. CASE SubmitRaises(t, k)
  <2> DEFINE r == [NoJob EXCEPT !.user = Owner[t], !.key = k, !.stranded = TRUE]
  <2>1. /\ created + 1 \in Jobs /\ created' = created + 1 /\ job' = [job EXCEPT ![created + 1] = r]
        /\ known' = (known \ Expired) \cup {created + 1}
        /\ worker' = worker /\ disk' \subseteq disk
        /\ tab[t].pc = "idle" /\ tab' = [tab EXCEPT ![t] = NewTab]
        /\ UNCHANGED <<queue, slot, restarts>>
    BY <1>2 DEF SubmitRaises, Inserts
  <2>2. /\ r \in Job /\ r.user = Owner[t] /\ r.key = k /\ r.status = "queued"
        /\ ~r.old /\ r.stranded
    BY QueueAssumption DEF NoJob, Job
  <2> HIDE DEF r
  <2>3. InsertedAs(t, k, NewTab, r)
    BY <2>1, <2>2, StateParts DEF InsertedAs
  <2> QED
    BY <2>2, <2>3, StateParts
<1> QED
  BY <1>1, <1>2 DEF Inserted

(* A new animation keeps the invariant. *)
LEMMA InsertionInv ==
    ASSUME Inv, NEW t \in Tabs, NEW k \in Requests, Inserted(t, k)
    PROVE  Inv'
<1> DEFINE j == created + 1
<1>0. PICK p \in Tab, r \in Job : InsertedAs(t, k, p, r)
  BY Insertion, Zenon
<1>1. /\ j \in Jobs /\ created' = j /\ job' = [job EXCEPT ![j] = r]
      /\ known' = (known \ Expired) \cup {j}
      /\ worker' = worker \/ (worker.pc = "off" /\ worker' = [pc |-> "idle", job |-> 0])
      /\ disk' \subseteq disk
      /\ tab' = [tab EXCEPT ![t] = p]
      /\ UNCHANGED <<queue, slot, restarts>>
  BY <1>0 DEF InsertedAs
<1>2. /\ created \in Nat /\ j \notin known /\ worker.job # j
      /\ \A i \in DOMAIN queue : queue[i] # j
      /\ \A s \in Tabs : tab[s].job # j
  BY <1>1, NewNumber
<1>3. r \in Job /\ r.status = "queued" /\ ~r.old
  BY <1>0 DEF InsertedAs
<1>4. p \in Tab /\ p.told = "" /\ (p.job = j \/ (p.pc = "idle" /\ p.job = 0))
  BY <1>0 DEF InsertedAs
<1> HIDE DEF j
<1>5. /\ \A i \in Jobs : job'[i] = IF i = j THEN r ELSE job[i]
      /\ \A s \in Tabs : tab'[s] = IF s = t THEN p ELSE tab[s]
  BY <1>1 DEF Inv, TypeOK
<1>6. TypeOK'
  <2>1. created' \in 0..MaxJobs
    BY <1>1, QueueAssumption DEF Jobs
  <2>2. job' \in [Jobs -> Job] /\ tab' \in [Tabs -> Tab]
    BY <1>1, <1>3, <1>4 DEF Inv, TypeOK
  <2>3. worker' \in [pc : {"off", "idle", "taken", "working", "publishing"}, job : Jobs \cup {0}]
    BY <1>1 DEF Inv, TypeOK
  <2> QED
    BY <1>1, <2>1, <2>2, <2>3 DEF Inv, TypeOK
<1>7. Numbered'
  <2>1. created' = created + 1
    BY <1>1 DEF j
  <2>2. \A i \in known : i \in 1..created
    BY DEF Inv, Numbered
  <2>3. \A i \in DOMAIN queue : queue[i] \in Jobs /\ queue[i] <= created
    BY DEF Inv, Numbered, TypeOK
  <2>4. \A i \in known' : i \in 1..(created + 1)
    BY <1>1, <1>2, <2>2 DEF j
  <2>5. \A i \in DOMAIN queue : queue[i] <= created + 1
    BY <1>2, <2>3 DEF Jobs
  <2> QED
    BY <1>1, <2>1, <2>4, <2>5 DEF Numbered
<1>8. WorkerKnows'
  <2>1. worker.pc \notin {"off", "idle"} => worker.job \in known \ Expired /\ worker.job \in Jobs
    BY DEF Inv, TypeOK, WorkerKnows, JobsTell, Expired
  <2>2. CASE worker.pc \in {"off", "idle"}
    BY <1>1, <2>2 DEF Inv, WorkerKnows
  <2>3. CASE worker.pc \notin {"off", "idle"}
    <3>1. worker' = worker /\ worker.job \in known' /\ job'[worker.job] = job[worker.job]
      BY <1>1, <1>2, <1>5, <2>1, <2>3
    <3> QED
      BY <2>3, <3>1 DEF Inv, WorkerKnows
  <2> QED
    BY <2>2, <2>3
<1>9. JobsTell'
  <2> SUFFICES ASSUME NEW i \in Jobs
               PROVE  /\ job'[i].old => job'[i].status \in {"done", "failed"} /\ worker'.job # i
                      /\ job'[i].status = "running" => worker'.pc = "working" /\ worker'.job = i
                      /\ job'[i].status = "done" =>
                            job'[i].typed \/ (worker'.pc = "publishing" /\ worker'.job = i)
    BY DEF JobsTell
  <2>1. CASE i = j
    BY <1>3, <1>5, <2>1
  <2>2. CASE i # j
    <3>1. job'[i] = job[i] /\ i # 0
      BY <1>5, <2>2 DEF Jobs
    <3> QED
      BY <1>1, <3>1 DEF Inv, JobsTell
  <2> QED
    BY <2>1, <2>2
<1>10. PagesTell'
  <2> SUFFICES ASSUME NEW s \in Tabs PROVE PageOk(tab[s])'
    BY DEF PagesTell
  <2>0. PageOk(tab[s])
    BY DEF Inv, PagesTell
  <2>1. CASE s = t
    <3>1. created' = j /\ tab'[s] = p /\ j <= j /\ 0 <= j
      BY <1>1, <1>2, <1>5, <2>1 DEF j
    <3> QED
      BY <1>1, <1>4, <3>1 DEF PageOk
  <2>2. CASE s # t
    <3>1. tab'[s] = tab[s] /\ tab[s].job # j /\ tab[s] \in Tab
      BY <1>2, <1>5, <2>2 DEF Inv, TypeOK
    <3>2. tab[s].pc # "idle" => tab[s].job \in Jobs /\ job'[tab[s].job] = job[tab[s].job]
      BY <1>5, <2>0, <3>1 DEF PageOk
    <3>3. tab[s].job <= created'
      <4>1. tab[s].job \in Jobs \cup {0}
        BY <3>1 DEF Tab
      <4>2. tab[s].job \in Int
        BY <4>1 DEF Jobs
      <4>3. tab[s].job <= created
        BY <2>0 DEF PageOk
      <4> QED
        BY <1>1, <1>2, <4>2, <4>3 DEF j
    <3> QED
      BY <2>0, <3>1, <3>2, <3>3 DEF PageOk
  <2> QED
    BY <2>1, <2>2
<1> QED
  BY <1>6, <1>7, <1>8, <1>9, <1>10 DEF Inv

(* The handler puts the animation it inserted. *)
LEMMA PutInv ==
    ASSUME Inv, NEW t \in Tabs, Put(t)
    PROVE  Inv'
<1> DEFINE p == [tab[t] EXCEPT !.pc = "describing"]
<1>1. /\ tab[t].pc = "putting" /\ queue' = Append(queue, tab[t].job)
      /\ tab' = [tab EXCEPT ![t] = p]
      /\ UNCHANGED <<job, created, known, worker, slot, disk, restarts>>
  BY DEF Put
<1>2. tab[t] \in Tab /\ tab[t].job \in Jobs /\ tab[t].job <= created /\ tab[t].told # "done"
  BY <1>1 DEF Inv, TypeOK, PagesTell, PageOk
<1>3. p \in Tab /\ p.pc = "describing" /\ p.job = tab[t].job /\ p.told = tab[t].told
  BY <1>2 DEF Tab
<1> HIDE DEF p
<1>4. TypeOK'
  BY <1>1, <1>2, <1>3 DEF Inv, TypeOK
<1>5. Numbered'
  <2>1. queue \in Seq(Jobs)
    BY DEF Inv, TypeOK
  <2>2. \A i \in DOMAIN queue' : queue'[i] = tab[t].job \/ (i \in DOMAIN queue /\ queue'[i] = queue[i])
    BY <1>1, <1>2, <2>1
  <2> QED
    BY <1>1, <1>2, <2>2 DEF Inv, Numbered
<1>6. WorkerKnows' /\ JobsTell'
  BY <1>1 DEF Inv, WorkerKnows, JobsTell
<1>7. PagesTell'
  <2>1. \A s \in Tabs : tab'[s] = (IF s = t THEN p ELSE tab[s])
    BY <1>1 DEF Inv, TypeOK
  <2>2. \A s \in Tabs : PageOk(tab[s])
    BY DEF Inv, PagesTell
  <2>3. PageOk(p)
    BY <1>2, <1>3 DEF PageOk
  <2> QED
    BY <1>1, <2>1, <2>2, <2>3 DEF PagesTell, PageOk
<1> QED
  BY <1>4, <1>5, <1>6, <1>7 DEF Inv

(* A finished animation stays finished, whatever else moves. *)
LEMMA PagesKeepKnowing ==
    ASSUME Inv, UNCHANGED <<created, tab>>,
           \A j \in Jobs : job[j].status = "done" /\ job[j].typed =>
                             job'[j].status = "done" /\ job'[j].typed
    PROVE  PagesTell'
<1>1. \A s \in Tabs : PageOk(tab[s])
  BY DEF Inv, PagesTell
<1> SUFFICES ASSUME NEW s \in Tabs PROVE PageOk(tab[s])'
  BY DEF PagesTell
<1> QED
  BY <1>1 DEF PageOk

(* The worker takes the head of the queue, or drops it. *)
LEMMA TakeInv == ASSUME Inv, Take PROVE Inv'
<1>1. queue \in Seq(Jobs) /\ queue # <<>>
  BY DEF Inv, TypeOK, Take
<1>2. Head(queue) \in Jobs /\ Tail(queue) \in Seq(Jobs)
  BY <1>1
<1>3. TypeOK'
  BY <1>2 DEF Inv, TypeOK, Take
<1>4. Numbered'
  <2>1. \A i \in DOMAIN Tail(queue) : Tail(queue)[i] = queue[i + 1] /\ i + 1 \in DOMAIN queue
    BY <1>1
  <2> QED
    BY <2>1 DEF Inv, Numbered, Take
<1>5. WorkerKnows'
  BY DEF Inv, WorkerKnows, Take
<1>6. JobsTell'
  BY DEF Inv, JobsTell, Take
<1>7. PagesTell'
  BY PagesKeepKnowing DEF Take
<1> QED
  BY <1>3, <1>4, <1>5, <1>6, <1>7 DEF Inv

(* A job changes, and its worker with it. *)
LEMMA JobMoves ==
    ASSUME Inv, NEW j \in Jobs, NEW r \in Job,
           job' = [job EXCEPT ![j] = r],
           worker' \in [pc : {"off", "idle", "taken", "working", "publishing"}, job : Jobs \cup {0}],
           slot' \in {None, "worker"} \cup Directs, disk' \in SUBSET Jobs,
           UNCHANGED <<created, known, queue, tab, restarts>>,
           job[j].status = "done" /\ job[j].typed => r.status = "done" /\ r.typed,
           /\ worker.job = j \/ worker' = worker
           /\ worker'.job = j \/ worker' = worker \/ worker' = [pc |-> "idle", job |-> 0]
           /\ worker'.pc = "taken" /\ worker'.job = j => r.status = "queued"
           /\ worker'.pc = "working" /\ worker'.job = j => r.status = "running"
           /\ worker'.pc = "publishing" /\ worker'.job = j => r.status = "done"
           /\ r.old => r.status \in {"done", "failed"} /\ worker'.job # j
           /\ r.status = "running" => worker'.pc = "working" /\ worker'.job = j
           /\ r.status = "done" => r.typed \/ (worker'.pc = "publishing" /\ worker'.job = j)
           /\ worker'.job = j => worker.job = j /\ worker'.pc \notin {"off", "idle"}
                                 /\ worker.pc \notin {"off", "idle"}
    PROVE  Inv'
<1>1. \A i \in Jobs : job'[i] = (IF i = j THEN r ELSE job[i])
  BY DEF Inv, TypeOK
<1>2. TypeOK'
  BY DEF Inv, TypeOK
<1>3. Numbered'
  BY DEF Inv, Numbered
<1>4. worker.pc \notin {"off", "idle"} => worker.job \in known /\ worker.job \in Jobs
  BY DEF Inv, WorkerKnows, TypeOK
<1>5. WorkerKnows'
  <2>1. CASE worker' = [pc |-> "idle", job |-> 0]
    BY <2>1 DEF WorkerKnows
  <2>2. CASE worker'.job = j
    BY <1>1, <1>4, <2>2 DEF WorkerKnows
  <2>3. CASE worker' = worker /\ worker'.job # j
    <3>1. worker.pc \notin {"off", "idle"} => job'[worker.job] = job[worker.job]
      BY <1>1, <1>4, <2>3
    <3> QED
      BY <2>3, <3>1 DEF Inv, WorkerKnows
  <2> QED
    BY <2>1, <2>2, <2>3
<1>6. JobsTell'
  <2> SUFFICES ASSUME NEW i \in Jobs
               PROVE  /\ job'[i].old => job'[i].status \in {"done", "failed"} /\ worker'.job # i
                      /\ job'[i].status = "running" => worker'.pc = "working" /\ worker'.job = i
                      /\ job'[i].status = "done" =>
                            job'[i].typed \/ (worker'.pc = "publishing" /\ worker'.job = i)
    BY DEF JobsTell
  <2>1. CASE i = j
    BY <1>1, <2>1
  <2>2. CASE i # j
    <3>1. /\ job[i].old => job[i].status \in {"done", "failed"} /\ worker.job # i
          /\ job[i].status = "running" => worker.pc = "working" /\ worker.job = i
          /\ job[i].status = "done" => job[i].typed \/ (worker.pc = "publishing" /\ worker.job = i)
          /\ job'[i] = job[i]
      BY <1>1, <2>2 DEF Inv, JobsTell
    <3>2. CASE worker' = worker
      BY <3>1, <3>2
    <3>3. CASE worker' # worker
      <4>1. worker.job = j /\ (worker'.job = j \/ worker'.job = 0) /\ i # 0
        BY <3>3 DEF Jobs
      <4> QED
        BY <2>2, <3>1, <4>1
    <3> QED
      BY <3>2, <3>3
  <2> QED
    BY <2>1, <2>2
<1>7. PagesTell'
  BY <1>1, PagesKeepKnowing
<1> QED
  BY <1>2, <1>3, <1>5, <1>6, <1>7 DEF Inv

(* The worker renders, and a finished animation grows old. *)
LEMMA WorkInv ==
    ASSUME Inv, \/ StartWork \/ WorkSucceeds \/ WorkIsPublished \/ WorkFails
                \/ \E i \in Jobs : TtlPasses(i)
    PROVE  Inv'
<1>0. worker.pc \notin {"off", "idle"} => /\ worker.job \in known /\ worker.job \in Jobs
                                          /\ job[worker.job] \in Job /\ ~job[worker.job].old
  BY DEF Inv, TypeOK, WorkerKnows, JobsTell
<1>a. worker \in [pc : {"off", "idle", "taken", "working", "publishing"}, job : Jobs \cup {0}]
  BY DEF Inv, TypeOK
<1>b. \A i \in Jobs : job[i] \in Job
  BY DEF Inv, TypeOK
<1> DEFINE j == worker.job
<1>1. CASE StartWork
  <2> DEFINE r == [job[j] EXCEPT !.status = "running"]
  <2>1. /\ worker.pc = "taken" /\ job' = [job EXCEPT ![j] = r]
        /\ worker' = [worker EXCEPT !.pc = "working"] /\ slot' = "worker"
        /\ UNCHANGED <<created, known, queue, disk, tab, restarts>>
    BY <1>1 DEF StartWork
  <2>2. job[j].status = "queued" /\ j \in Jobs
    BY <1>0, <2>1 DEF Inv, WorkerKnows
  <2>3. r \in Job /\ r.status = "running" /\ ~r.old
    BY <1>0, <2>1 DEF Job
  <2>4. /\ worker'.pc = "working" /\ worker'.job = j
        /\ worker' \in [pc : {"off", "idle", "taken", "working", "publishing"}, job : Jobs \cup {0}]
    BY <1>a, <2>1
  <2>5. disk' \in SUBSET Jobs
    BY <2>1 DEF Inv, TypeOK
  <2> HIDE DEF r, j
  <2> QED
    BY <2>1, <2>2, <2>3, <2>4, <2>5, JobMoves DEF j
<1>2. CASE WorkSucceeds
  <2> DEFINE r == [job[j] EXCEPT !.status = "done"]
  <2>1. /\ worker.pc = "working" /\ job' = [job EXCEPT ![j] = r]
        /\ worker' = [worker EXCEPT !.pc = "publishing"] /\ disk' = disk \cup {j}
        /\ UNCHANGED <<created, known, queue, slot, tab, restarts>>
    BY <1>2 DEF WorkSucceeds
  <2>2. job[j].status = "running" /\ j \in Jobs
    BY <1>0, <2>1 DEF Inv, WorkerKnows
  <2>3. r \in Job /\ r.status = "done" /\ ~r.old
    BY <1>0, <2>1 DEF Job
  <2>4. /\ worker'.pc = "publishing" /\ worker'.job = j
        /\ worker' \in [pc : {"off", "idle", "taken", "working", "publishing"}, job : Jobs \cup {0}]
    BY <1>a, <2>1
  <2>5. disk' \in SUBSET Jobs /\ slot' \in {None, "worker"} \cup Directs
    BY <2>1, <2>2 DEF Inv, TypeOK
  <2> HIDE DEF r, j
  <2> QED
    BY <2>1, <2>2, <2>3, <2>4, <2>5, JobMoves DEF j
<1>3. CASE WorkIsPublished
  <2> DEFINE r == [job[j] EXCEPT !.typed = TRUE]
  <2>1. /\ worker.pc = "publishing" /\ job' = [job EXCEPT ![j] = r]
        /\ worker' = [pc |-> "idle", job |-> 0] /\ slot' = None
        /\ UNCHANGED <<created, known, queue, disk, tab, restarts>>
    BY <1>3 DEF WorkIsPublished
  <2>2. job[j].status = "done" /\ j \in Jobs
    BY <1>0, <2>1 DEF Inv, WorkerKnows
  <2>3. r \in Job /\ r.status = "done" /\ ~r.old /\ r.typed
    BY <1>0, <2>1, <2>2 DEF Job
  <2>4. /\ worker'.pc = "idle" /\ worker'.job = 0 /\ j # 0
        /\ worker' \in [pc : {"off", "idle", "taken", "working", "publishing"}, job : Jobs \cup {0}]
    BY <2>1, <2>2 DEF Jobs
  <2>5. disk' \in SUBSET Jobs /\ slot' \in {None, "worker"} \cup Directs
    BY <2>1 DEF Inv, TypeOK
  <2> HIDE DEF r, j
  <2> QED
    BY <2>1, <2>2, <2>3, <2>4, <2>5, JobMoves DEF j
<1>4. CASE WorkFails
  <2> DEFINE r == [job[j] EXCEPT !.status = "failed"]
  <2>1. /\ worker.pc = "working" /\ job' = [job EXCEPT ![j] = r]
        /\ worker' = [pc |-> "idle", job |-> 0] /\ slot' = None
        /\ disk' \subseteq disk \cup {j}
        /\ UNCHANGED <<created, known, queue, tab, restarts>>
    BY <1>4 DEF WorkFails
  <2>2. job[j].status = "running" /\ j \in Jobs
    BY <1>0, <2>1 DEF Inv, WorkerKnows
  <2>3. r \in Job /\ r.status = "failed" /\ ~r.old
    BY <1>0, <2>1 DEF Job
  <2>4. /\ worker'.pc = "idle" /\ worker'.job = 0 /\ j # 0
        /\ worker' \in [pc : {"off", "idle", "taken", "working", "publishing"}, job : Jobs \cup {0}]
    BY <2>1, <2>2 DEF Jobs
  <2>5. disk' \in SUBSET Jobs /\ slot' \in {None, "worker"} \cup Directs
    BY <2>1, <2>2 DEF Inv, TypeOK
  <2> HIDE DEF r, j
  <2> QED
    BY <2>1, <2>2, <2>3, <2>4, <2>5, JobMoves DEF j
<1>5. ASSUME NEW i \in Jobs, TtlPasses(i) PROVE Inv'
  <2> DEFINE r == [job[i] EXCEPT !.old = TRUE]
  <2>1. /\ i \in known /\ job[i].status \in {"done", "failed"} /\ worker.job # i
        /\ job' = [job EXCEPT ![i] = r]
        /\ UNCHANGED <<created, known, queue, worker, slot, disk, tab, restarts>>
    BY <1>5 DEF TtlPasses
  <2>2. r \in Job /\ r.status = job[i].status /\ r.typed = job[i].typed
    BY <1>b DEF Job
  <2>3. r.status = "done" => r.typed
    BY <2>1, <2>2 DEF Inv, JobsTell
  <2>4. worker' = worker /\ worker' \in [pc : {"off", "idle", "taken", "working", "publishing"},
                                         job : Jobs \cup {0}]
    BY <1>a, <2>1
  <2>5. disk' \in SUBSET Jobs /\ slot' \in {None, "worker"} \cup Directs
    BY <2>1 DEF Inv, TypeOK
  <2> HIDE DEF r
  <2> QED
    BY <2>1, <2>2, <2>3, <2>4, <2>5, JobMoves
<1> QED
  BY <1>1, <1>2, <1>3, <1>4, <1>5

(* Nothing of the queue survives a restart but the files. *)
LEMMA RestartInv == ASSUME Inv, Restart PROVE Inv'
<1>1. /\ known' = {} /\ queue' = <<>> /\ worker' = NoWorker /\ slot' = None
      /\ job' = [j \in Jobs |-> NoJob] /\ created' = created /\ disk' = disk
      /\ restarts < MaxRestarts /\ restarts' = restarts + 1
  BY DEF Restart
<1>2. ASSUME NEW t \in Tabs
      PROVE  tab'[t] \in Tab /\ tab'[t].job <= created /\ tab'[t].told # "done"
             /\ (tab'[t].pc # "idle" => tab'[t].job \in Jobs)
  <2>0. tab[t] \in Tab /\ PageOk(tab[t]) /\ NewTab \in Tab /\ PageOk(NewTab)
    BY <1>2, StateParts, NewTabOk DEF Inv, TypeOK, PagesTell
  <2>1. \/ tab[t].pc = "polling" /\ tab'[t] = tab[t]
        \/ tab[t].pc = "describing" /\ tab'[t] = Blip(tab[t])
        \/ tab'[t] = NewTab
    BY <1>2 DEF Restart
  <2>2. CASE tab[t].pc = "polling" /\ tab'[t] = tab[t]
    BY <2>0, <2>2 DEF PageOk
  <2>3. CASE tab'[t] = NewTab
    BY <2>0, <2>3, StateParts DEF PageOk
  <2>4. CASE tab[t].pc = "describing" /\ tab'[t] = Blip(tab[t]) /\ tab'[t] # NewTab
    <3>1. /\ tab'[t] = [tab[t] EXCEPT !.failedPolls = @ + 1, !.pc = "polling"]
          /\ tab[t].failedPolls + 1 < MaxFailedPolls
      BY <2>4 DEF Blip
    <3>2. tab[t].failedPolls \in 0..MaxFailedPolls
      BY <2>0 DEF Tab
    <3>3. tab[t].failedPolls + 1 \in 0..MaxFailedPolls
      BY <3>1, <3>2, QueueAssumption
    <3>4. tab'[t] \in Tab /\ tab'[t].job = tab[t].job /\ tab'[t].told = tab[t].told
      BY <2>0, <3>1, <3>3 DEF Tab
    <3> QED
      BY <2>0, <2>4, <3>4 DEF PageOk
  <2> QED
    BY <2>1, <2>2, <2>3, <2>4
<1>3. TypeOK'
  <2>1. restarts' \in 0..MaxRestarts
    BY <1>1, QueueAssumption DEF Inv, TypeOK
  <2>2. tab' \in [Tabs -> Tab]
    BY <1>2 DEF Restart
  <2>3. worker' \in [pc : {"off", "idle", "taken", "working", "publishing"}, job : Jobs \cup {0}]
    BY <1>1 DEF NoWorker
  <2>4. job' \in [Jobs -> Job]
    BY <1>1, StateParts
  <2> QED
    BY <1>1, <2>1, <2>2, <2>3, <2>4 DEF Inv, TypeOK
<1>4. Numbered' /\ WorkerKnows'
  BY <1>1 DEF Numbered, WorkerKnows, NoWorker
<1>5. JobsTell'
  <2>1. \A j \in Jobs : job'[j] = NoJob
    BY <1>1
  <2> QED
    BY <2>1, StateParts DEF JobsTell
<1>6. PagesTell'
  BY <1>1, <1>2 DEF PagesTell, PageOk
<1> QED
  BY <1>3, <1>4, <1>5, <1>6 DEF Inv

(* Every step keeps the invariant. *)
LEMMA StepInv == Inv /\ [Next]_vars => Inv'
<1> SUFFICES ASSUME Inv, [Next]_vars PROVE Inv'
  OBVIOUS
<1>1. ASSUME NEW t \in Tabs, NEW k \in Requests, Submit(t, k) PROVE Inv'
  BY <1>1, SubmitReusesInv, SubmitRefusedInv, InsertionInv DEF Submit, Inserted
<1>2. ASSUME NEW t \in Tabs, Handler(t) \/ PollStep(t) PROVE Inv'
  BY <1>2, DescribeInv, PutInv, GetInv, OtherPageStepsInv DEF Handler, PollStep
<1>3. CASE Take
  BY <1>3, TakeInv
<1>4. CASE StartWork \/ Finish \/ \E j \in Jobs : TtlPasses(j)
  BY <1>4, WorkInv DEF Finish
<1>5. ASSUME NEW d \in Directs, DirectStarts(d) \/ DirectEnds(d) PROVE Inv'
  <2>1. UNCHANGED <<job, created, known, queue, worker, disk, tab, restarts>> /\ slot' \in {None, d}
    BY <1>5 DEF DirectStarts, DirectEnds
  <2>2. TypeOK'
    BY <2>1 DEF Inv, TypeOK
  <2>3. Numbered' /\ WorkerKnows'
    BY <2>1 DEF Inv, Numbered, WorkerKnows
  <2>4. JobsTell'
    BY <2>1 DEF Inv, JobsTell
  <2>5. PagesTell'
    BY <2>1 DEF Inv, PagesTell, PageOk
  <2> QED
    BY <2>2, <2>3, <2>4, <2>5 DEF Inv
<1>6. CASE Restart
  BY <1>6, RestartInv
<1>7. CASE UNCHANGED vars
  BY <1>7 DEF vars, Inv, TypeOK, Numbered, WorkerKnows, JobsTell, PagesTell, PageOk
<1> QED
  BY <1>1, <1>2, <1>3, <1>4, <1>5, <1>6, <1>7 DEF Next

(* What the worker, the pages and the jobs agree on holds always. *)
THEOREM Invariant == Spec => []Inv
BY InitInv, StepInv, PTL DEF Spec

(* Every reachable state of the animations, their queue, the worker, the   *)
(* files and the pages is of its type.                                     *)
THEOREM TypeCorrect == Spec => []TypeOK
<1>1. Inv => TypeOK
  BY DEF Inv
<1> QED
  BY <1>1, Invariant, PTL

-----------------------------------------------------------------------------
(***************************************************************************)
(* Between two submits the jobs only move on: none is known anew, none     *)
(* becomes active or comes back from a failure.                            *)
(***************************************************************************)
JobsMoveOn ==
    \A j \in known' :
        /\ j \in known /\ j \in Jobs
        /\ job'[j].user = job[j].user /\ job'[j].key = job[j].key
        /\ job'[j].stranded <=> job[j].stranded
        /\ job'[j].status = "queued" => job[j].status = "queued"
        /\ job'[j].status \in {"queued", "running"} => job[j].status \in {"queued", "running"}
        /\ job'[j].status # "failed" => job[j].status # "failed"

(* What each step but an insertion does to the jobs. *)
LEMMA StepsMoveOn ==
    ASSUME Inv, [Next]_vars
    PROVE  \/ JobsMoveOn
           \/ \E t \in Tabs, k \in Requests : Inserted(t, k)
<1>0. known \subseteq Jobs /\ job \in [Jobs -> Job]
  BY DEF Inv, TypeOK
<1>1. ASSUME NEW t \in Tabs, NEW k \in Requests, SubmitReuses(t, k) \/ SubmitRefused(t, k)
      PROVE  JobsMoveOn
  BY <1>0, <1>1 DEF SubmitReuses, SubmitRefused, JobsMoveOn
<1>2. ASSUME NEW t \in Tabs, Handler(t) \/ PollStep(t)
      PROVE  JobsMoveOn
  <2>1. known' \subseteq known /\ job' = job
    BY <1>2 DEF Handler, PollStep, Put, describe, GetResult, CheckResult, OpenResult, Poll, Get,
                PollIsLost
  <2> QED
    BY <1>0, <2>1 DEF JobsMoveOn
<1>3. CASE Take
  BY <1>0, <1>3 DEF Take, JobsMoveOn
<1>4. CASE StartWork \/ Finish
  <2>1. worker.job \in Jobs /\ job[worker.job] \in Job
        /\ job[worker.job].status \in {"queued", "running", "done"}
    BY <1>0, <1>4 DEF StartWork, Finish, WorkSucceeds, WorkFails, WorkIsPublished, Inv, WorkerKnows
  <2>2. CASE StartWork
    <3>1. job[worker.job].status = "queued"
      BY <2>2 DEF StartWork, Inv, WorkerKnows
    <3> QED
      BY <1>0, <2>1, <2>2, <3>1 DEF StartWork, JobsMoveOn, Job
  <2>3. CASE WorkSucceeds
    BY <1>0, <2>1, <2>3 DEF WorkSucceeds, JobsMoveOn, Job
  <2>4. CASE WorkFails
    BY <1>0, <2>1, <2>4 DEF WorkFails, JobsMoveOn, Job
  <2>5. CASE WorkIsPublished
    BY <1>0, <2>1, <2>5 DEF WorkIsPublished, JobsMoveOn, Job
  <2> QED
    BY <1>4, <2>2, <2>3, <2>4, <2>5 DEF Finish
<1>5. ASSUME NEW d \in Directs, DirectStarts(d) \/ DirectEnds(d)
      PROVE  JobsMoveOn
  BY <1>0, <1>5 DEF DirectStarts, DirectEnds, JobsMoveOn
<1>6. ASSUME NEW i \in Jobs, TtlPasses(i)
      PROVE  JobsMoveOn
  BY <1>0, <1>6 DEF TtlPasses, JobsMoveOn, Job
<1>7. CASE Restart
  BY <1>7 DEF Restart, JobsMoveOn
<1>8. CASE UNCHANGED vars
  BY <1>0, <1>8 DEF vars, JobsMoveOn
<1> QED
  BY <1>1, <1>2, <1>3, <1>4, <1>5, <1>6, <1>7, <1>8 DEF Next, Submit, Inserted

(* What an insertion does to the jobs. *)
LEMMA InsertionAdds ==
    ASSUME Inv, NEW t \in Tabs, NEW k \in Requests, Inserted(t, k)
    PROVE  /\ created + 1 \in Jobs
           /\ known' = (known \ Expired) \cup {created + 1}
           /\ job'[created + 1].user = Owner[t] /\ job'[created + 1].key = k
           /\ job'[created + 1].status = "queued"
           /\ \A i \in known : i \in Jobs /\ i # created + 1 /\ job'[i] = job[i]
<1>0. PICK p \in Tab, r \in Job : InsertedAs(t, k, p, r)
  BY Insertion, Zenon
<1>1. /\ created + 1 \in Jobs /\ job' = [job EXCEPT ![created + 1] = r]
      /\ r.user = Owner[t] /\ r.key = k /\ r.status = "queued"
      /\ known' = (known \ Expired) \cup {created + 1}
  BY <1>0 DEF InsertedAs
<1>2. job \in [Jobs -> Job] /\ known \subseteq Jobs
  BY DEF Inv, TypeOK
<1>3. \A i \in known : i \in Jobs /\ i # created + 1
  BY <1>1, <1>2, NewNumber
<1> QED
  BY <1>1, <1>2, <1>3

(* A user's active jobs are finitely many. *)
LEMMA ActiveFinite ==
    ASSUME Inv, NEW u
    PROVE  IsFiniteSet(ActiveOf(u)) /\ Cardinality(ActiveOf(u)) \in Nat
<1>1. IsFiniteSet(Jobs)
  BY QueueAssumption, FS_Interval DEF Jobs
<1>2. ActiveOf(u) \in SUBSET Jobs
  BY DEF ActiveOf
<1> QED
  BY <1>1, <1>2, FS_Subset, FS_CardinalityType

(* Every step keeps the users within their limits. *)
LEMMA StepUserJobs ==
    ASSUME Inv, UserJobs, [Next]_vars
    PROVE  UserJobs'
<1> SUFFICES ASSUME NEW u \in Users
             PROVE  /\ Cardinality(ActiveOf(u)') <= MaxActive
                    /\ \A j, k \in known' :
                          /\ j \in known' /\ job'[j].status # "failed"
                          /\ k \in known' /\ job'[k].status # "failed"
                          /\ job'[j].user = u /\ job'[k].user = u /\ job'[j].key = job'[k].key
                          => j = k
  BY DEF UserJobs, Live
<1>1. /\ Cardinality(ActiveOf(u)) <= MaxActive
      /\ \A j, k \in known : /\ job[j].status # "failed" /\ job[k].status # "failed"
                             /\ job[j].user = u /\ job[k].user = u /\ job[j].key = job[k].key
                             => j = k
  BY DEF UserJobs, Live
<1>2. MaxActive \in Nat /\ IsFiniteSet(ActiveOf(u)) /\ Cardinality(ActiveOf(u)) \in Nat
  BY QueueAssumption, ActiveFinite
<1>3. CASE JobsMoveOn
  <2>1. ActiveOf(u)' \in SUBSET ActiveOf(u)
    BY <1>3 DEF JobsMoveOn, ActiveOf, Active
  <2>2. Cardinality(ActiveOf(u)') \in Nat /\ Cardinality(ActiveOf(u)') <= Cardinality(ActiveOf(u))
    BY <1>2, <2>1, FS_Subset, FS_CardinalityType
  <2>3. Cardinality(ActiveOf(u)') <= MaxActive
    BY <1>1, <1>2, <2>2
  <2> QED
    BY <1>1, <1>3, <2>3 DEF JobsMoveOn
<1>4. ASSUME NEW t \in Tabs, NEW q \in Requests, Inserted(t, q)
      PROVE  /\ Cardinality(ActiveOf(u)') <= MaxActive
             /\ \A j, k \in known' :
                   /\ j \in known' /\ job'[j].status # "failed"
                   /\ k \in known' /\ job'[k].status # "failed"
                   /\ job'[j].user = u /\ job'[k].user = u /\ job'[j].key = job'[k].key
                   => j = k
  <2> DEFINE n == created + 1
  <2>1. /\ n \in Jobs /\ known' = (known \ Expired) \cup {n}
        /\ job'[n].user = Owner[t] /\ job'[n].key = q /\ job'[n].status = "queued"
        /\ \A i \in known : i \in Jobs /\ i # n /\ job'[i] = job[i]
    BY <1>4, InsertionAdds
  <2>2. Cardinality(ActiveOf(Owner[t])) < MaxActive /\ SameRequest(Owner[t], q) \subseteq Expired
    BY <1>4 DEF Inserted, SubmitInserts, SubmitRaises, Inserts
  <2> HIDE DEF n
  <2>3. CASE Owner[t] = u
    <3>1. ActiveOf(u)' \in SUBSET (ActiveOf(u) \cup {n})
      BY <2>1 DEF ActiveOf, Active
    <3>2. /\ IsFiniteSet(ActiveOf(u) \cup {n})
          /\ Cardinality(ActiveOf(u) \cup {n}) \in {Cardinality(ActiveOf(u)), Cardinality(ActiveOf(u)) + 1}
      BY <1>2, FS_AddElement
    <3>3. Cardinality(ActiveOf(u)') \in Nat
          /\ Cardinality(ActiveOf(u)') <= Cardinality(ActiveOf(u) \cup {n})
      BY <3>1, <3>2, FS_Subset, FS_CardinalityType
    <3>4. Cardinality(ActiveOf(u)') <= MaxActive
      BY <1>2, <2>2, <2>3, <3>2, <3>3
    <3>5. \A i \in known \ Expired : ~(job[i].status # "failed" /\ job[i].user = u /\ job[i].key = q)
      BY <2>1, <2>2, <2>3 DEF SameRequest, Live
    <3> QED
      BY <1>1, <2>1, <3>4, <3>5
  <2>4. CASE Owner[t] # u
    <3>1. ActiveOf(u)' \in SUBSET ActiveOf(u)
      BY <2>1, <2>4 DEF ActiveOf, Active
    <3>2. Cardinality(ActiveOf(u)') \in Nat /\ Cardinality(ActiveOf(u)') <= Cardinality(ActiveOf(u))
      BY <1>2, <3>1, FS_Subset, FS_CardinalityType
    <3>3. Cardinality(ActiveOf(u)') <= MaxActive
      BY <1>1, <1>2, <3>2
    <3> QED
      BY <1>1, <2>1, <2>4, <3>3
  <2> QED
    BY <2>3, <2>4
<1> QED
  BY <1>3, <1>4, StepsMoveOn

(* A user never has more than MaxActive animations queued or rendering,    *)
(* nor two of one request unless the earlier failed, however many pages    *)
(* submit at once: submit looks and inserts in one block.                  *)
THEOREM UserLimit == Spec => []UserJobs
<1>1. Init => UserJobs
  <2> SUFFICES ASSUME Init PROVE UserJobs
    OBVIOUS
  <2>1. known = {}
    BY DEF Init
  <2>2. \A u \in Users : ActiveOf(u) = {}
    BY <2>1 DEF ActiveOf, Active
  <2>3. Cardinality({}) = 0 /\ 0 <= MaxActive
    BY FS_EmptySet, QueueAssumption
  <2> QED
    BY <2>1, <2>2, <2>3 DEF UserJobs
<1>2. Inv /\ UserJobs /\ [Next]_vars => UserJobs'
  BY StepUserJobs
<1> QED
  BY <1>1, <1>2, Invariant, PTL DEF Spec

-----------------------------------------------------------------------------
(***************************************************************************)
(* The files.                                                              *)
(***************************************************************************)

(* Every step keeps the directory and the animations on offer in step.     *)
LEMMA StepFiles ==
    ASSUME Inv, FilesMatchJobs, [Next]_vars
    PROVE  FilesMatchJobs'
<1>0. /\ \A j \in known : job[j].status = "done" => j \in disk
      /\ worker.pc # "off" => disk \subseteq known
  BY DEF FilesMatchJobs
<1>w. worker.pc \notin {"off", "idle"} => worker.job \in known /\ worker.job \in Jobs
  BY DEF Inv, WorkerKnows, TypeOK
<1>j. job \in [Jobs -> Job] /\ known \subseteq Jobs
  BY DEF Inv, TypeOK
<1>1. ASSUME UNCHANGED <<job, worker>>, known' = known \ Expired /\ disk' = disk \ Expired
      PROVE  FilesMatchJobs'
  BY <1>0, <1>1 DEF FilesMatchJobs
<1>2. ASSUME UNCHANGED <<job, worker, known, disk>>
      PROVE  FilesMatchJobs'
  BY <1>0, <1>2 DEF FilesMatchJobs
<1>3. ASSUME NEW t \in Tabs, NEW k \in Requests, Inserted(t, k)
      PROVE  FilesMatchJobs'
  <2> DEFINE n == created + 1
  <2>1. /\ n \in Jobs /\ known' = (known \ Expired) \cup {n} /\ job'[n].status = "queued"
        /\ \A i \in known : i # n /\ job'[i] = job[i]
    BY <1>3, InsertionAdds
  <2>2. \/ worker.pc = "off" /\ disk' = (disk \ Expired) \cap known'
        \/ worker.pc # "off" /\ disk' = disk \ Expired
        \/ /\ worker'.pc = "off" /\ disk' \subseteq disk
           /\ \A i \in disk : i \in Expired \/ i \notin known' \/ i \in disk'
    BY <1>3 DEF Inserted, SubmitInserts, SubmitRaises, _ensure_worker_locked
  <2> HIDE DEF n
  <2>3. \A j \in known' : job'[j].status = "done" => j \in disk'
    BY <1>0, <2>1, <2>2
  <2>4. worker'.pc # "off" => disk' \subseteq known'
    BY <1>0, <2>1, <2>2
  <2> QED
    BY <2>3, <2>4 DEF FilesMatchJobs
<1>4. CASE WorkSucceeds
  <2>1. \A i \in Jobs : i # worker.job => job'[i] = job[i]
    BY <1>4, <1>j DEF WorkSucceeds
  <2> QED
    BY <1>0, <1>w, <1>j, <1>4, <2>1 DEF WorkSucceeds, FilesMatchJobs
<1>5. CASE WorkFails
  <2>1. /\ \A i \in Jobs : i # worker.job => job'[i] = job[i]
        /\ worker.job \in Jobs => job'[worker.job].status = "failed"
    BY <1>5, <1>j DEF WorkFails, Job
  <2>2. disk \subseteq disk' /\ disk' \subseteq disk \cup {worker.job}
    BY <1>5 DEF WorkFails
  <2> QED
    BY <1>0, <1>w, <1>j, <1>5, <2>1, <2>2 DEF WorkFails, FilesMatchJobs
<1>6. CASE StartWork \/ WorkIsPublished
  <2>1. /\ \A i \in Jobs : i # worker.job => job'[i] = job[i]
        /\ worker.pc \notin {"off", "idle"}
        /\ job'[worker.job].status # "done" \/ job[worker.job].status = "done"
        /\ UNCHANGED <<known, disk>>
    BY <1>6, <1>j, <1>w DEF StartWork, WorkIsPublished, Job, Inv, WorkerKnows
  <2> QED
    BY <1>0, <1>w, <1>j, <2>1 DEF FilesMatchJobs
<1>7. ASSUME NEW i \in Jobs, TtlPasses(i) PROVE FilesMatchJobs'
  <2>1. \A k \in Jobs : job'[k].status = job[k].status
    BY <1>7, <1>j DEF TtlPasses, Job
  <2> QED
    BY <1>0, <1>j, <1>7, <2>1 DEF TtlPasses, FilesMatchJobs
<1>8. CASE Restart
  BY <1>8 DEF Restart, NoWorker, FilesMatchJobs
<1>9. CASE Take
  BY <1>0, <1>9 DEF Take, FilesMatchJobs
<1>10. ASSUME NEW t \in Tabs, NEW k \in Requests, Submit(t, k) PROVE FilesMatchJobs'
  BY <1>1, <1>3, <1>10 DEF Submit, Inserted, SubmitReuses, SubmitRefused, _expire_locked
<1>11. ASSUME NEW t \in Tabs, Handler(t) \/ PollStep(t) PROVE FilesMatchJobs'
  BY <1>1, <1>2, <1>11 DEF Handler, PollStep, Put, describe, GetResult, CheckResult, OpenResult, Poll,
                           Get, PollIsLost, _expire_locked
<1>12. ASSUME NEW d \in Directs, DirectStarts(d) \/ DirectEnds(d) PROVE FilesMatchJobs'
  BY <1>2, <1>12 DEF DirectStarts, DirectEnds
<1>13. CASE UNCHANGED vars
  BY <1>2, <1>13 DEF vars
<1> QED
  BY <1>4, <1>5, <1>6, <1>7, <1>8, <1>9, <1>10, <1>11, <1>12, <1>13 DEF Next, Finish

(* Once the worker runs, the directory holds the file of every finished    *)
(* animation on offer and of no other, whatever expired, failed half way   *)
(* or was left by an earlier process.                                      *)
THEOREM FilesMatch == Spec => []FilesMatchJobs
<1>1. Init => FilesMatchJobs
  BY DEF Init, NoWorker, FilesMatchJobs
<1>2. Inv /\ FilesMatchJobs /\ [Next]_vars => FilesMatchJobs'
  BY StepFiles
<1> QED
  BY <1>1, <1>2, Invariant, PTL DEF Spec

(* A page that was told "done" gets the file and its media type, or the    *)
(* news that the animation has expired: never a result half published.     *)
THEOREM DoneIsServed == Spec => []ToldDoneIsServed
<1>1. Inv /\ FilesMatchJobs => ToldDoneIsServed
  BY DEF Inv, PagesTell, PageOk, FilesMatchJobs, ToldDoneIsServed
<1> QED
  BY <1>1, FilesMatch, Invariant, PTL

-----------------------------------------------------------------------------
(***************************************************************************)
(* The queue.                                                              *)
(***************************************************************************)
Putting(t) == tab[t].pc = "putting"

(* What a step may do to the queue, the taken job and the pages that put,  *)
(* when none of them gains a job.                                          *)
LEMMA StillWaiting ==
    ASSUME Inv, QueuedOnce, JobsMoveOn, UNCHANGED queue,
           \A t \in Tabs : Putting(t)' <=> Putting(t),
           \A t \in Tabs : Putting(t) => tab'[t].job = tab[t].job,
           \A j \in known' : job'[j].status = "queued" =>
                /\ worker'.job = j => worker.job = j
                /\ worker.pc = "taken" /\ worker.job = j => worker'.pc = "taken" /\ worker'.job = j
    PROVE  QueuedOnce'
<1> SUFFICES ASSUME NEW j \in known', job'[j].status = "queued"
             PROVE  IF job'[j].stranded THEN ~OnItsWay(j)' ELSE Waits(j)'
  BY DEF QueuedOnce
<1>1. /\ j \in known /\ job[j].status = "queued"
      /\ job'[j].stranded <=> job[j].stranded
      /\ IF job[j].stranded THEN ~OnItsWay(j) ELSE Waits(j)
  BY DEF JobsMoveOn, QueuedOnce
<1>2. /\ worker'.job = j => worker.job = j
      /\ worker.pc = "taken" /\ worker.job = j => worker'.pc = "taken" /\ worker'.job = j
  OBVIOUS
<1>3. ASSUME Waits(j) PROVE Waits(j)'
  BY <1>2, <1>3 DEF Waits, Putting
<1>4. ASSUME ~OnItsWay(j) PROVE ~OnItsWay(j)'
  BY <1>2, <1>4 DEF OnItsWay, Putting
<1> QED
  BY <1>1, <1>3, <1>4

(* An inserted job waits with its handler and with nobody else, or it is   *)
(* stranded and waits nowhere.                                             *)
LEMMA InsertedWaits ==
    ASSUME Inv, QueuedOnce, NEW t \in Tabs, NEW k \in Requests, Inserted(t, k)
    PROVE  QueuedOnce'
<1> DEFINE n == created + 1
<1>0. PICK p \in Tab, r \in Job : InsertedAs(t, k, p, r)
  BY Insertion, Zenon
<1>1. /\ n \in Jobs /\ known' = (known \ Expired) \cup {n}
      /\ \A i \in known : i \in Jobs /\ i # n /\ job'[i] = job[i]
  BY InsertionAdds
<1>2. /\ worker.job # n
      /\ \A i \in DOMAIN queue : queue[i] # n
      /\ \A s \in Tabs : tab[s].job # n
  BY <1>1, NewNumber
<1>3. /\ queue' = queue /\ tab[t].pc = "idle"
      /\ worker' = worker \/ (worker.pc = "off" /\ worker' = [pc |-> "idle", job |-> 0])
      /\ \A s \in Tabs : s # t => tab'[s] = tab[s]
      /\ tab'[t] = p /\ job'[n] = r
  BY <1>0, <1>1 DEF InsertedAs, Inv, TypeOK
<1>4. n # 0 /\ (worker.pc = "off" => worker.job = 0) /\ \A i \in known : i # 0
  BY <1>1 DEF Inv, WorkerKnows, Jobs
<1>p. \/ p.pc = "putting" /\ p.job = n /\ ~r.stranded
      \/ p.pc = "idle" /\ p.job = 0 /\ r.stranded
  BY <1>0 DEF InsertedAs
<1> HIDE DEF n
<1> SUFFICES ASSUME NEW j \in known', job'[j].status = "queued"
             PROVE  IF job'[j].stranded THEN ~OnItsWay(j)' ELSE Waits(j)'
  BY DEF QueuedOnce
<1>5. CASE j = n
  <2>1. worker'.job # n
    BY <1>2, <1>3, <1>4
  <2>2. CASE p.pc = "putting" /\ p.job = n /\ ~r.stranded
    <3>1. Waits(j)'
      BY <1>2, <1>3, <1>5, <2>1, <2>2 DEF Waits
    <3> QED
      BY <1>3, <1>5, <2>2, <3>1
  <2>3. CASE p.pc = "idle" /\ p.job = 0 /\ r.stranded
    <3>1. ~OnItsWay(j)'
      BY <1>2, <1>3, <1>5, <2>1, <2>3 DEF OnItsWay
    <3> QED
      BY <1>3, <1>5, <2>3, <3>1
  <2> QED
    BY <1>p, <2>2, <2>3
<1>6. CASE j # n
  <2>1. j \in known /\ j # 0 /\ job'[j] = job[j]
    BY <1>1, <1>4, <1>6
  <2>2. IF job[j].stranded THEN ~OnItsWay(j) ELSE Waits(j)
    BY <2>1 DEF QueuedOnce
  <2>3. /\ worker'.job = j => worker' = worker
        /\ worker.job = j => worker' = worker
    BY <1>3, <1>4, <2>1
  <2>4. \A s \in Tabs : tab'[s].pc = "putting" /\ tab'[s].job = j <=> tab[s].pc = "putting" /\ tab[s].job = j
    BY <1>3, <1>p, <1>6
  <2>5. ASSUME Waits(j) PROVE Waits(j)'
    BY <1>3, <2>3, <2>4, <2>5 DEF Waits
  <2>6. ASSUME ~OnItsWay(j) PROVE ~OnItsWay(j)'
    BY <1>3, <2>3, <2>4, <2>6 DEF OnItsWay
  <2> QED
    BY <2>1, <2>2, <2>5, <2>6
<1> QED
  BY <1>5, <1>6

(* A put moves the job from the handler to the end of the queue. *)
LEMMA PutWaits ==
    ASSUME Inv, QueuedOnce, NEW t \in Tabs, Put(t)
    PROVE  QueuedOnce'
<1>1. /\ tab[t].pc = "putting" /\ queue' = Append(queue, tab[t].job)
      /\ tab'[t].pc = "describing"
      /\ \A s \in Tabs : s # t => tab'[s] = tab[s]
      /\ UNCHANGED <<job, known, worker>>
  BY DEF Put, Inv, TypeOK, Tab
<1>2. queue \in Seq(Jobs) /\ tab[t].job \in Jobs
  BY <1>1 DEF Inv, TypeOK, PagesTell, PageOk
<1>3. /\ Len(queue') = Len(queue) + 1 /\ Len(queue) \in Nat
      /\ DOMAIN queue = 1..Len(queue) /\ DOMAIN queue' = 1..(Len(queue) + 1)
      /\ queue'[Len(queue) + 1] = tab[t].job
      /\ \A i \in 1..Len(queue) : queue'[i] = queue[i]
  BY <1>1, <1>2
<1>0. ASSUME NEW j \in known, job[j].status = "queued", job[j].stranded
      PROVE  ~OnItsWay(j)'
  <2>1. ~OnItsWay(j)
    BY <1>0 DEF QueuedOnce
  <2>2. /\ tab[t].job # j /\ worker.job # j
        /\ \A i \in 1..Len(queue) : queue[i] # j
        /\ \A s \in Tabs : ~(tab[s].pc = "putting" /\ tab[s].job = j)
    BY <1>1, <1>3, <2>1 DEF OnItsWay
  <2>3. \A i \in DOMAIN queue' : queue'[i] # j
    BY <1>3, <2>2
  <2>4. \A s \in Tabs : ~(tab'[s].pc = "putting" /\ tab'[s].job = j)
    BY <1>1, <2>2
  <2> QED
    BY <1>1, <2>2, <2>3, <2>4 DEF OnItsWay
<1> SUFFICES ASSUME NEW j \in known, job[j].status = "queued", ~job[j].stranded
             PROVE  Waits(j)'
  BY <1>0, <1>1 DEF QueuedOnce
<1>4. Waits(j)
  BY DEF QueuedOnce
<1>5. CASE j = tab[t].job
  <2>1. (\A i \in 1..Len(queue) : queue[i] # j) /\ worker.job # j
        /\ \A s \in Tabs : tab[s].pc = "putting" /\ tab[s].job = j => s = t
    BY <1>1, <1>3, <1>4, <1>5 DEF Waits
  <2>2. Len(queue) + 1 \in DOMAIN queue' /\ queue'[Len(queue) + 1] = j
    BY <1>3, <1>5
  <2>3. \A s \in Tabs : ~(tab'[s].pc = "putting" /\ tab'[s].job = j)
    BY <1>1, <2>1
  <2>4. \A i \in DOMAIN queue' : queue'[i] = j => i = Len(queue) + 1
    BY <1>3, <2>1
  <2> QED
    BY <1>1, <2>1, <2>2, <2>3, <2>4 DEF Waits
<1>6. CASE j # tab[t].job
  <2>1. \A i \in DOMAIN queue' : queue'[i] = j => i \in DOMAIN queue /\ queue[i] = j
    BY <1>3, <1>6
  <2>2. \A i \in DOMAIN queue : i \in DOMAIN queue' /\ queue'[i] = queue[i]
    BY <1>3
  <2>3. \A s \in Tabs : tab[s].pc = "putting" /\ tab[s].job = j <=> tab'[s].pc = "putting" /\ tab'[s].job = j
    BY <1>1, <1>6
  <2> QED
    BY <1>1, <1>4, <2>1, <2>2, <2>3 DEF Waits
<1> QED
  BY <1>5, <1>6

(* The worker takes a job from the head of the queue. *)
LEMMA TakeWaits ==
    ASSUME Inv, QueuedOnce, Take
    PROVE  QueuedOnce'
<1>1. queue \in Seq(Jobs) /\ queue # <<>>
  BY DEF Inv, TypeOK, Take
<1>2. /\ Len(queue) \in Nat /\ Len(queue) >= 1 /\ Head(queue) = queue[1]
      /\ DOMAIN queue = 1..Len(queue) /\ DOMAIN Tail(queue) = 1..(Len(queue) - 1)
      /\ \A i \in 1..(Len(queue) - 1) : Tail(queue)[i] = queue[i + 1]
  BY <1>1
<1>3. worker.pc = "idle" /\ worker.job = 0 /\ queue' = Tail(queue)
      /\ UNCHANGED <<job, known, tab>>
  BY DEF Take, Inv, WorkerKnows
<1>0. ASSUME NEW j \in known, job[j].status = "queued", job[j].stranded
      PROVE  ~OnItsWay(j)'
  <2>1. ~OnItsWay(j) /\ j # 0
    BY <1>0 DEF QueuedOnce, Inv, TypeOK, Jobs
  <2>2. \A i \in 1..Len(queue) : queue[i] # j
    BY <1>2, <2>1 DEF OnItsWay
  <2>3. worker'.job # j
    BY <1>2, <1>3, <2>1, <2>2 DEF Take
  <2>4. \A i \in DOMAIN queue' : queue'[i] # j
    BY <1>2, <1>3, <2>2
  <2> QED
    BY <1>3, <2>1, <2>3, <2>4 DEF OnItsWay
<1> SUFFICES ASSUME NEW j \in known, job[j].status = "queued", ~job[j].stranded
             PROVE  Waits(j)'
  BY <1>0, <1>3 DEF QueuedOnce
<1>4. Waits(j) /\ j # 0
  BY DEF QueuedOnce, Inv, TypeOK, Jobs
<1>5. CASE Head(queue) = j
  <2>1. worker' = [pc |-> "taken", job |-> j]
    BY <1>5 DEF Take
  <2>2. \A i \in DOMAIN queue : queue[i] = j => i = 1
    BY <1>2, <1>4, <1>5 DEF Waits
  <2>3. \A i \in DOMAIN queue' : queue'[i] # j
    BY <1>2, <1>3, <2>2
  <2>4. \A t \in Tabs : ~(tab[t].pc = "putting" /\ tab[t].job = j)
    BY <1>2, <1>4, <1>5 DEF Waits
  <2> QED
    BY <1>3, <2>1, <2>3, <2>4 DEF Waits
<1>6. CASE Head(queue) # j
  <2>1. worker'.job # j
    BY <1>3, <1>4, <1>6 DEF Take
  <2>2. \A i \in DOMAIN queue : queue[i] = j => i - 1 \in DOMAIN queue' /\ queue'[i - 1] = j
    BY <1>2, <1>3, <1>6
  <2>3. \A i \in DOMAIN queue' : i + 1 \in DOMAIN queue /\ queue'[i] = queue[i + 1]
    BY <1>2, <1>3
  <2>4. \A i, m \in DOMAIN queue' : queue'[i] = j /\ queue'[m] = j => i = m
    <3> SUFFICES ASSUME NEW i \in DOMAIN queue', NEW m \in DOMAIN queue', queue'[i] = j, queue'[m] = j
                 PROVE  i = m
      OBVIOUS
    <3>1. i + 1 = m + 1
      BY <1>4, <2>3 DEF Waits
    <3> QED
      BY <1>2, <1>3, <3>1
  <2>5. \A i \in DOMAIN queue' : queue'[i] = j => \E m \in DOMAIN queue : queue[m] = j
    BY <2>3
  <2>6. worker.pc # "taken"
    BY <1>3
  <2> QED
    BY <1>3, <1>4, <2>1, <2>2, <2>4, <2>5, <2>6 DEF Waits
<1> QED
  BY <1>5, <1>6

(* Every step keeps a waiting job in one place. *)
LEMMA StepQueued ==
    ASSUME Inv, QueuedOnce, [Next]_vars
    PROVE  QueuedOnce'
<1>0. /\ tab \in [Tabs -> Tab] /\ job \in [Jobs -> Job] /\ known \subseteq Jobs
      /\ worker.pc \notin {"off", "idle"} => worker.job \in Jobs
  BY DEF Inv, TypeOK, WorkerKnows
<1>n. NewTab.pc = "idle"
  BY StateParts
<1>1. ASSUME NEW t \in Tabs, NEW k \in Requests, Submit(t, k) PROVE QueuedOnce'
  <2>1. CASE Inserted(t, k)
    BY <2>1, InsertedWaits
  <2>2. CASE SubmitReuses(t, k) \/ SubmitRefused(t, k)
    <3>1. JobsMoveOn
      BY <1>0, <2>2 DEF SubmitReuses, SubmitRefused, JobsMoveOn
    <3>2. UNCHANGED <<queue, worker>>
      BY <2>2 DEF SubmitReuses, SubmitRefused
    <3>3. /\ \A s \in Tabs : s # t => tab'[s] = tab[s]
          /\ tab[t].pc = "idle" /\ tab'[t].pc \in {"idle", "describing"}
      BY <1>0, <2>2 DEF SubmitReuses, SubmitRefused, NewTab
    <3> QED
      BY <3>1, <3>2, <3>3, StillWaiting DEF Putting
  <2> QED
    BY <1>1, <2>1, <2>2 DEF Submit, Inserted
<1>2. ASSUME NEW t \in Tabs, Handler(t) \/ PollStep(t), ~Put(t) PROVE QueuedOnce'
  <2>1. known' \subseteq known /\ job' = job /\ UNCHANGED <<queue, worker>>
    BY <1>2 DEF Handler, PollStep, describe, GetResult, CheckResult, OpenResult, Poll, Get,
                PollIsLost
  <2>2. JobsMoveOn
    BY <1>0, <2>1 DEF JobsMoveOn
  <2>3. \A s \in Tabs : s # t => tab'[s] = tab[s]
    BY <1>0, <1>2 DEF Handler, PollStep, describe, GetResult, CheckResult, OpenResult, Poll, Get,
                      PollIsLost
  <2>4. tab[t].pc # "putting"
    BY <1>2 DEF Handler, PollStep, describe, GetResult, CheckResult, OpenResult, Poll, Get, PollIsLost
  <2>5. tab'[t].pc # "putting"
    <3>0. tab[t] \in Tab
      BY <1>0
    <3>1. CASE describe(t)
      <4>1. tab'[t].pc \in {"idle", "fetching", "polling"}
        BY <1>0, <1>n, <3>1 DEF describe, NewTab
      <4> QED
        BY <4>1
    <3>2. CASE GetResult(t) \/ Poll(t)
      <4>1. \E pc \in {"checking", "describing"} :
               tab'[t] \in {[tab[t] EXCEPT !.pc = pc], NewTab}
        BY <1>0, <3>2 DEF GetResult, Poll, Get
      <4>2. \A pc \in {"checking", "describing"} : [tab[t] EXCEPT !.pc = pc].pc = pc
        BY <3>0 DEF Tab
      <4> QED
        BY <1>n, <4>1, <4>2
    <3>3. CASE CheckResult(t) \/ OpenResult(t)
      <4>1. tab'[t] = NewTab \/ tab'[t] = [tab[t] EXCEPT !.typed = job[tab[t].job].typed, !.pc = "opening"]
        BY <1>0, <3>3 DEF CheckResult, OpenResult
      <4>2. [tab[t] EXCEPT !.typed = job[tab[t].job].typed, !.pc = "opening"].pc = "opening"
        BY <3>0 DEF Tab
      <4> QED
        BY <1>n, <4>1, <4>2
    <3>4. CASE PollIsLost(t)
      BY <1>0, <1>n, <3>0, <3>4 DEF PollIsLost, Blip, Tab
    <3> QED
      BY <1>2, <3>1, <3>2, <3>3, <3>4 DEF Handler, PollStep
  <2> QED
    BY <2>1, <2>2, <2>3, <2>4, <2>5, StillWaiting DEF Putting
<1>3. ASSUME StartWork \/ Finish \/ \E i \in Jobs : TtlPasses(i)
      PROVE  QueuedOnce'
  <2>1. JobsMoveOn
    <3>1. \A t \in Tabs, k \in Requests : ~Inserted(t, k)
      BY <1>3 DEF Inserted, SubmitInserts, SubmitRaises, Inserts, StartWork, Finish, WorkSucceeds, WorkFails, WorkIsPublished, TtlPasses, Inv, TypeOK
    <3> QED
      BY <1>3, <3>1, StepsMoveOn DEF Next
  <2>2. UNCHANGED <<queue, tab>>
    BY <1>3 DEF StartWork, Finish, WorkSucceeds, WorkFails, WorkIsPublished, TtlPasses
  <2>3. \A j \in known' : job'[j].status = "queued" =>
           /\ worker'.job = j => worker.job = j
           /\ worker.pc = "taken" /\ worker.job = j => worker'.pc = "taken" /\ worker'.job = j
    <3>1. CASE StartWork
      <4>1. worker.job \in Jobs /\ job'[worker.job].status = "running" /\ worker'.job = worker.job
        BY <1>0, <3>1 DEF StartWork, Job
      <4> QED
        BY <4>1
    <3>2. CASE Finish
      <4>1. /\ worker.pc # "taken" /\ known' = known
            /\ worker'.job = worker.job \/ worker'.job = 0
        BY <3>2 DEF Finish, WorkSucceeds, WorkFails, WorkIsPublished, Inv, TypeOK
      <4>2. \A j \in known : j # 0
        BY <1>0 DEF Jobs
      <4> QED
        BY <4>1, <4>2
    <3>3. CASE \E i \in Jobs : TtlPasses(i)
      BY <3>3 DEF TtlPasses
    <3> QED
      BY <1>3, <3>1, <3>2, <3>3
  <2> QED
    BY <2>1, <2>2, <2>3, StillWaiting DEF Putting
<1>4. ASSUME NEW d \in Directs, DirectStarts(d) \/ DirectEnds(d) PROVE QueuedOnce'
  BY <1>4 DEF DirectStarts, DirectEnds, QueuedOnce, Waits, OnItsWay
<1>5. CASE Restart
  BY <1>5 DEF Restart, QueuedOnce
<1>6. CASE UNCHANGED vars
  BY <1>6 DEF vars, QueuedOnce, Waits, OnItsWay
<1> QED
  BY <1>1, <1>2, <1>3, <1>4, <1>5, <1>6, PutWaits, TakeWaits DEF Next

(* A job that reads as queued is on its way to the worker, in one place,   *)
(* unless its submit raised; then it is in none.  No interleaving of       *)
(* submits, puts and takes loses a job or renders it twice.                *)
THEOREM QueuedIsInOnePlace == Spec => []QueuedOnce
<1>1. Init => QueuedOnce
  BY DEF Init, QueuedOnce
<1>2. Inv /\ QueuedOnce /\ [Next]_vars => QueuedOnce'
  BY StepQueued
<1> QED
  BY <1>1, <1>2, Invariant, PTL DEF Spec

-----------------------------------------------------------------------------
(***************************************************************************)
(* The place in the queue.                                                 *)
(***************************************************************************)

(* A page that waits was told a place no better than it has: no more jobs  *)
(* with a lower number are active than it was told.                        *)
TruePlace ==
    \A t \in Tabs : tab[t].told = "queued" =>
        /\ tab[t].pc \in {"polling", "describing"}
        /\ Cardinality(Earlier(tab[t].job)) <= tab[t].position

(* The active jobs before a job only become fewer. *)
LEMMA EarlierShrinks ==
    ASSUME Inv, [Next]_vars, NEW j \in Jobs, j <= created
    PROVE  Earlier(j)' \subseteq Earlier(j)
<1>1. CASE JobsMoveOn
  BY <1>1 DEF JobsMoveOn, Earlier
<1>2. ASSUME NEW t \in Tabs, NEW k \in Requests, Inserted(t, k)
      PROVE  Earlier(j)' \subseteq Earlier(j)
  <2>1. /\ known' = (known \ Expired) \cup {created + 1}
        /\ \A i \in known : job'[i] = job[i]
    BY <1>2, InsertionAdds
  <2>2. ~(created + 1 < j)
    <3>1. created \in Nat /\ j \in Int
      BY <1>2, InsertionAdds, NewNumber DEF Jobs
    <3> QED
      BY <3>1
  <2> QED
    BY <2>1, <2>2 DEF Earlier
<1> QED
  BY <1>1, <1>2, StepsMoveOn

(* A page keeps its place, is told its place, or has none. *)
LEMMA PlacesMove ==
    ASSUME Inv, TruePlace, [Next]_vars, NEW t \in Tabs
    PROVE  \/ /\ tab'[t].job = tab[t].job /\ tab'[t].told = tab[t].told
              /\ tab'[t].position = tab[t].position
              /\ tab[t].pc \in {"polling", "describing"} /\ tab[t].told = "queued" =>
                    tab'[t].pc \in {"polling", "describing"}
           \/ describe(t) /\ tab[t].job \in Jobs /\ job[tab[t].job].status # "failed"
              /\ tab'[t].job = tab[t].job /\ tab'[t].told = job[tab[t].job].status
              /\ tab'[t].position = QueuePosition(tab[t].job)
              /\ (tab'[t].told = "queued" => tab'[t].pc = "polling")
           \/ tab'[t].job = 0 /\ tab'[t].told = ""
           \/ tab[t].told # "queued" /\ tab'[t].told = ""
<1>0. /\ tab \in [Tabs -> Tab] /\ tab[t] \in Tab
      /\ NewTab.job = 0 /\ NewTab.told = ""
  BY StateParts DEF Inv, TypeOK
<1>1. CASE tab'[t] = tab[t]
  BY <1>1
<1>2. CASE tab'[t] = NewTab
  BY <1>0, <1>2
<1>3. CASE tab'[t] = Blip(tab[t]) /\ tab'[t] # NewTab
  <2>1. tab'[t] = [tab[t] EXCEPT !.failedPolls = @ + 1, !.pc = "polling"]
    BY <1>3 DEF Blip
  <2> QED
    BY <1>0, <2>1 DEF Tab
<1>4. ASSUME NEW s \in Tabs, NEW k \in Requests, Submit(s, k), s = t
      PROVE  tab'[t] = tab[t] \/ (tab[t].told # "queued" /\ tab'[t].told = "")
  <2>1. tab[t].told # "queued"
    BY <1>4 DEF Submit, SubmitReuses, SubmitRefused, SubmitInserts, SubmitRaises, Inserts, TruePlace
  <2>2. tab'[t] = tab[t] \/ tab'[t] = NewTab \/ \E p : tab'[t] = [NewTab EXCEPT !.pc = p[1], !.job = p[2]]
    <3>1. CASE SubmitRefused(t, k)
      BY <3>1 DEF SubmitRefused
    <3>2. CASE SubmitReuses(t, k)
      <4>1. PICK j : tab' = [tab EXCEPT ![t] = [NewTab EXCEPT !.pc = "describing", !.job = j]]
        BY <3>2 DEF SubmitReuses
      <4>2. tab'[t] = [NewTab EXCEPT !.pc = <<"describing", j>>[1], !.job = <<"describing", j>>[2]]
        BY <1>0, <4>1
      <4> QED
        BY <4>2
    <3>3. CASE SubmitInserts(t, k)
      <4>1. tab'[t] = [NewTab EXCEPT !.pc = <<"putting", created + 1>>[1],
                                     !.job = <<"putting", created + 1>>[2]]
        BY <1>0, <3>3 DEF SubmitInserts
      <4> QED
        BY <4>1
    <3>4. CASE SubmitRaises(t, k)
      BY <1>0, <3>4 DEF SubmitRaises
    <3> QED
      BY <1>4, <3>1, <3>2, <3>3, <3>4 DEF Submit
  <2> QED
    BY <1>0, <2>1, <2>2 DEF NewTab
<1>5. CASE describe(t)
  <2> DEFINE j == tab[t].job
  <2>1. tab[t].pc = "describing" /\ j \in Jobs /\ job[j] \in Job
    BY <1>5 DEF describe, Inv, PagesTell, PageOk, TypeOK
  <2>2. CASE job[j].status # "failed"
    <3>1. tab'[t] = [NewTab EXCEPT !.job = j, !.told = job[j].status, !.position = QueuePosition(j),
                                   !.pc = IF job[j].status = "done" THEN "fetching" ELSE "polling"]
      BY <1>0, <1>5, <2>2 DEF describe
    <3>2. /\ tab'[t].job = j /\ tab'[t].told = job[j].status /\ tab'[t].position = QueuePosition(j)
          /\ tab'[t].pc = IF job[j].status = "done" THEN "fetching" ELSE "polling"
      BY <3>1 DEF NewTab
    <3> QED
      BY <1>5, <2>1, <2>2, <3>2
  <2>3. CASE job[j].status = "failed"
    <3>1. tab'[t] = NewTab
      BY <1>0, <1>5, <2>3 DEF describe
    <3> QED
      BY <1>0, <3>1
  <2> QED
    BY <2>2, <2>3
<1>6. CASE Put(t)
  <2>1. tab'[t] = [tab[t] EXCEPT !.pc = "describing"]
    BY <1>0, <1>6 DEF Put
  <2> QED
    BY <1>0, <2>1 DEF Tab
<1>7. ASSUME NEW from, NEW found, Get(t, from, found), from = "fetching" \/ found = "describing"
      PROVE  \/ tab'[t] = NewTab
             \/ /\ tab'[t].job = tab[t].job /\ tab'[t].told = tab[t].told
                /\ tab'[t].position = tab[t].position
                /\ tab[t].pc \in {"polling", "describing"} => tab'[t].pc = "describing"
  BY <1>0, <1>7 DEF Get, Tab
<1>8. CASE CheckResult(t)
  <2>1. tab[t].pc = "checking"
        /\ \/ tab'[t] = NewTab
           \/ tab'[t] = [tab[t] EXCEPT !.typed = job[tab[t].job].typed, !.pc = "opening"]
    BY <1>0, <1>8 DEF CheckResult
  <2> QED
    BY <1>0, <1>2, <2>1 DEF Tab
<1>9. ASSUME NEW s \in Tabs, Handler(s) \/ PollStep(s), s # t PROVE tab'[t] = tab[t]
  BY <1>0, <1>9 DEF Handler, PollStep, Put, describe, GetResult, CheckResult, OpenResult, Poll, Get,
                    PollIsLost
<1>10. CASE OpenResult(t) \/ PollIsLost(t)
  BY <1>0, <1>2, <1>3, <1>10 DEF OpenResult, PollIsLost
<1>11. ASSUME NEW s \in Tabs, NEW k \in Requests, Submit(s, k), s # t PROVE tab'[t] = tab[t]
  BY <1>0, <1>11 DEF Submit, SubmitReuses, SubmitRefused, SubmitInserts, SubmitRaises
<1>12. CASE Restart
  <2>1. tab'[t] \in {tab[t], Blip(tab[t]), NewTab}
    BY <1>12 DEF Restart
  <2> QED
    BY <1>1, <1>2, <1>3, <2>1
<1>13. CASE Handler(t) \/ PollStep(t)
  BY <1>2, <1>5, <1>6, <1>7, <1>8, <1>10, <1>13 DEF Handler, PollStep, Poll, GetResult
<1>14. CASE \/ Take \/ StartWork \/ Finish \/ \E i \in Jobs : TtlPasses(i)
            \/ \E d \in Directs : DirectStarts(d) \/ DirectEnds(d)
            \/ UNCHANGED vars
  <2>1. tab' = tab
    BY <1>14 DEF Take, StartWork, Finish, WorkSucceeds, WorkFails, WorkIsPublished, TtlPasses,
                 DirectStarts, DirectEnds, vars
  <2> QED
    BY <1>1, <2>1
<1> QED
  BY <1>1, <1>4, <1>9, <1>11, <1>12, <1>13, <1>14 DEF Next

(* The place that is told counts the earlier active jobs, when no later    *)
(* one renders.                                                            *)
LEMMA PlaceTold ==
    ASSUME Inv, NEW j \in Jobs, worker.pc # "publishing", job[j].status = "queued"
    PROVE  /\ Cardinality(Earlier(j)) <= QueuePosition(j)
           /\ (\A k \in RunningNow : ~(k > j)) => QueuePosition(j) = Cardinality(Earlier(j))
<1>1. IsFiniteSet(Ahead(j)) /\ Cardinality(Ahead(j)) \in Nat /\ known \subseteq Jobs
  BY Places DEF Inv, TypeOK
<1>2. \A k \in RunningNow : k = worker.job
  BY DEF RunningNow, Inv, TypeOK, JobsTell
<1>3. CASE RunningNow = {}
  <2>1. Earlier(j) = Ahead(j)
    BY <1>3 DEF Earlier, Ahead, RunningNow
  <2> QED
    BY <1>1, <1>3, <2>1 DEF QueuePosition
<1>4. CASE RunningNow # {}
  <2>1. PICK r : RunningNow = {r}
    BY <1>2, <1>4
  <2>2. QueuePosition(j) = Cardinality(Ahead(j)) + 1
    BY <1>4 DEF QueuePosition
  <2>3. r \in known /\ job[r].status = "running" /\ r # j /\ r \in Jobs
    BY <1>1, <2>1 DEF RunningNow
  <2>4. CASE r > j
    <3>1. Earlier(j) = Ahead(j)
      <4>1. ~(r < j)
        BY <2>3, <2>4 DEF Jobs
      <4>2. \A k \in known : job[k].status = "running" => k = r
        BY <2>1 DEF RunningNow
      <4> QED
        BY <4>1, <4>2 DEF Earlier, Ahead
    <3> QED
      BY <1>1, <2>1, <2>2, <2>4, <3>1
  <2>5. CASE ~(r > j)
    <3>1. r < j
      BY <2>3, <2>5 DEF Jobs
    <3>2. Earlier(j) = Ahead(j) \cup {r} /\ r \notin Ahead(j)
      <4>1. \A k \in known : job[k].status = "running" <=> k = r
        BY <2>1 DEF RunningNow
      <4> QED
        BY <2>3, <3>1, <4>1 DEF Earlier, Ahead
    <3>3. Cardinality(Ahead(j) \cup {r}) = Cardinality(Ahead(j)) + 1
      BY <1>1, <3>2, FS_AddElement
    <3> QED
      BY <1>1, <2>2, <3>2, <3>3
  <2> QED
    BY <2>4, <2>5
<1> QED
  BY <1>3, <1>4

(* Every step keeps the places true. *)
LEMMA StepTruePlace ==
    ASSUME Inv, Inv', TruePlace, [Next]_vars
    PROVE  TruePlace'
<1> SUFFICES ASSUME NEW t \in Tabs, tab'[t].told = "queued"
             PROVE  /\ tab'[t].pc \in {"polling", "describing"}
                    /\ Cardinality(Earlier(tab[t].job))' <= tab'[t].position
  BY DEF TruePlace
<1>0. PICK j : j = tab[t].job
  OBVIOUS
<1>p. tab'[t].job = j => Earlier(tab[t].job)' = Earlier(j)'
  BY DEF Earlier
<1>1. CASE /\ tab'[t].job = j /\ tab'[t].told = tab[t].told /\ tab'[t].position = tab[t].position
           /\ tab[t].pc \in {"polling", "describing"} /\ tab[t].told = "queued" =>
                 tab'[t].pc \in {"polling", "describing"}
  <2>1. /\ tab[t].pc \in {"polling", "describing"} /\ tab[t].told = "queued"
        /\ Cardinality(Earlier(j)) <= tab[t].position
    BY <1>0, <1>1 DEF TruePlace
  <2>2. j \in Jobs /\ j <= created /\ tab[t].position \in 0..MaxJobs
    <3>1. tab[t] \in Tab /\ PageOk(tab[t])
      BY DEF Inv, TypeOK, PagesTell
    <3> QED
      BY <1>0, <2>1, <3>1 DEF PageOk, Tab
  <2>3. Earlier(j)' \subseteq Earlier(j)
    BY <2>2, EarlierShrinks
  <2>4. IsFiniteSet(Earlier(j)) /\ Cardinality(Earlier(j)) \in Nat
    BY <2>2, Places
  <2>5. Cardinality(Earlier(j)') \in Nat /\ Cardinality(Earlier(j)') <= Cardinality(Earlier(j))
    BY <2>3, <2>4, FS_Subset, FS_CardinalityType
  <2>6. Cardinality(Earlier(j)') <= tab[t].position
    <3>1. tab[t].position \in Int
      BY <2>2
    <3> QED
      BY <2>1, <2>4, <2>5, <3>1
  <2> QED
    BY <1>1, <1>p, <2>1, <2>6
<1>2. CASE /\ describe(t) /\ j \in Jobs /\ tab'[t].job = j /\ tab'[t].told = job[j].status
           /\ tab'[t].position = QueuePosition(j)
           /\ (tab'[t].told = "queued" => tab'[t].pc = "polling")
  <2>1. worker.pc # "publishing" /\ UNCHANGED <<job, known>>
    BY <1>2 DEF describe, LockIsFree
  <2>2. Cardinality(Earlier(j)) <= QueuePosition(j)
    BY <1>2, <2>1, PlaceTold
  <2>3. Earlier(j)' = Earlier(j)
    BY <2>1 DEF Earlier
  <2> QED
    BY <1>2, <1>p, <2>2, <2>3
<1> QED
  BY <1>0, <1>1, <1>2, PlacesMove

(* The place in the queue that a page is told only falls, unless an        *)
(* animation submitted later renders first.                                *)
THEOREM PlaceFalls == Spec => PositionFalls
<1>1. Init => TruePlace
  <2> SUFFICES ASSUME Init PROVE TruePlace
    OBVIOUS
  <2>1. \A t \in Tabs : tab[t].told = ""
    BY StateParts DEF Init
  <2> QED
    BY <2>1 DEF TruePlace
<1>2. Inv /\ Inv' /\ TruePlace /\ [Next]_vars => TruePlace'
  BY StepTruePlace
<1>3. ASSUME Inv, TruePlace, [Next]_vars
      PROVE  \A t \in Tabs : tab[t].job = tab'[t].job /\ tab[t].told = "queued"
                                /\ tab'[t].position > tab[t].position =>
                                   \E k \in RunningNow : k > tab[t].job
  <2> SUFFICES ASSUME NEW t \in Tabs, tab[t].job = tab'[t].job, tab[t].told = "queued",
                      tab'[t].position > tab[t].position,
                      \A k \in RunningNow : ~(k > tab[t].job)
               PROVE  FALSE
    OBVIOUS
  <2> DEFINE j == tab[t].job
  <2>1. tab[t].position \in 0..MaxJobs /\ Cardinality(Earlier(j)) <= tab[t].position
    BY <1>3 DEF Inv, TypeOK, Tab, TruePlace
  <2>2. tab[t].position \in Int
    BY <2>1
  <2>3. j \in Jobs
    BY <1>3 DEF TruePlace, Inv, PagesTell, PageOk
  <2>4. CASE tab'[t].position = tab[t].position
    BY <2>2, <2>4
  <2>5. CASE tab'[t].job = 0
    BY <2>3, <2>5 DEF Jobs
  <2>6. CASE describe(t) /\ tab'[t].position = QueuePosition(j)
    <3>1. worker.pc # "publishing"
      BY <2>6 DEF describe, LockIsFree
    <3>2. Cardinality(Earlier(j)) \in Nat
      BY <1>3, <2>3, Places
    <3>3. CASE job[j].status = "queued"
      <4>1. QueuePosition(j) = Cardinality(Earlier(j))
        BY <1>3, <2>3, <3>1, <3>3, PlaceTold
      <4> QED
        BY <2>1, <2>2, <2>6, <3>2, <4>1
    <3>4. CASE job[j].status # "queued"
      <4>1. QueuePosition(j) = 0
        BY <3>4 DEF QueuePosition
      <4>2. 0 <= tab[t].position
        BY <2>1, <2>2, <3>2
      <4> QED
        BY <2>2, <2>6, <4>1, <4>2
    <3> QED
      BY <3>3, <3>4
  <2> QED
    BY <1>3, <2>4, <2>5, <2>6, PlacesMove
<1>4. Spec => []TruePlace
  BY <1>1, <1>2, Invariant, PTL DEF Spec
<1>5. Inv /\ TruePlace /\ [Next]_vars =>
         [\A t \in Tabs : tab[t].job = tab'[t].job /\ tab[t].told = "queued"
                            /\ tab'[t].position > tab[t].position =>
                               \E k \in RunningNow : k > tab[t].job]_vars
  BY <1>3
<1> QED
  BY <1>4, <1>5, Invariant, PTL DEF Spec, PositionFalls
=============================================================================
