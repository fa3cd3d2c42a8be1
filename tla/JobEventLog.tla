---------------------------- MODULE JobEventLog -----------------------------
(***************************************************************************)
(* One job's log on its way to the page: the producer that stores it       *)
(* (job_runtime.py, _produce_job_events), the stream that replays it       *)
(* (jobs.py, stream_job_logs and _stream_job_logs_direct) and the panel    *)
(* that shows it (static/app.js, initializeJobPanel).                      *)
(*                                                                         *)
(* How the row gets its verdict is JobCompletion's subject: here any       *)
(* writer may close the job, with one done event.  The connection may be   *)
(* lost and the producer may die at any step; a restart of the hub is both *)
(* at once.                                                                *)
(***************************************************************************)
EXTENDS Integers, FiniteSets, FiniteSetsExt

CONSTANTS Tails,        \* the ?tail= of the panel's URL; AllLines is tail=all
          AllLines,
          Retentions,   \* the values JOB_EVENT_LOG_MAX_LINES may have; 0 stores no line
          PruneEvery,   \* 100
          PageSize,     \* 200
          MaxLines,     \* bound: lines the container prints
          MaxFaults     \* bound: log streams that break, connections that are lost or refused

ASSUME EventLogAssumption ==
    /\ Retentions \subseteq Nat /\ PruneEvery \in Nat \ {0} /\ PageSize \in Nat \ {0}
    /\ MaxLines \in Nat /\ MaxFaults \in Nat
    /\ AllLines \in Nat /\ AllLines > MaxLines /\ Tails \subseteq 0..AllLines

VARIABLES
    keep,      \* JOB_EVENT_LOG_MAX_LINES of this hub
    printed,   \* lines the container has printed
    ended,     \* it has exited
    row,       \* JobRun.status: running, or over
    events,    \* the job's rows of job_events
    producer,  \* _produce_job_events
    faults,    \* how many there were
    stream,    \* generate(), one for the panel's connection
    panel,     \* the panel and its EventSource
    shown,     \* history: the lines in the panel
    top,       \* history: the highest id the panel received
    repeated,  \* history: it was sent an event, or a line of the log, again
    since,     \* history: where the panel's last connection without an id began
    direct     \* history: the panel was served by the fallback, and lost it

job   == <<keep, printed, ended, row, events>>
board == <<panel, shown, top, repeated, since, direct>>
vars  == <<job, producer, faults, stream, board>>

-----------------------------------------------------------------------------
Lines == 1..MaxLines
LogEvents == {e \in events : e.kind = "log"}
DoneIds == {e.id : e \in {d \in events : d.kind = "done"}}

NoStream == [pc |-> "none", cursor |-> 0, saw |-> FALSE, pending |-> {}, next |-> 0]
NewPanel(tail) == [es |-> "connecting", tail |-> tail, url |-> 0, last |-> 0, mem |-> 0]

Init ==
    /\ keep \in Retentions
    /\ printed = 0 /\ ended = FALSE /\ row = "running" /\ events = {}
    /\ producer = [pc |-> "off", next |-> 1, unpruned |-> 0]
    /\ faults = 0
    /\ stream = NoStream
    /\ \E tail \in Tails : panel = NewPanel(tail)
    /\ shown = {} /\ top = 0 /\ repeated = FALSE /\ since = 0 /\ direct = "no"

-----------------------------------------------------------------------------
Prints ==
    /\ ~ended /\ printed < MaxLines
    /\ printed' = printed + 1
    /\ UNCHANGED <<keep, ended, row, events, producer, faults, stream, board>>

Exits ==
    /\ ~ended
    /\ ended' = TRUE
    /\ UNCHANGED <<keep, printed, row, events, producer, faults, stream, board>>

(* append_job_event: the table has no AUTOINCREMENT, a new row has the id   *)
(* after the highest one there is.                                         *)
Stored(rows, kind, line) ==
    rows \cup {[id |-> 1 + Max({0} \cup {e.id : e \in rows}), kind |-> kind, line |-> line]}

(* persist_job_finished: the status and the done event in one commit. *)
persist_job_finished ==
    /\ row' = "over"
    /\ events' = IF row = "running" THEN Stored(events, "done", 0) ELSE events

(* A stop, the monitor or a page. *)
CloseRow ==
    /\ row = "running"
    /\ persist_job_finished
    /\ UNCHANGED <<keep, printed, ended, producer, faults, stream, board>>

-----------------------------------------------------------------------------
(***************************************************************************)
(* The producer.                                                           *)
(***************************************************************************)
ProducerOff == [pc |-> "off", next |-> 1, unpruned |-> 0]

ProducerReplays ==       \* mutant: a producer always begins with the whole log
    /\ row = "running" /\ producer.pc = "off"
    /\ producer' = [pc |-> "following", next |-> 1, unpruned |-> 0]
    /\ UNCHANGED <<job, faults, stream, board>>

(* The whole log if nothing is stored yet, else what is printed from here. *)
ProducerAttaches ==
    /\ row = "running" /\ producer.pc = "off"
    /\ producer' = [pc |-> "following", unpruned |-> 0,
                    next |-> IF events = {} THEN 1 ELSE printed + 1]
    /\ UNCHANGED <<job, faults, stream, board>>

(* A hub that is to keep no lines passes each one over. *)
TakesLine ==
    IF keep = 0 THEN [producer EXCEPT !.next = @ + 1] ELSE [producer EXCEPT !.pc = "storing"]

ProducerStoresUnchecked == \* mutant: the status is not read again for each line
    /\ producer.pc = "following" /\ producer.next <= printed
    /\ producer' = TakesLine
    /\ UNCHANGED <<job, faults, stream, board>>

(* A line arrives and the row is read again; another writer may close the  *)
(* job before the line is stored.                                          *)
ProducerReads ==
    /\ producer.pc = "following" /\ producer.next <= printed
    /\ producer' = IF row = "running" THEN TakesLine ELSE ProducerOff
    /\ UNCHANGED <<job, faults, stream, board>>

_prune_job_log_events(rows) ==
    {e \in rows : e.kind # "log" \/
        Cardinality({f \in rows : f.kind = "log" /\ f.id > e.id}) < keep}

ProducerStores ==
    LET rows == Stored(events, "log", producer.next)
        due  == producer.unpruned + 1 >= PruneEvery
    IN /\ producer.pc = "storing"
       /\ events' = IF due THEN _prune_job_log_events(rows) ELSE rows
       /\ producer' = [pc |-> "following", next |-> producer.next + 1,
                       unpruned |-> IF due THEN 0 ELSE producer.unpruned + 1]
       /\ UNCHANGED <<keep, printed, ended, row, faults, stream, board>>

(* The log stream breaks: the message is stored as an error and as a line, *)
(* after the row was read once.                                            *)
ProducerReadsError ==
    /\ producer.pc = "following" /\ faults < MaxFaults
    /\ faults' = faults + 1
    /\ producer' = IF row = "running" THEN [producer EXCEPT !.pc = "failing"] ELSE ProducerOff
    /\ UNCHANGED <<job, stream, board>>

ProducerStoresError ==
    /\ producer.pc = "failing"
    /\ events' = Stored(Stored(events, "job_error", 0), "log", 0)
    /\ producer' = ProducerOff
    /\ UNCHANGED <<keep, printed, ended, row, faults, stream, board>>

ProducerFinishes ==
    /\ producer.pc = "following" /\ ended /\ producer.next > printed
    /\ row' = "over"
    /\ IF row = "running"
       THEN events' = _prune_job_log_events(Stored(events, "done", 0))
       ELSE events' \in {events, _prune_job_log_events(events)}   \* closed before or after the look
    /\ producer' = ProducerOff
    /\ UNCHANGED <<keep, printed, ended, faults, stream, board>>

ProducerDies ==
    /\ producer.pc # "off"
    /\ producer' = ProducerOff
    /\ UNCHANGED <<job, faults, stream, board>>

ProducerStep == ProducerReads \/ ProducerStores \/ ProducerStoresError \/ ProducerFinishes

-----------------------------------------------------------------------------
(***************************************************************************)
(* The stream.                                                             *)
(***************************************************************************)
(* What the handler makes of the query and the Last-Event-ID header.  Of   *)
(* the last `tail` events of any kind it sends all.                        *)
TailCursor(tail) ==
    LET ids    == {e.id : e \in events}
        recent == {i \in ids : Cardinality({n \in ids : n > i}) < tail}
    IN CASE ids = {} \/ tail = AllLines -> 0
         [] ids # {} /\ tail = 0        -> Max(ids)
         [] OTHER                       -> Min(recent) - 1

CursorOfUrl ==           \* mutant: no look at Last-Event-ID
    IF panel.url # 0 THEN panel.url ELSE TailCursor(panel.tail)

Cursor ==
    IF panel.url # 0 THEN panel.url
    ELSE IF panel.last # 0 THEN panel.last
    ELSE TailCursor(panel.tail)

Connects ==
    /\ panel.es = "connecting"
    /\ stream' = [NoStream EXCEPT !.pc = "polling", !.cursor = Cursor]
    /\ panel' = [panel EXCEPT !.es = "open"]
    /\ since' = IF panel.url = 0 /\ panel.last = 0 THEN Cursor ELSE since
    /\ UNCHANGED <<job, producer, faults, shown, top, repeated, direct>>

PendingEvents == {e \in events : e.id > stream.cursor}

FetchesPage ==
    /\ stream.pc = "polling" /\ PendingEvents # {}
    /\ stream' = [stream EXCEPT !.pc = "paging", !.saw = TRUE,
          !.pending = {e \in PendingEvents :
                         Cardinality({f \in PendingEvents : f.id < e.id}) < PageSize}]
    /\ UNCHANGED <<job, producer, faults, board>>

FetchesNothing ==
    /\ stream.pc = "polling" /\ PendingEvents = {}
    /\ stream' = [stream EXCEPT !.pc = "resting"]
    /\ UNCHANGED <<job, producer, faults, board>>

(* The panel gets event e; "done" makes it close its source.  It appends    *)
(* what it is sent, whether it has it already or not.                      *)
Receives(e) ==
    /\ panel' = [panel EXCEPT !.last = e.id, !.mem = e.id,
                              !.es = IF e.kind = "done" THEN "over" ELSE @]
    /\ shown' = shown \cup ({e.line} \ {0})
    /\ top' = Max({top, e.id})
    /\ repeated' = (repeated \/ e.line \in shown \/ (e.id <= top /\ e.kind # "done"))
    /\ UNCHANGED <<since, direct>>

SendsEvent ==
    /\ stream.pc = "paging"
    /\ \E e \in stream.pending :
          /\ \A f \in stream.pending : e.id <= f.id
          /\ Receives(e)
          /\ stream' = IF e.kind = "done" THEN NoStream
                       ELSE [stream EXCEPT !.cursor = e.id, !.pending = @ \ {e},
                               !.pc = IF stream.pending = {e} THEN "polling" ELSE "paging"]
    /\ UNCHANGED <<job, producer, faults>>

(* Nothing new and the job runs: a producer is seen to (ProducerAttaches), *)
(* and the stream sleeps.                                                  *)
Sleeps ==
    /\ stream.pc = "resting" /\ row = "running"
    /\ stream' = [stream EXCEPT !.pc = "polling"]
    /\ UNCHANGED <<job, producer, faults, board>>

(* Nothing stored by the deadline: the stream follows the container        *)
(* itself.  If Docker cannot be reached just then, the thread that reads   *)
(* the log dies without a word, and the stream is deaf: it beats for ever. *)
FallsBack ==
    /\ stream.pc = "resting" /\ row = "running" /\ ~stream.saw /\ stream.cursor = 0
    /\ \E pc \in {"direct", "deaf"} :
          stream' = [stream EXCEPT !.pc = pc, !.next = Max({1, printed + 1 - panel.tail})]
    /\ direct' = IF direct = "no" THEN "served" ELSE direct
    /\ UNCHANGED <<job, producer, faults, panel, shown, top, repeated, since>>

SendsEndAtOnce ==        \* mutant: no second look for events before done
    /\ stream.pc = "resting" /\ row = "over"
    /\ stream' = NoStream
    /\ panel' = [panel EXCEPT !.last = Max(DoneIds), !.mem = Max(DoneIds), !.es = "over"]
    /\ UNCHANGED <<job, producer, faults, shown, top, repeated, since, direct>>

(* Nothing new and the job is over: its done event is either still to come *)
(* from the table, or it is sent again.                                    *)
SendsEnd ==
    /\ stream.pc = "resting" /\ row = "over"
    /\ IF Max(DoneIds) > stream.cursor
       THEN stream' = [stream EXCEPT !.pc = "polling"] /\ panel' = panel
       ELSE /\ stream' = NoStream
            /\ panel' = [panel EXCEPT !.last = Max(DoneIds), !.mem = Max(DoneIds), !.es = "over"]
    /\ UNCHANGED <<job, producer, faults, shown, top, repeated, since, direct>>

(* The fallback's events carry no ids. *)
SendsLine ==
    /\ stream.pc = "direct" /\ stream.next <= printed
    /\ shown' = shown \cup {stream.next}
    /\ repeated' = (repeated \/ stream.next \in shown)
    /\ stream' = [stream EXCEPT !.next = @ + 1]
    /\ UNCHANGED <<job, producer, faults, panel, top, since, direct>>

DirectEnds ==
    /\ stream.pc = "direct" /\ ended /\ stream.next > printed
    /\ persist_job_finished
    /\ stream' = NoStream
    /\ panel' = [panel EXCEPT !.es = "over"]
    /\ UNCHANGED <<keep, printed, ended, producer, faults, shown, top, repeated, since, direct>>

(* The connection is lost, or the fallback's log stream breaks: the        *)
(* EventSource reconnects by itself, with the id it received last, which   *)
(* after the fallback is none.                                             *)
Drops ==
    /\ panel.es = "open" /\ faults < MaxFaults
    /\ faults' = faults + 1
    /\ stream' = NoStream
    /\ panel' = [panel EXCEPT !.es = "connecting"]
    /\ direct' = IF stream.pc = "direct" THEN "lost" ELSE direct
    /\ UNCHANGED <<job, producer, shown, top, repeated, since>>

(* An answer that is not 200 ends the EventSource; the panel opens another *)
(* 800 ms later, with the id it remembers in the URL.                      *)
IsRefused ==
    /\ panel.es = "connecting" /\ faults < MaxFaults
    /\ faults' = faults + 1
    /\ panel' = [panel EXCEPT !.es = "closed"]
    /\ UNCHANGED <<job, producer, stream, shown, top, repeated, since, direct>>

ReopensWithId ==         \* mutant: only a panel that has received something reopens
    /\ panel.es = "closed" /\ panel.mem # 0
    /\ panel' = [panel EXCEPT !.es = "connecting", !.url = panel.mem, !.last = 0]
    /\ UNCHANGED <<job, producer, faults, stream, shown, top, repeated, since, direct>>

Reopens ==
    /\ panel.es = "closed"
    /\ panel' = [panel EXCEPT !.es = "connecting", !.url = panel.mem, !.last = 0]
    /\ UNCHANGED <<job, producer, faults, stream, shown, top, repeated, since, direct>>

StreamStep == FetchesPage \/ FetchesNothing \/ SendsEvent \/ Sleeps \/ SendsEnd \/ SendsLine \/ DirectEnds
PanelStep  == Connects \/ Reopens

-----------------------------------------------------------------------------
Next ==
    \/ Prints \/ Exits \/ CloseRow
    \/ ProducerAttaches \/ ProducerStep \/ ProducerReadsError \/ ProducerDies
    \/ StreamStep \/ FallsBack
    \/ PanelStep \/ Drops \/ IsRefused

Spec == Init /\ [][Next]_vars

-----------------------------------------------------------------------------
(***************************************************************************)
(* Safety.                                                                 *)
(***************************************************************************)

(* Whatever producers come and go, the stored log has each line at most    *)
(* once and in the order they were printed: a new producer takes the whole *)
(* log only if nothing of it is stored.                                    *)
LinesInOrder ==
    \A e, f \in LogEvents : e.line # 0 /\ f.line # 0 /\ e.id < f.id => e.line < f.line

(* A writer in a thread may close the job between the producer's look at   *)
(* the row and its insert.  What is stored after the done event, and never *)
(* sent, is then the one line (or the one error) of that turn.             *)
LateEvents ==
    \A d \in DoneIds :
        LET late == {e \in events : e.id > d}
        IN /\ Cardinality(late) <= 2
           /\ \A e, f \in late : e.kind = "log" /\ f.kind = "log" => e = f

(* When the panel has its done event it has shown every line that is       *)
(* stored before it, from where it began: pages, lost connections, a       *)
(* producer that prunes or dies in between make it skip none.              *)
PanelMissesNothing ==
    panel.es = "over" /\ (direct = "no" \/ panel.tail = AllLines) =>
        \A e \in LogEvents : \A d \in DoneIds :
            since < e.id /\ e.id < d => e.line \in shown \cup {0}

(* Nothing is shown twice - no event is sent again and no line of the log  *)
(* appears again, with an id or without - but in two kinds of panel: one   *)
(* that has opened a second source with an id in its URL, and one whose    *)
(* fallback broke off, whose lines had no ids to go on from.  The          *)
(* browser's own reconnects to the durable events, the change from them to *)
(* the fallback and a producer that begins again repeat nothing.           *)
RepeatsOnlyAfterReopen == repeated => panel.url # 0 \/ direct = "lost"

-----------------------------------------------------------------------------
(* Fairness: tasks and pages run, and the container ends at last (the      *)
(* fallback waits for it).  A deaf stream has no step to be fair to.  That *)
(* the row of an ended job is closed at last, by whichever writer, is      *)
(* JobCompletion's EndedJobCloses.                                         *)
Fairness ==
    /\ WF_vars(Exits) /\ WF_vars(CloseRow \/ ProducerFinishes)
    /\ WF_vars(StreamStep) /\ WF_vars(PanelStep)

FairSpec == Spec /\ Fairness

(* A panel that is open learns that its job is over, unless its stream is  *)
(* deaf: then it waits until the browser loses the connection.             *)
PanelLearnsEnd == panel.es = "open" ~> panel.es = "over" \/ stream.pc = "deaf"
=============================================================================
