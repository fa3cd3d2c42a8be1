# ict-hub in TLA+

TLA+ models of ict-hub, their TLC runs, and proofs that TLAPS checks. ict-hub
starts data converters as Docker containers, follows them, and shows their log
and their end in the browser; beside it, the data-indexer walks the data
archives and caches what it finds.

1. [The system](#the-system) - components, state, operations, what is hard
2. [What is modelled](#what-is-modelled) - modules, and how they follow the code
3. [What the runs check](#what-the-runs-check) - bounds, fairness, results
4. [What is proved](#what-is-proved)
5. [Where the code and its documentation disagree](#where-the-code-and-its-documentation-disagree)
6. [Not modelled](#not-modelled)
7. [Plan](#plan)

## The system

Two services. The **hub** (`app/`) is one uvicorn process: an asyncio event
loop, the default thread pool (`asyncio.to_thread`, `run_in_threadpool`), one
SQLite database in WAL mode, and the Docker daemon as a partner that answers
late or not at all. The **data-indexer** (`data-indexer/`) is a FastAPI process
whose handlers run in threads, with in-memory caches, a SQLite copy of them,
and watchdog threads.

| Component | State it keeps | Operations | What is hard |
|---|---|---|---|
| Job runtime (`job_runtime.py`) | `job_runs`, `job_events`, `_producer_tasks`, the monitor task | `persist_job_finished`, `reconcile_job_state`, `ensure_job_producer`, the producer, the monitor, pruning, migration of old stops | several writers of one verdict; threads against the loop; restart at any step |
| Job handlers (`jobs.py`) | one cursor per stream | start, stop, stream with replay and direct fallback, reconcile and discovery before a page, history | check-then-act on rows; a reader that also writes |
| Docker runner (`runner.py`) | none (a reader thread and a queue per followed log) | start, stop, inspect, follow a log, parse progress | exit code of a container that is already removed; unreachable daemon |
| Render jobs (`tec_map_jobs.py`, `tec_map.py`) | `_jobs`, `_queue`, `_worker`, `render_slot`, result files | submit, describe, run, expire | one render at a time, limit per user, expiry against readers |
| Data-indexer (`data_indexer.py`, `app.py`) | five caches, generations, scans under way, cache table | list, forced, background and invalidated refresh, watch, restart | scans that overlap, generations without a lock, what a restart restores |
| Indexer client (`data_indexer_client.py`) | TTL cache | list, clear | a late answer stored after a clear |
| AbsTEC removal (`indexed_data.py`) | folders, trash | preview, confirm by digest, move, roll back | partial failure |
| Accounts (`auth.py`, `audit.py`, `main.py`) | `users`, `audit_log`, limiter | login, create, toggle, change password, seeding | two administrators at once, sliding windows |
| Registry, converters, configuration, texts | constants | build a command line, clamp settings | pure functions |
| TEC map numerics and drawing | none | interpolation, kriging, rendering | floating point; not a subject for TLC |
| Front end (`static/`) | panels, timers, EventSource | job panel, forms, maps, plots | reconnect against panel swap |

How they interact: page handlers and the monitor call `reconcile_job_state` in
threads; start, stream and monitor call `ensure_job_producer` on the loop; the
producer and the direct stream call `persist_job_finished` on the loop, the
others in threads; all of them meet only in the database. The hub reads the
indexer over HTTP through its client cache and forwards `clear_cache`.

What makes each part correct:

* *Job verdicts.* A verdict is true of the container; it and its `done` event
  are durable together; it does not change once its writers are through; a
  user's stop is kept; every ended job gets a verdict, every reader its end.
* *Event log.* A reader that reconnects sees each stored event once, in order,
  through pruning and restarts; nothing comes after `done`.
* *Discovery.* One container is one job.
* *Render queue.* One render at a time, first come first served; at most three
  active jobs per user; every queued job ends; a job told `done` has its file
  until it expires.
* *Indexer cache.* A change is never lost: after it, some scan that began later
  is what is served. One background refresh per key. A restart restores the
  latest listing of every cache type.
* *Removal.* All folders confirmed are moved, or none.
* *Accounts.* There is always an active administrator; the limiter counts
  exactly the failures in its window.

The hazards behind these, each at its line, are in `PROJECT.json`.

## What is modelled

| Module | Models | Kind |
|---|---|---|
| `JobRows` | the row, the `done` event and `status_for_exit_code` | data, shared |
| `JobLedger` | what the database promises about a verdict | abstract specification |
| `JobCompletion` | `job_runtime.py`, and start/stop/stream/page of `jobs.py` | detailed specification |
| `JobEventLog` | the log of a job: producer, stored events, stream, job panel | specification |
| `ContainerJobs` | how containers become jobs: start and discovery in `jobs.py` | specification |
| `JobForms` | from a run form to command and mounts: `converters.py`, `registry.py` | specification |
| `RenderQueue` | background animations: `tec_map_jobs.py`, two handlers of `tec_map.py`, `runGif` | specification |
| `MapAnimation` | one animation: guard rails, loading of days, drawing and encoding | specification |
| `BasemapTiles` | the map beneath: zooms, tile threads, tile cache (`tec_map_render.py`) | specification |
| `Accounts` | accounts, sessions, requests under way: `auth.py`, start-up of `main.py` | specification |
| `LoginLimiter` | `POST /login` and its sliding windows | specification |
| `AbstecRemoval` | preview, confirmation and removal: `indexed_data.py` | specification |
| `IndexerClient` | the hub's cache of the indexer's listings and the pages that use it | specification |
| `IndexerCache` | listings, refreshes, watchers and cache table of `data_indexer.py` | specification |
| `ArchiveScan` | the five directory walks of `data_indexer.py` | specification |
| `StationMap` | the map of RINEX stations and its cache: `rinex_station_map.py` | specification |
| `MC...` | instances for TLC, and the documented claims the code does not keep | for TLC |
| `...Proofs` | see [What is proved](#what-is-proved) | proofs |

`MCHub` composes the ten modules that share no state - `LoginLimiter`,
`Accounts`, `ContainerJobs`, `JobForms`, `AbstecRemoval`, `MapAnimation`,
`BasemapTiles`, `IndexerClient`, `ArchiveScan`, `StationMap` - into one run in
which `part` picks whose behaviour a behaviour is: no interleaving of parts is
explored, since there is nothing one could tell another, and every interleaving
within a part is. It extends `Accounts`, `ContainerJobs` and `BasemapTiles`, so that what
the run checks of them is the very definition the theorems are about, and
instantiates the others.

Where modules meet, each takes from the other what it promises:
`JobEventLog` lets any writer close the row, which is `JobCompletion`'s subject;
`ContainerJobs` ends a job whose container is gone, as `JobCompletion` shows the
code does; `MapAnimation` is the `work` that `RenderQueue` lets succeed or fail;
`IndexerClient` is answered with the tree `IndexerCache` serves, whose walks are
`ArchiveScan`.

### JobLedger

A writer that sees the job running takes a *claim*; only a claim lets it write,
and writing or giving up ends it. The first verdict appears together with a
`done` event; while other claims are open it is provisional. There is no event
loop, no thread, no container. `Forget` is the restart: all claims are gone,
what was committed stays.

### JobCompletion

*Closers* are the tasks that can write a verdict: the monitor, one producer per
job, page requests, stop requests, streams. `persist_job_finished` is cut where
another actor can get in between:

| Step of a closer (`closing[c].pc`) | Code |
|---|---|
| `read` -> `inspect` | the row is read into the session (`job_runtime.py:201-202`), which keeps this copy (`seen`) |
| `inspect` -> `query`, or leave | `get_container_state` and its early returns (`:205-215`) |
| `query` -> `commit` | the query for an existing `done` event (`:165-170`) |
| `commit` -> `closed` | one transaction: the row if the copy said running, the event if none was found (`:158-186`) |

A closer in a thread takes these steps one at a time, interleaved with
everything. A closer on the event loop (producer, stop, stream) reads the row
and then holds the loop until its commit (`loop`): the other coroutines wait,
the threads do not. `LoopFree` is a guard of every action that is loop code.

The other variables: `prod` is `_producer_tasks` with the place of each
producer; `mon`/`todo` the monitor's loop over the ids it listed; `start` the
place of `POST /jobs/start`, whose container is started in a thread and whose id
is committed later; `stream` an open `GET /jobs/{id}/stream`, polling events or
in the direct fallback, or deaf; `box` and `code` the container (external: it exits when
it likes, `--rm` or an administrator removes it). `raced` is history: it notes
that a verdict was committed while another closer of the same job was under way.

`Restart` is the death of the process at any moment and the next start: tasks,
threads, streams and starts under way are gone, rows, events and containers
stay, `mark_legacy_stopped_jobs` runs, the monitor begins again.

Docker being down has two faces. Inside the `try` of `get_container_state` it is
the answer "unknown". But `docker.from_env()` stands outside it and raises
(`runner.py:315`): then the reconcile as a whole raises (`ReconcileRaises`), and a
monitor that gets the exception goes on to the next job without a look at its
producer. The same call stands outside the `try` of the thread that reads a log
(`:201`): the thread dies and tells nobody, and a direct stream that waits for it
is *deaf* - it sends heartbeats, and never looks at the row again.

What is abstracted: ids, users, access checks, payloads, timestamps, log
events (see `JobEventLog`), sleeps (any pace is allowed), and
failures of SQLite itself. The outcomes of `get_container_state` are: runs
or unknown (`ReconcileLeaves`, possible at any time), exited with a code, not
found, an exception (at any time). The exit code a log stream reports is the container's or -1
(`StreamCodes`), because the container can be removed before it is asked. A
cancelled producer (`stop_job_runtime`) exists only as part of `Restart`.

### IndexerCache

A key is a listing type and a root. An archive is the number of changes made in
it; a listing is the set of changes it shows. `_scan_and_store` is cut at every
write to shared state: the generation is read and the scan listed (`Begin`), the
walk ends with every change made before it began and any of those made meanwhile
(`ScanEnds`) or raises (`ScanFails`), then cache (`StoresListing`), generation
(`MarksGeneration`) and table (`SavesListing`) are written one after the other,
as the code does without a lock. `_cached_listing` is `Asks` (which starts the
watcher), then one of `ScansNow` (forced, invalidated or missing),
`AnswersFromCache`, `AnswersStale`. The reads of that decision are one step:
the decision and the generation read are not separated, since a change handled
between them is as if handled before.

`world` and `events` are the archive and the events watchdog has queued
(external); `told` is history: the changes an observer has handled in this life
of the process. `lapped` is history: two scans of a listing were under way at
once. Age is one bit, `fresh`; `Expires` is the TTL running out, for the copy in
the table too. `Restart` loses all but archive and table.

Abstracted: what a walk finds in the folders, a root that is missing (the code
answers with an empty list and changes nothing), the recorded durations of
scans, and the start-up index with its marker. One event stands for
the events of one change. `Refreshers` bounds the background threads: one for
each key would do, the runs have one more.

### JobEventLog

One job. A log line is its number; `events` are its rows of `job_events`, with
ids as SQLite gives them (one more than the highest in the table: there is no
`AUTOINCREMENT`, and pruning never takes the highest). The producer (`_produce_job_events`) attaches,
reads the row again for every line (`ProducerReads`), passes the line over when
the hub is to keep none (`keep` is 0), else stores it in a
commit of its own (`ProducerStores`, with the pruning that follows every
`PruneEvery` lines), stores the message when its log stream breaks, and closes
the job; it may die at any step. Between its look at the row and its commit any
other writer may close the job. The stream (`generate` in `stream_job_logs`) takes its
cursor from the URL, the `Last-Event-ID` or the tail, fetches a page
(`FetchesPage`), sends it event by event (`SendsEvent`), looks at the row when
nothing is new (`Sleeps`, `SendsEnd`), and falls back to the container's own
log when nothing was ever stored (`FallsBack`, `SendsLine`, `DirectEnds`), unless
Docker is down just then, which makes it deaf. The
panel is `initializeJobPanel`: an EventSource that reconnects by itself with
the last id (`Drops`) - which lines of the fallback do not have, so that a lost
fallback begins anew - and one that ended for good and is opened again with the
remembered id in the URL (`IsRefused`, `Reopens`). `shown`, `top`, `repeated`,
`since` and `direct` are history; `repeated` notes an event that is sent again by
its id and a line that is sent again with or without one. Abstracted: progress and
status events, payloads, pauses, more than one panel, a panel swapped for another
job's.

### ContainerJobs

`POST /jobs/start` in its steps: the check for a dockur job (`Begins`), the wait
for the virtual machine (`VmIsUp`, `VmIsMissing`: the one await before the row),
the row, the container, its id (`RecordsId`), and the ways it can fail. A page
(`_discover_running_converter_containers`) lists the containers once, looks
each up in the table (`LooksAt`) and inserts what it does not know in one commit
(`Imports`). The accounts may be those of a new database, so that a label names
a user nobody knows. A container runs dockur or not, a row is flagged so or not:
the flags of an import have no runner whatever its container runs, and the check
goes by the flags of running rows. `stop_job` records the stop before the
container exits, if it does. `adopted` and `rivals` are history: containers that were
imported while their start or another page was at them, and dockur starts
that were checked while another had no row. `Casts` says which requests and
containers meet in a run.

### JobForms

One form on its way: posted, prepared (`_prepare_tec_suite`, `_prepare_abstec`,
`_prepare_dat_parquet`), completed with the flags' defaults
(`_apply_converter_flag_defaults`), built (`build_command`). Values are strings
as `str()` has them, since spellings matter ("007", "on", left out). The command
is the words of each flag in the registry's order (`Words`: none, the flag, or
the flag and its value), and `volumes` maps a host folder to its mount: the first
flag that names a folder decides where it is mounted (`First`, `MountPoint`: what
`if host_path in volumes` in the loop over the flags comes to), and a fixed mount
replaces that (`FixedVolumes`). The tables of flags are the registry's.

### RenderQueue

Every `with _lock` block of `tec_map_jobs.py` is a step. `submit` looks and
inserts in one (`SubmitReuses`, `SubmitRefused`, `SubmitInserts`) and puts the
id into the queue after it (`Put`); `_expire_locked` is part of both blocks that
call it. Between the two stands `_ensure_worker_locked`, which clears the
directory and starts the thread and may raise while no worker runs
(`SubmitRaises`): the job stays in `_jobs` and is never put (`stranded`, history).
The worker takes a job, waits for the slot, renders, and publishes the
result in two steps, because a handler reads the status without the lock and
the status is set before the media type. `DirectStarts`/`DirectEnds` is `GET
/tec-map/gif`, which renders in its own thread in the same slot. `tab` is a page
in `runGif`: it submits, polls with a limit on lost polls, asks for the result;
`CheckResult` is the handler without a lock, `OpenResult` the file it opens
afterwards. `Restart` loses everything but the files. Abstracted: what is
rendered (`MapAnimation`), progress, times (a job is old or not).

### MapAnimation

A request for a range of ticks and a set of stations passes the guard rails
(`_animation_request`, `RejectsStations`) or not; the days are loaded one by one
or by a pool that finishes them in any order (`DayBegins`, `DayEnds`,
`DayIsSeen`), each day summed, skipped or raising (`day_frame_summary`, the
outcomes it may have: a day without rows in the range raises, or is skipped where
its other rows could not be filtered out while they were read); samples
are grouped into frames (`ComputesGrids`), drawn in any order by workers
(`_draw_frame_in_worker`) and encoded in theirs (`Encodes`). Days that wait and
frames that are left are sets of which the earliest is next (`DayBegins`,
`IsNext`): the sorted lists of the code. A sample is good,
below the elevation cut-off, or without a value. Abstracted: everything that
is computed from a sample's value.

### BasemapTiles

`load_basemap_layer`: the finest zoom that fits (`choose_tile_zoom`), a thread
per tile that looks into the cache, fetches, cuts the file and fills it
(`AsksCache`, `Fetches`, `CutsFile`, `FillsFile`: `write_bytes` is two steps), and
the fallback to the next zoom when a tile cannot be had, after the pool's other
threads have ended (`TilesAreIn`). An answer may be no image, which is found out
after it was written ("junk"); the disk may fail before or after the cut
(`WriteFails`); the process may die in between (`Crash`). `spoiled` is history:
the tiles whose file such a write left. `Preferred` are the values of the
setting `basemap_zoom`, 0 when it is not set.

### Accounts and LoginLimiter

A request of a browser is checked by its dependency (`Arrives`, with
`get_current_user` and `get_admin_user`) and handled later (`create_user`,
`toggle_user`, `change_password_submit`) with the account as it was read then;
others may act in between. `Started` is the start-up: seeding an empty table,
flagging administrators with the deployed password. `chose` and `crossed` are
history: who was given that password by hand, and whether a request was used whose
account had been deactivated meanwhile. A login is one step, since its
handler never awaits; the limiter beside it keeps the times of failures per key,
drops stale ones when it looks, and purges when there are too many keys; off
(`LOGIN_RATE_LIMIT_ENABLED`), it keeps and refuses nothing. The code's list of times is a bag here - how often each time is in it - since nothing
reads the order. `guesses` is history: when wrong passwords were really checked.

### AbstecRemoval

A folder is a version or gone. `preview_abstec_removal` sees all versions;
the handler compares the digest (`DigestAgrees`), makes every batch directory
(`MakesBatches`, which fails on a read-only root before anything moved), renames
one folder after the other (`Renames`), and on a failure renames backwards
(`Restores`); a folder that has come back, or another error, ends that
(`RestoreFails`). What is left to move and
what was moved are sets, taken in the order of the previewed list (`IsFirst`,
`IsLast`). Converters write and
rivals remove in between; `late` notes which removals that happened to, and which
could not put a folder back. `Restart` is the death of the hub in the middle.

### IndexerClient

A page asks for one listing or for all (`Visits`, which clears the cache where the
page does), is answered from the cache, or fetches: sent, answered by the
indexer, arrived and stored, or failed (`Fetches`, `IndexerReplies`, `Arrives`,
`FetchFails`), with other requests in between. `Parsed` is what the parsers
leave out. `until` is history: when each tree ceased to be the newest.

### ArchiveScan

A walk lists the root, then each year in a worker of its pool, each day, each
site folder (`ListsRoot`, `ListsYear`, `ListsDay`, `OpensSite`), while folders
are written and removed. `kind` picks one of the five scans; they differ in what
makes a site count (`Opened`, `Listed`, `Satellites`) and in whether a folder
that is gone is skipped or ends the scan. `stayed` and `seen` are history: what
a listing would have shown all along, and what was there at some time. The proof
made the property say two things exactly: a tecsuite day shows either its
folders or its files (a site is one or the other, `isFile`), and a year without
a day counts among the newest all the same.

### StationMap

`GET /rinex-stations`: the folders are looked for and the cache is read under
its lock (`LooksUp`); on a miss the thread walks the folders as `rglob` of
Python 3.11 does, each listed twice (`ListsZips`, `ListsFolders`), opens one
archive after the other (`Opens`), sums the stations up and stores the map with
the time of its end (`Stores`). Archives are written, damaged and removed, and
folders removed, meanwhile. An archive is a sequence of members, of which the
first one with a position and an id counts; a torn one ends the reading of its
archive, and one that raises what `_UNREADABLE_ARCHIVE_ERRORS` does not name
("fatal": a corrupt lzma stream, a name that is no UTF-8) ends the request with a
500. Ids and markers are numbers, and one coordinate stands for three, of which the code takes the median one by one. The
records of a scan are a set with at most one from each archive, so the order they are
read in does not matter to their summary; the median is an order statistic of it
(`Nth`), doubled to stay an integer. A request that is shown keeps in `span` the
trees its answer may be about, by the rule of the cache's lifetime or of its own
scan; only the property reads it. The
conversion to latitude and longitude, the spread and the bounds of the map are
left out, and so are coordinates that are `nan` or `inf`, which `float` reads and
JSON cannot send. `trees` is history: the archive as it was after each change.

## What the runs check

| Run | Instance | States | Checks |
|---|---|---|---|
| `verdict` | 1 job, 1 page, 1 stop, 1 stream, monitor, producer; codes 0 and 1; no restart | 1 169 849 | safety, refinement, no deadlock |
| `verdict_live` | 1 job, 1 stop, 1 stream, monitor, producer; code 0; 1 restart | 118 178 | liveness |
| `indexer` | 1 listing, 1 request, 2 refreshers, 1 change, 1 restart | 45 743 | safety, liveness |
| `event_log` | 1 job of 2 lines, pages of 2, pruning to 2 after every 2 or keeping none, tails 0, 1 and all, 3 faults | 802 832 | safety, liveness |
| `map_jobs` | 2 users with a page each, 2 requests, 1 direct request, 2 animations, limit 1, 1 restart | 644 576 | safety, place in the queue, liveness |
| `hub` | ten parts, see below | 2 887 698 | safety |
| `stop_is_kept`, `done_once`, `safety_net`, `change_lost`, `cache_survives`, `shown_once` | as small as the counterexample allows | - | each is violated, see below |

**verdict**

* `TypeOK`.
* `VerdictIsTrue`: no "success" or "failed" for a container that still runs, no
  "success" unless it exited with 0, no exit code but its own.
* `VerdictIsDurable`: a verdict has its `done` event, and a `done` event never
  precedes the end.
* `UncontestedVerdict`: with no two closers at once there is at most one `done`
  event, and it says what the row says. The code gives no more than that: see
  `DoneOnce`.
* `SettledStays`: once a job has its verdict and no closer that saw it running
  is left, row and events never change again.
* `LoopKeepsStop`: no writer on the event loop overwrites a stop. This is what
  `expire_all` and the early commit of `stop_job` are for.
* `ImplementsLedger`: with `claims[j]` as the closers that saw `j` running,
  every behaviour is one of `JobLedger`.

**verdict_live**

* `EndedJobCloses`: a job whose container has exited gets its verdict with no
  page open.
* `ProducerComesBack`: a running job without producer gets one, or its verdict,
  although a visit of the monitor that cannot reach Docker restarts none.
* `StreamFindsEnd`: no stream outlives its container for ever, but a deaf one.

**indexer**

* `AnswersShowWhatWasTold`: a request answered from the cache is shown every
  change whose event had been handled, unless scans of the listing overlapped -
  the exact limit of the generations, see `NoChangeIsLost`.
* `RefreshIsBooked`: `_refresh_in_progress` is the set of listings a background
  thread works on, one thread each; no key is left behind by a failure.
* `ProgressIsTrue`, `ProgressLasts`: `/status` shows no scan that is over, shows
  a scan without a rival, and drops none because an earlier one ended.
* `ListingCatchesUp`: every change is served at last - without watchers, after
  events lost in a restart, and after scans that overtook each other, thanks to
  the TTL - as long as the listing is asked for and walks sometimes succeed.

**event_log**

* `LinesInOrder`: the stored log has each line at most once and in order,
  whatever producers die and begin again. (Lines printed while none was
  attached may be missing: the code promises no more.)
* `LateEvents`: what lands behind the `done` event, where no stream looks, is one
  turn of a producer that had read the row before.
* `PanelMissesNothing`: a panel that has its end has shown every line stored
  before it from where it began.
* `RepeatsOnlyAfterReopen`: nothing is shown twice, but in a panel that opened its
  source again with an id in the URL or that lost a fallback, whose lines have no
  ids to go on from.
* `PanelLearnsEnd`: an open panel gets its end, unless its stream is deaf.

**map_jobs**

* `TypeOK`.
* `UserJobs`: the limit per user, and one animation per request.
* `QueuedOnce`: a job that reads as queued is on its way to the worker in
  exactly one place; only one whose submit raised is in none.
* `FilesMatchJobs`: the directory has the files of the finished animations on
  offer and, once the worker runs, no other.
* `ToldDoneIsServed`: a page told "done" gets a complete result or the news that
  it has expired.
* `PositionFalls`: the place a page is told only falls, unless a later job
  overtakes (which the put outside the lock allows).
* `PageLearnsTheEnd`: no page polls for ever, but one that was given a job whose
  submit raised.

**hub**

* `LockIsExact` (`LoginLimiter`): a login is refused exactly when so many wrong
  passwords were checked for the key within the window, whatever was purged (the
  limiter being on).
* `AdminRemains` (`Accounts`): an active administrator remains unless requests
  crossed; the deployed password is never left unflagged.
* `OneJobPerContainer`, `OneDockurAtATime` (`ContainerJobs`): with the exact
  races in which they do not hold.
* `MountsHold`, `StoredIsRun` (`JobForms`): every path of a command leads to the
  folder the settings name, but one whose mount a fixed mount replaces; the stored
  flags are the command.
* `RemovesAllOrNothing` (`AbstecRemoval`): what was confirmed, or nothing, unless
  another writer comes in between or a folder cannot be put back.
* `RangeIsWhole` (`MapAnimation`): every usable sample in one frame, in order,
  or an error; the renderer takes back an admitted request by one frame at most.
* `TornTileHasACause` (`BasemapTiles`): a tile on disk that does not decode is being
  written, or its last write failed, brought no image or was cut by a crash.
* `ShownWasTrueLately` (`IndexerClient`): what a page shows was true at most a
  TTL and a fetch ago; with a refresh, not before the page was asked for.
* `ListsWhatStayed` (`ArchiveScan`): a vanishing folder costs its own entry only.
* `MapIsOfLate` (`StationMap`): a map of stations counts every archive that
  stayed and none that was not there, places a station where more than half of
  its archives do, and is late by a TTL and a scan at most; a refresh, not at all.

*Bounds (jobs).* Jobs share no state but the monitor's list and the event loop, and
every property speaks of one job; one job with one writer of each kind has every
pair, and every triple of kinds, of writers that can meet (the monitor, the
producer and the page are three threads; stop, stream and producer share the
loop). Two codes tell success from failure. Restarts are independent of each
other - a restart forgets everything but row, event and container - so one is
enough for liveness; the proofs cover any number. Liveness is checked without
a page, which only could help, and with one exit code, which liveness does not
look at.

*Bounds (indexer).* Keys share nothing but the table (whose conflict is
`CacheSurvives`' subject, with two types) and the generation of their root,
which they only read. One change is enough for each order that matters: before,
during or after a walk, with its event handled before, during or after it, or
lost in the restart. One request and two refreshers give two overlapping scans;
a second refresher of the same key is what `RefreshIsBooked` excludes.

*Bounds (event log).* Two lines, pages and pruning of two give a full page, a
page that pruning empties, a `done` event in the page or beyond it; three faults
give a lost connection, a refused one and a second lost one, which is what
it takes to repeat an event. The proofs cover every size.

*Bounds (map jobs).* Two animations and a limit of one give a job that waits, is
refused, is reused, expires or fails half way; a restart and files of before
are there; a direct request holds the slot. More users or pages add only more of the
same requests, and the proofs cover any number.

*Bounds (hub).* Limiter: two keys, two attempts, a window of two ticks, room for
one bucket, so every purge matters. Accounts: two browsers, two names, a
password that is weak, good or too short. Containers: two starts and a page, one
start and two pages, or a container from before; more requests of a kind only
add pairs that are there. Forms: every root in its own folder, in another root's
folder or unset, and fields filled in together where the code combines them.
Removal: two administrators, two folders in two roots, three writes. Animation:
three days of three ticks, frames of two ticks (so one spans midnight), two
stations of which one's days are anything, two workers. Basemap: two maps, three
zooms of which the finest is refused, a preferred zoom that is unset, below the
coarsest or the refused one, one crash. Client: two requests, two trees,
four ticks, a TTL of one. Scan: five kinds, three years of which the newest has
no day and two are walked, two changes. Stations: two requests, for a month, a day of it or a name that is
none; three archives of which two agree and the third puts the station
elsewhere; one change and four ticks with a TTL of one, so that a map is hit,
is too old, or is refreshed before or after the change.

*Fairness (indexer).* Threads run, events are handled, time passes (`WF`). A
walk that is repeated for ever does not fail for ever, and the listing is asked
for again and again without `refresh` (`SF`): nothing in the indexer moves
without a request, so this is the condition of the property, not a claim about
clients.

*Fairness (jobs).* Threads end (`WF` of every step of a closer under way): they make
one bounded Docker or database call at a time. The event loop runs its ready
tasks in turn; a task that is ready, loses its turn to a holder of the loop and
is ready again must not wait for ever, hence `SF` of the monitor's steps, of a
start under way and of what a stream is told. Docker answers now and then:
`SF` of the monitor's reconcile being told how a job's container is
(`DockerTells`), since otherwise "unknown", or an exception, for ever is legal. A deaf
stream has no step to be fair to. Nothing is assumed of users, of
containers (they may run for ever), of a producer (it may die each time) or of
restarts.

*Fairness (event log and map jobs).* Tasks, threads and pages run (`WF`). The
container exits at last, since the fallback waits for it; that the row is then
closed is `JobCompletion`'s `EndedJobCloses`. A direct request ends. The worker gets
the slot now and then (`SF`): `threading.Lock` does not promise it, and a
renderer that always finds a rival would wait for ever.

Deadlock is checked for the jobs and the indexer, whose loops never end. A log
is over when its panel has its end; in `map_jobs` and `hub` the
parts stop at their bounds: those three configurations say `CHECK_DEADLOCK FALSE`.

## What is proved

Every safety property and action property the passing runs check is proved, each
for all values of the constants and any number of steps; liveness is not (see the
end of this section). The argument is the same everywhere: an inductive invariant,
named parts of which say what is true of every actor in the middle of its
work, one lemma for each action, and the property as a consequence.

**`JobCompletionProofs`.** For every set of jobs, pages, stops and streams, every set of exit codes and any
number of restarts, from `JobRowsAssumption` (exit codes are 0-255, NULL is no
number) and `JobCompletionAssumption` (tasks of different kinds are different):

* `TypeCorrect == Spec => []TypeOK`. `TypeOK` is not inductive: a closer under
  way must have a job. `TypeInv` adds that, and the lemma `StepType` goes
  through the actions one by one. `TypeOK` says more than types where codes are
  concerned: that no recorded exit code is NULL depends on `InspectedCode`.
* `VerdictDurable == Spec => []VerdictIsDurable`, on top of it. Alone, it is not
  inductive either: what a closer under way has read must still be good when it
  commits. `DurableInv` adds `ClosersKnow` - a closer holds the running row, or
  a row of a job that is closed by now, and one that found a `done` event is
  right about it - and `OpenHasRow`: a stream is open on a row that is there.
  Events and closed rows only grow (`StepGrows`), so both survive the steps of
  the others (`StepKnow`, `StepOpen`). `RowEffect`, `CloserEffect` and
  `PersistEffect` state once what any action can do to rows, events and closers.

**`JobLedgerProofs`**, from the same assumptions. `LedgerInv` is `DurableInv` with
five parts: `LoopOk` (who holds the event loop, and that a producer, a stream or a
stop is busy only while it does), `RowsOk` (a row and its start fit, and a verdict is
true of the container), `StreamsOk`, `ClosersOk` (what a closer brings to its
commit - code, copy of the row, whether it found an event - is so), and `RacesOk`
(where no two closers met, events and row agree). It is inductive
(`LedgerInductive`), and from it follow

* `VerdictTrue == Spec => []VerdictIsTrue`,
* `VerdictUncontested == Spec => []UncontestedVerdict`,
* `StopKept == Spec => LoopKeepsStop`: the holder of the loop read its row when
  it took the loop, and no other coroutine has run since,
* `VerdictSettled == Spec => SettledStays`: without a closer that saw the job
  running no action has anything to write,
* `LedgerImplemented == Spec => ImplementsLedger`, the refinement: `ClaimsAre` is the
  mapping (the claims on a job are the closers that saw it running),
  `QuietStep` and `CommitStep` show that a step opens, drops or uses one claim or
  changes no row, and `Restart` is `Forget`.

**`IndexerCacheProofs`**, for every set of listings, requests, refreshers, any
number of changes and restarts. `TypeInv` bounds generations and listings by the
changes there were. `Booked` ties `_refresh_in_progress` to the threads that are
at work and is inductive with it (`RefreshBooked`). `Listed` says of each entry of
`_active_scans` which walk it stands for (`ProgressTrue`; `ProgressLasting` is
the action property). `Honest` is the argument for the generations: unless walks
of a listing overlapped, neither the generation on record for it nor one a walk
has read promises more than the data: where it is the root's present generation,
the data shows every change the observer was told of (`AnswersTold`).

**`RenderQueueProofs`**, for every set of users, pages, requests and direct
threads and every limit. `Inv` joins `Numbered` (jobs are numbered by creation),
`WorkerKnows` (what the worker does fits its job's status), `JobsTell` and
`PagesTell` (what a page was told was true and can only become truer: a job
moves on from queued to done, `JobsMoveOn`, `StepsMoveOn`). From it follow
`UserLimit`, `FilesMatch`, `DoneIsServed` and `QueuedIsInOnePlace`. `PlaceFalls`
compares a place told with the true one: `TruePlace` bounds what was told
from below by the jobs ahead, and `Earlier` shows that these only become fewer.

**`JobEventLogProofs`**, for every tail, page size, pruning interval and number of
faults. `LogInv` says of the table that ids grow with lines, that there is one `done`
event at most, and what the producer may still add behind it; `LogGrows` that a
step stores only above what is there, keeps `done` events, and never gives up the
highest id. `PanelInv` says of every id that the stream or the panel may go on
from (cursor, URL, last, remembered) that it is a `Position`: all that is stored
up to it, from where the panel began, was shown. `LinesStored`, `LateAreFew`, `NothingMissed`, `RepeatsOnly`.

**`HubProofs`** has six parts of the hub, each with an invariant of its own. The
assumptions are those of `MCHub`, which TLC evaluates in the run `hub`.

* `LockExact` (`Window` is a number): `LimiterOk`, for a limiter that is on, says that within the window the
  bucket of a key and the wrong passwords checked for it are the same bag, whatever
  stale times either still has. A purge drops keys only whose part is empty.
* `AllOrNothing` (no assumption): `RemovalOk` follows a removal from digest to answer:
  while it moves, what is gone is what it has moved and the rest is as the
  administrator saw it; while it restores, likewise; `late` excuses the folders
  another writer touched and those that could not be put back.
* `ShownTrueLately` (`ClientAssumption`: lengths of time are numbers, the page's
  trees are known): every entry of the cache, every answer on its way and every
  page carries a tree that was the newest not before a bound, and the bounds add
  up along the way: sent, answered, stored, shown.
* `AdminStays` (no assumption). `RequestsOk` adds what is true of a request
  under way: its account is there, is an administrator's if it toggles, and if its
  password is the weak one now and was not when the request was checked, somebody
  chose it.
* `NoTornTile` (no assumption). `TornIsWritten`: every torn file that is not spoiled
  has a thread between its two steps, and its map cannot leave that zoom; the thread's
  end fills the file or spoils it, a crash spoils what was being written.
* `MountsLead` and `StoredRuns` (no assumption: any settings, any form). `FormsOk`
  follows a form: once prepared it has the folders the settings name (`PathsOk`),
  whatever it was posted with; once stored it has every flag, in the spelling the
  command will have (`StoredOk`), and completing it with the defaults takes back
  nothing that `_prepare_...` put there (`FormStored`). Of the registry's tables it needs
  what `RegistryOk` and `VolumesOk` say - a key has one flag, no two flags and no fixed
  mount share a place, a flag with a mount is text and is one that `_prepare_...`
  fills in, no number's default is spelled with zeros in front - which `TecTable`,
  `ParquetTable`, `AbstecTable` and `Tables` prove of the three. A flag added to the
  registry that breaks one of them breaks these lemmas first.

**`ArchiveProofs`** has the three that read the archive.

* `RangeWhole == Spec => []RangeIsWhole` (`AnimationAssumption`: days follow one
  another, lengths are positive, samples are low, void or good). `LoadOk` says that
  the summary is the usable samples of the days summed so far; that the days of
  a range between them hold exactly its samples is arithmetic (`QuotientsBetween`,
  `DayOfTick`, `WantedByDay`). `RenderOk` has the frames as a function of their
  times: what was drawn, what is left and what was encoded make them up, the
  encoded ones being the earliest, in order. `FramesCounted` bounds the number of
  frames by the number of frame times in a range, which is what the request was
  admitted with: at most one frame more than the limit.
* `ListedStays == Spec => []ListsWhatStayed` (`ScanAssumption`: finitely many folders, a
  day lies in its year). `Owed` says where a site that stayed is at any time: in a worker's
  entries, in a day it has still to list, or coming from the day it is at
  (`Coming`); a worker that raised owes nothing. `WorkerOk` says of every entry that it was there.
  A day gone under the scan shows nothing that stayed (`DayMissed`), a site
  folder gone neither (`SiteOpened`), and a year that is among the newest of all years
  seen is among the newest of those the root listed (`NewestShrinks`).
* `MapOfLate == Spec => []MapIsOfLate` (`PositionsAssumption`: paths and archives are
  finite sequences, a tree has finitely many folders, those of its archives among
  them, lengths of time are numbers). A map is right by what `Gathers` says of its
  records: at most one from each archive, each told by an archive of some tree of
  the span, and all that was told in every tree of it. `Progress` is that on the way, for a
  scan: what stayed is in the records or `StillToCome`, in the archives listed or
  beneath a folder that is. `EntryOk` bounds how old a cache entry's trees are by
  the time it was stored and the slowest scan, so that what any other request stored
  is of the span of whoever is shown it (`LooksUpIsOk`). That the median is where
  more than half of the archives agree is `MajorityIsMedian`, by counting.

**`ContainerJobsProofs`** (`OneJob`, `OneDockurJob`), for any casts in which a
container from before is not one of the starts' own
(`\A cast \in Casts : cast.strays \cap Starts = {}`; Docker's ids are unique) and
pages are not starts. `Ran` says which containers a start has made, `ScanOk` what a
page knows of the table while it scans, `Backed` that a dockur container of the hub
has its flagged row, running or stopped, and `Once` and `OneDockur` are the
properties with these.

Only model-checked: liveness, that is `EndedJobCloses`, `ProducerComesBack` and
`StreamFindsEnd` (`verdict_live`), `ListingCatchesUp` (`indexer`), `PanelLearnsEnd`
(`event_log`) and `PageLearnsTheEnd` (`map_jobs`). Weak and strong fairness are about
`ENABLED`, which the prover does not expand.

## Where the code and its documentation disagree

Each of these is a run that ends in a counterexample, and a finding with both
places quoted in `PROJECT.json`.

* `StopIsKept`: a reconcile that read the row before the stop was recorded and
  asks Docker after the container stopped writes "failed" over "stopped".
* `DoneOnce`: two closers look for a `done` event before either commits, and
  both add one.
* `SafetyNet`: the hub dies between `docker run` and the commit of the container
  id; the row reads "running" for ever, since `reconcile_job_state` skips rows
  without an id. (The run speaks only of jobs whose `docker run` had returned; an
  exception of `start_container` that is no `DockerException` leaves the same row.)
* `NoChangeIsLost`: a forced and a background scan of one listing end together,
  the older listing is stored last and the newer generation is marked last: the
  change is not served until the TTL has passed.
* `CacheSurvives`: the cache table is keyed by the root, so saving one of the two
  parquet listings of a root deletes the other; a restart restores one of them.
* `ShownOnce`: a panel that opened its source again with an id in the URL keeps
  that id there; when the browser then reconnects by itself, the handler prefers
  the URL to the newer `Last-Event-ID` and sends what was shown already.

Other weaknesses of the code that the models have, and that the properties name as
exceptions: a stream that is deaf because Docker was down when it turned to the
log; a monitor's visit that raises and restarts no producer; an animation that is
stranded because its submit raised; a lost fallback whose lines are shown again; an imported dockur
container that the check for a running one does not see; a tile that is stored
though it is no image; a TEC-Suite run whose RINEX and DAT roots are equal, one
mount of which replaces the other; and an archive whose reading raises what
`_UNREADABLE_ARCHIVE_ERRORS` does not name, which fails the whole map of stations
(`rinex_station_map.py:222` says that one damaged upload must not).

## Not modelled

* Numerics and drawing (interpolation, IRI, kriging, local polynomials, colour):
  floating point, out of TLC's reach. What is discrete around them is in
  `MapAnimation` and `BasemapTiles`.
* Station positions from RINEX headers: the columns of a header line and the
  geometry on the ellipsoid. Which archives count is in `StationMap`.
* Single frames, series, validation and station lists of the TEC map: one
  request, one answer, nothing kept.
* The re-index marker and the start-up script of the indexer
  (`should_run_full_index`, `entrypoint.sh`): a test of two times whose answer
  no other part depends on.
* Progress parsing and progress events: shown, never decided upon.
* A pool whose process is killed (`BrokenProcessPool`), the time limit of httpx, which
  is per operation (`Timeout` bounds a fetch as a whole), `Thread.start` raising in the
  indexer, a stream that spins without an await, and the swap of a panel for another
  job's.
* The scheduling of the default thread pool, and failures of SQLite: every run
  assumes that a thread that was dispatched runs and that a commit commits.
* Audit log, feedback, translations, configuration, the analysis proxy,
  templates, forms and plots of the front end: no state that could be
  inconsistent.
* Deployment scripts: operators' tools outside the running system.

## Plan

Done: `JobCompletion` over `JobLedger`, `IndexerCache`, `RenderQueue`,
`JobEventLog`, `ContainerJobs` (discovery), `AbstecRemoval`, `Accounts`,
`LoginLimiter`, `IndexerClient`, `JobForms`, `MapAnimation`, `BasemapTiles`,
`ArchiveScan`, `StationMap`, and the panel and the poller of the front end with the servers
they talk to.

Left: the history page and `parse_progress` against reference definitions.
