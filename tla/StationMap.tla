----------------------------- MODULE StationMap ------------------------------
(***************************************************************************)
(* The indexer's map of RINEX stations, rinex_station_map.py with its       *)
(* handler.  A request looks in the cache under a lock; on a miss, or when  *)
(* a refresh is asked for, its thread walks the folders of the year or the  *)
(* day, reads the header in every archive found, one after the other, and   *)
(* sums the stations up.  Uploads come and go meanwhile, other requests     *)
(* scan the same folders, and the last one to end is the one that is kept.  *)
(* The root and year are fixed; ids differ in more than the case of their   *)
(* letters; one coordinate stands for the three and is a number (a header   *)
(* with nan or inf, which float takes, makes a map that cannot be sent).    *)
(***************************************************************************)
EXTENDS Integers, Sequences, SequencesExt, FiniteSets, FiniteSetsExt

CONSTANTS
    Viewers,        \* requests under way at the same time
    Paths,          \* the archives' places, in path order: [folder, stem]
    Zips,           \* what an archive may hold: a sequence of members
    Trees0,         \* the archives the first request may find
    TwoDigits, ThreeDigits,   \* names of folders that read as months and days
    Asked,          \* the requests made: [day, refresh], a day as a path, << >> the whole year
    MapTtl,         \* _CACHE_TTL_SEC
    Slowest,        \* bound: ticks a scan takes
    MaxEdits,       \* bound: changes of the archive
    LastMoment,     \* bound: ticks
    MaxAsked        \* bound: requests

VARIABLES
    trees,                  \* history: the archive as it was, the last one as it is
    moment,                 \* time.monotonic
    _station_map_cache,     \* day -> when the map was stored, and the map
    viewer,                 \* the requests
    asked                   \* history: requests so far

vars == <<trees, moment, _station_map_cache, viewer, asked>>

Tree == Last(trees)

NoMap == [counted |-> 0, stations |-> [s \in {} |-> 0]]
Away == [pc |-> "idle", day |-> << >>, refresh |-> FALSE, began |-> 0, from |-> 0, span |-> {},
         todo |-> << >>, left |-> {}, records |-> {}, map |-> NoMap]

Init ==
    /\ trees \in {<<t>> : t \in Trees0}
    /\ moment = 0
    /\ _station_map_cache = [d \in {} |-> [at |-> 0, map |-> NoMap]]
    /\ viewer = [v \in Viewers |-> Away]
    /\ asked = 0

----------------------------------------------------------------------------
(* What a header tells.  A member is "skip" (a folder, no observations, no  *)
(* position in the first lines), "torn" (reading it raises what is expected *)
(* of a damaged archive), "fatal" (it raises something else, a corrupt lzma *)
(* stream or a name that is no UTF-8) or "obs".  An id or a marker that is  *)
(* not there is 0.                                                          *)

(* The first id of member name, archive name and marker.                    *)
StationOf(i, m) ==
    CASE m.file # 0 -> m.file
      [] m.file = 0 /\ Paths[i].stem # 0 -> Paths[i].stem
      [] OTHER -> m.marker

Tells(i, m) == m.kind = "obs" /\ m.x # 0 /\ StationOf(i, m) # 0

(* Where the reading of an archive ends.                                    *)
Stop(i, zip) ==
    LET stops == {n \in DOMAIN zip : zip[n].kind \in {"torn", "fatal"} \/ Tells(i, zip[n])}
    IN  {n \in stops : \A k \in stops : n <= k}

Raises(i, zip) == \E n \in Stop(i, zip) : zip[n].kind = "fatal"

(* The first member that tells where its station is; a torn one before it   *)
(* ends the reading of this archive.  At most one record.                   *)
_extract_station_header_record(i, zip) ==
    LET first == Stop(i, zip)
    IN  {[path |-> i, station |-> StationOf(i, zip[n]), marker |-> zip[n].marker, x |-> zip[n].x]
         : n \in {k \in first : Tells(i, zip[k])}}

_extract_archive_day(folder) ==
    IF Len(folder) >= 2 /\ folder[1] \in TwoDigits /\ folder[2] \in TwoDigits THEN SubSeq(folder, 1, 2)
    ELSE IF folder # << >> /\ folder[1] \in TwoDigits \cup ThreeDigits THEN <<folder[1]>> ELSE << >>

(* The n-th smallest coordinate of a station's records, of which there is   *)
(* one from each of its archives.                                           *)
Nth(group, n) ==
    CHOOSE x \in {r.x : r \in group} :
        Cardinality({r \in group : r.x < x}) < n /\ n <= Cardinality({r \in group : r.x <= x})

TwiceMedian(group) ==
    LET n == Cardinality(group) IN Nth(group, (n + 1) \div 2) + Nth(group, n \div 2 + 1)

_most_common_non_empty(group) ==
    LET names == {r.marker : r \in group} \ {0}
        Count(n) == Cardinality({r \in group : r.marker = n})
    IN  IF names = {} THEN 0
        ELSE Min({n \in names : \A other \in names : Count(n) >= Count(other)})

Summary(group) ==
    [count |-> Cardinality(group), twiceX |-> TwiceMedian(group), marker |-> _most_common_non_empty(group),
     days |-> {_extract_archive_day(Paths[r.path].folder) : r \in group} \ {<< >>},
     first |-> Min({r.path : r \in group}), last |-> Max({r.path : r \in group})]

_summarize_station_records(records) ==
    [s \in {r.station : r \in records} |-> Summary({r \in records : r.station = s})]

----------------------------------------------------------------------------
(* The archive changes: converters and uploads write archives, operators    *)
(* remove archives and folders.                                             *)

Becomes(dirs, zips) ==
    /\ Len(trees) <= MaxEdits
    /\ trees' = Append(trees, [at |-> moment, dirs |-> dirs, zips |-> zips])
    /\ UNCHANGED <<moment, _station_map_cache, viewer, asked>>

Above(folder) == {SubSeq(folder, 1, n) : n \in 0..Len(folder)}
Without(zips, gone) == [i \in DOMAIN zips \ gone |-> zips[i]]

ArchiveIsWritten(i, zip) ==
    Becomes(Tree.dirs \cup Above(Paths[i].folder),
            [j \in DOMAIN Tree.zips \cup {i} |-> IF j = i THEN zip ELSE Tree.zips[j]])

ArchiveIsRemoved(i) == Becomes(Tree.dirs, Without(Tree.zips, {i}))

FolderIsRemoved(f) ==
    Becomes({g \in Tree.dirs : f \notin Above(g)},
            Without(Tree.zips, {i \in DOMAIN Tree.zips : f \in Above(Paths[i].folder)}))

Tick ==
    /\ moment < LastMoment
    /\ \A v \in Viewers : viewer[v].pc \in {"walks", "zips", "folders", "reads"} =>
                              moment - viewer[v].began < Slowest
    /\ moment' = moment + 1
    /\ UNCHANGED <<trees, _station_map_cache, viewer, asked>>

----------------------------------------------------------------------------
(* A request.                                                               *)

Goes(v, state) == viewer' = [viewer EXCEPT ![v] = state] /\ UNCHANGED <<trees, moment>>
IsShown(v, span, map) == Goes(v, [Away EXCEPT !.pc = "shown", !.day = viewer[v].day, !.span = span, !.map = map])
IsRefused(v, status) == Goes(v, [Away EXCEPT !.pc = status])

Asks(v, day, refresh) ==
    /\ viewer[v].pc \in {"idle", "shown", "400", "404", "500"}
    /\ asked < MaxAsked /\ asked' = asked + 1
    /\ Goes(v, [Away EXCEPT !.pc = "asks", !.day = day, !.refresh = refresh, !.from = Len(trees)])
    /\ UNCHANGED _station_map_cache

IsDay(day) ==
    \/ day = << >>
    \/ Len(day) = 1 /\ day[1] \in TwoDigits \cup ThreeDigits
    \/ Len(day) = 2 /\ ToSet(day) \subseteq TwoDigits

_build_cache_key(day) == day

Cached(v) ==
    LET key == _build_cache_key(viewer[v].day)
    IN  /\ key \in DOMAIN _station_map_cache
        /\ ~viewer[v].refresh
        /\ moment - _station_map_cache[key].at < MapTtl

(* The trees a hit may be about: what is cached was listed at most a scan   *)
(* and the time to live ago, and a refresh is owed what it finds.           *)
HitSees(v) ==
    {n \in DOMAIN trees : IF viewer[v].refresh THEN n >= viewer[v].from
                          ELSE \A m \in DOMAIN trees : m > n => trees[m].at > moment - MapTtl - Slowest}

(* The folders are looked for, the year's before the day's name is judged,  *)
(* then the cache under its lock.                                           *)
LooksUp(v) ==
    LET day == viewer[v].day
    IN  /\ viewer[v].pc = "asks"
        /\ CASE << >> \notin Tree.dirs -> IsRefused(v, "404")
             [] << >> \in Tree.dirs /\ ~IsDay(day) -> IsRefused(v, "400")
             [] << >> \in Tree.dirs /\ IsDay(day) /\ day \notin Tree.dirs -> IsRefused(v, "404")
             [] OTHER ->
                    IF Cached(v) THEN IsShown(v, HitSees(v), _station_map_cache[_build_cache_key(day)].map)
                    ELSE Goes(v, [viewer[v] EXCEPT !.pc = "walks", !.refresh = FALSE, !.began = moment])
        /\ UNCHANGED <<_station_map_cache, asked>>

(* rglob: a folder that is gone before the walk has no archives, one that   *)
(* goes during the walk raises FileNotFoundError.  Each folder is listed    *)
(* twice, for its archives and for its folders.                             *)
StartsWalk(v) ==
    /\ viewer[v].pc = "walks"
    /\ Goes(v, IF viewer[v].day \in Tree.dirs THEN [viewer[v] EXCEPT !.pc = "zips", !.todo = <<viewer[v].day>>]
               ELSE [viewer[v] EXCEPT !.pc = "reads"])
    /\ UNCHANGED <<_station_map_cache, asked>>

ListsZips(v) ==
    LET f == Head(viewer[v].todo)
        here == {i \in DOMAIN Tree.zips : Paths[i].folder = f}
    IN  /\ viewer[v].pc = "zips"
        /\ IF f \in Tree.dirs THEN Goes(v, [viewer[v] EXCEPT !.pc = "folders", !.left = @ \cup here])
           ELSE IsRefused(v, "404")
        /\ UNCHANGED <<_station_map_cache, asked>>

ListsFolders(v) ==
    LET f == Head(viewer[v].todo)
        below == {g \in Tree.dirs : g # << >> /\ Front(g) = f}
    IN  /\ viewer[v].pc = "folders"
        /\ IF f \notin Tree.dirs THEN IsRefused(v, "404")
           ELSE \E order \in SetToSeqs(below) :
                    LET todo == order \o Tail(viewer[v].todo)
                    IN  Goes(v, [viewer[v] EXCEPT !.todo = todo, !.pc = IF todo = << >> THEN "reads" ELSE "zips"])
        /\ UNCHANGED <<_station_map_cache, asked>>

GivesUp(left, i) == {}                  \* mutant: what cannot be read ends the scan
GoesOn(left, i) == left \ {i}

(* An archive that is gone or damaged by now is skipped; what raises        *)
(* anything else fails the request.                                         *)
Opens(v) ==
    LET i == Min(viewer[v].left)
        isThere == i \in DOMAIN Tree.zips
        record == IF isThere THEN _extract_station_header_record(i, Tree.zips[i]) ELSE {}
    IN  /\ viewer[v].pc = "reads" /\ viewer[v].left # {}
        /\ IF isThere /\ Raises(i, Tree.zips[i]) THEN IsRefused(v, "500")
           ELSE Goes(v, [viewer[v] EXCEPT !.records = @ \cup record,
                           !.left = IF record # {} THEN @ \ {i} ELSE GoesOn(@, i)])
        /\ UNCHANGED <<_station_map_cache, asked>>

_scan_station_map(records) == [counted |-> Cardinality(records), stations |-> _summarize_station_records(records)]

(* The time of the entry is that of its end; whoever ends last is kept.     *)
Stores(v) ==
    LET map == _scan_station_map(viewer[v].records)
        key == _build_cache_key(viewer[v].day)
    IN  /\ viewer[v].pc = "reads" /\ viewer[v].left = {}
        /\ _station_map_cache' = [d \in DOMAIN _station_map_cache \cup {key} |->
                                    IF d = key THEN [at |-> moment, map |-> map] ELSE _station_map_cache[d]]
        /\ IsShown(v, viewer[v].from..Len(trees), map)
        /\ UNCHANGED asked

list_rinex_station_map(v) ==
    \/ LooksUp(v) \/ StartsWalk(v) \/ ListsZips(v) \/ ListsFolders(v) \/ Opens(v) \/ Stores(v)

Changes ==
    \/ \E i \in DOMAIN Paths, zip \in Zips : ArchiveIsWritten(i, zip)
    \/ \E i \in DOMAIN Tree.zips : ArchiveIsRemoved(i)
    \/ \E f \in Tree.dirs : FolderIsRemoved(f)

Next ==
    \/ Changes
    \/ Tick
    \/ \E v \in Viewers : \/ \E a \in Asked : Asks(v, a.day, a.refresh)
                          \/ list_rinex_station_map(v)

Spec == Init /\ [][Next]_vars

----------------------------------------------------------------------------
(* The trees an answer may be about: those since the request was made or,   *)
(* for one from the cache, since a scan and the time to live before it.     *)
Span(v) == {trees[n] : n \in viewer[v].span}

(* The readable archives of a station beneath the folder asked for: those   *)
(* that were there all along and told the same, and those ever there.       *)
Told(v, t) ==
    UNION {_extract_station_header_record(i, t.zips[i])
           : i \in {j \in DOMAIN t.zips : viewer[v].day \in Above(Paths[j].folder)}}
PathsOf(records, s) == {r.path : r \in {q \in records : q.station = s}}
DaysOf(records, s) == {_extract_archive_day(Paths[i].folder) : i \in PathsOf(records, s)} \ {<< >>}

(* A map shows every station whose archives stayed in the folder, counts    *)
(* them and no archive that was not there, and puts the station where more  *)
(* than half of them agree it is: a damaged upload, an archive that         *)
(* vanishes, another request's older or newer scan and a wrong position in  *)
(* a few headers change nothing of that; an archive whose reading raises    *)
(* what nobody expects leaves no map at all.  A cached map is late by a     *)
(* scan and the time to live at most, a refreshed one not at all.           *)
MapIsOfLate ==
    \A v \in Viewers : viewer[v].pc = "shown" =>
        LET shown == viewer[v].map.stations
            told == {Told(v, t) : t \in Span(v)}
            ever == UNION told
            always == {r \in ever : \A records \in told : r \in records}
        IN  /\ {r.station : r \in always} \subseteq DOMAIN shown
            /\ \A s \in DOMAIN shown :
                   /\ shown[s].count \in Cardinality(PathsOf(always, s))..Cardinality(PathsOf(ever, s))
                   /\ {shown[s].first, shown[s].last} \subseteq PathsOf(ever, s)
                   /\ DaysOf(always, s) \subseteq shown[s].days
                   /\ shown[s].days \subseteq DaysOf(ever, s)
                   /\ \A x \in {r.x : r \in always} :
                          2 * Cardinality({r \in always : r.station = s /\ r.x = x})
                              > Cardinality(PathsOf(ever, s))
                          => shown[s].twiceX = 2 * x
==============================================================================
