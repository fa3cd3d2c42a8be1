-------------------------------- MODULE MCHub --------------------------------
(***************************************************************************)
(* The parts of the hub, and of the indexer beside it, that share no state  *)
(* with each other, checked in one run: a behaviour is one part's, the      *)
(* others stay as they begin.  Each part keeps the interleavings of its own *)
(* actors.                                                                  *)
(***************************************************************************)
EXTENDS Integers, Sequences, FiniteSets, TLC, Accounts, ContainerJobs, BasemapTiles

CONSTANTS s1, s2, p1, p2, x, r1, r2, q1, q2     \* model values

-----------------------------------------------------------------------------
(* LoginLimiter *)
CONSTANTS LOGIN_RATE_LIMIT_ENABLED, Keys, MaxAttempts, Window, MaxBuckets, LastTick
VARIABLES buckets, now, guesses

(* LOGIN_RATE_LIMIT_WINDOW_SEC is read with int(): a number of seconds.     *)
ASSUME LimiterAssumption == Window \in Int

Limiter == INSTANCE LoginLimiter

-----------------------------------------------------------------------------
(* JobForms, AbstecRemoval, and the requests of ContainerJobs *)
CONSTANTS Configs, Answers, Edited
CONSTANTS Folders, Removers, MaxVersion
VARIABLES env, conv, form, run
VARIABLES folder, readonly, trash, remover, late

(* Two starts and a page, a start and two pages, and a container of before  *)
(* the hub's start with two pages or with a start and a page.               *)
MCCasts ==
    {[starts |-> {s1, s2}, pages |-> {p1}, strays |-> {}],
     [starts |-> {s1}, pages |-> {p1, p2}, strays |-> {}],
     [starts |-> {}, pages |-> {p1, p2}, strays |-> {x}],
     [starts |-> {s1}, pages |-> {p1}, strays |-> {x}]}

(* Every root in its own host folder, or one of them in another's or unset. *)
OwnFolders == [rinex |-> "/rinex", dat |-> "/dat", abstec |-> "/abs", parquet |-> "/pq",
               abstecParquet |-> "/abspq", dockur |-> "/jobs"]
MCConfigs ==
    {[OwnFolders EXCEPT ![k] = v] : k \in DOMAIN OwnFolders,
                                    v \in {OwnFolders[r] : r \in DOMAIN OwnFolders} \cup {""}}
MCAnswers == {"", "on", "yes", "007", "7", "367", "/2026/007", "dockur", "abstec", "parquet-to-dat"}
MCEdited ==
    [tec |-> {{"root_subpath", k} : k \in {"jobs", "days", "verbose", "cleanup", "root"}},
     parquet |-> {{"direction", "dataset_profile", "root_subpath"}, {"day_from", "day_to"}, {"dst", "overwrite"}},
     abstec |-> {{"runner", k} : k \in {"year", "jobs", "dry_run", "max_consecutive_failures", "output_dir"}}]

MCFolders == {[kind |-> "dat", day |-> 1], [kind |-> "parquet", day |-> 1]}

Forms == INSTANCE JobForms
Removal == INSTANCE AbstecRemoval

-----------------------------------------------------------------------------
(* MapAnimation, and the tiles of BasemapTiles *)
CONSTANTS Stations, Days, DayLength, FrameLength, MaxFrames, MaxStations, LoadWorkers, Workers, Archives
VARIABLES archive, range, load, render

(* One station's days are anything: no folder, every tick good, or only the *)
(* last one, below the cut-off, without a value or good.  The other's are   *)
(* fixed.                                                                   *)
NoFolder == [folder |-> FALSE, rows |-> << >>]
Whole(d, k) == [folder |-> TRUE, rows |-> [t \in (d * DayLength)..((d + 1) * DayLength - 1) |-> k]]
Late(d, k) == [folder |-> TRUE, rows |-> [t \in {(d + 1) * DayLength - 1} |-> k]]
DayKinds(d) == {NoFolder, Whole(d, "good"), Late(d, "low"), Late(d, "void"), Late(d, "good")}
OtherDays == [d \in Days |-> CASE d = 0 -> NoFolder [] d = 1 -> Whole(1, "good") [] OTHER -> Late(2, "low")]
MCArchives ==
    {[s \in Stations |-> IF s = "aksu" THEN [d \in Days |-> own[d + 1]] ELSE OtherDays] :
        own \in {<<a, b, c>> : a \in DayKinds(0), b \in DayKinds(1), c \in DayKinds(2)}}

(* At zoom 4 the area takes more tiles than are allowed.                    *)
MCTilesAt == [z \in 2..4 |-> 1..(z - 1)]

(* The days of the archive follow one another, lengths are those of a day   *)
(* and of a frame in samples, and a sample is below the elevation cut-off,  *)
(* without a value, or usable.                                              *)
ASSUME AnimationAssumption ==
    /\ Cardinality(Days) \in Nat /\ Days = 0..(Cardinality(Days) - 1)
    /\ DayLength \in Nat \ {0} /\ FrameLength \in Nat \ {0} /\ MaxFrames \in Nat
    /\ \A a \in Archives, s \in Stations, d \in Days : \A t \in DOMAIN a[s][d].rows :
          a[s][d].rows[t] \in {"low", "void", "good"}

Animation == INSTANCE MapAnimation

-----------------------------------------------------------------------------
(* IndexerClient, ArchiveScan *)
CONSTANTS Requests, Endpoints, IndexedTrees, Documents, Ttl, Timeout, EndOfTime
CONSTANTS Years, DayFolders, Months, Sites, Kinds, Archives0, Contents, MaxYears, ScanWorkers, MaxChanges
VARIABLES truth, until, clock, _cache, asks
VARIABLES tree, kind, work, listing, phase, stayed, seen, changes

(* Two trees that differ; years, days and names without a name of their own *)
(* among them.                                                              *)
MCDocuments ==
    << {[year |-> "2026", days |-> {[day |-> "001", names |-> {"aksu", ""}], [day |-> "", names |-> {"x"}]}]},
       {[year |-> "", days |-> {[day |-> "001", names |-> {}]}],
        [year |-> "2026", days |-> {[day |-> "002", names |-> {"cher"}]}]} >>

Inside(dirs, full, flat) == [dirs |-> dirs, full |-> full, flat |-> flat]
MCArchives0 ==      \* the newest year without a day
    {[years |-> {2023, 2024, 2025},
      days |-> (<<2023, 1>> :> Inside({1, 2}, {1, 2}, {})) @@ (<<2024, 1>> :> Inside({1, 2}, {1, 2}, {}))
               @@ (<<2024, 40>> :> Inside({1}, {}, {2}))]}
MCContents == {Inside({1, 2}, {2}, {}), Inside({}, {}, {1})}

MCIndexedTrees == <<"tecsuite">>

(* The page's trees are known ones, the times of DATA_INDEXER_TIMEOUT_SEC   *)
(* and DATA_INDEXER_CLIENT_CACHE_TTL_SEC lengths of time.                   *)
ASSUME ClientAssumption ==
    /\ Ttl \in Nat /\ Timeout \in Nat /\ EndOfTime \in Nat
    /\ IndexedTrees \in Seq(Endpoints)
    /\ Documents # << >> /\ Documents \in Seq({Documents[i] : i \in DOMAIN Documents})

(* There are finitely many folders.  A day's is in its year's, and a        *)
(* subfolder with files of the scan's kind is a subfolder.                  *)
FolderOk(f) == f.full \subseteq f.dirs
ASSUME ScanAssumption ==
    /\ IsFiniteSet(Years) /\ MaxYears \in Nat
    /\ \A f \in Contents : FolderOk(f)
    /\ \A a \in Archives0 :
          /\ DOMAIN a = {"years", "days"} /\ a.years \subseteq Years
          /\ DOMAIN a.days \subseteq Years \X DayFolders
          /\ \A p \in DOMAIN a.days : p[1] \in a.years /\ FolderOk(a.days[p])
    /\ Kinds \subseteq {"abstec", "tecsuite", "parquet", "parquet_sat", "rinex"}

Client == INSTANCE IndexerClient
Scan == INSTANCE ArchiveScan

-----------------------------------------------------------------------------
(* StationMap *)
CONSTANTS Viewers, Paths, Zips, Trees0, TwoDigits, ThreeDigits, Asked, MapTtl, Slowest
CONSTANTS MaxEdits, LastMoment, MaxAsked
VARIABLES trees, moment, _station_map_cache, viewer, asked

(* Three archives of a month, one of them not in a day's folder.  Two agree *)
(* where station 1 is; one of these is damaged behind its header and has a  *)
(* member without a position before it.                                     *)
MCPaths == <<[folder |-> <<"01", "02">>, stem |-> 1], [folder |-> <<"01", "02">>, stem |-> 0],
             [folder |-> <<"01">>, stem |-> 0]>>
Obs(file, marker, x_m) == [kind |-> "obs", file |-> file, marker |-> marker, x |-> x_m]
Torn == [kind |-> "torn", file |-> 0, marker |-> 0, x |-> 0]
MCZips == {<<Torn>>, <<[Torn EXCEPT !.kind = "fatal"]>>}
MCTrees0 ==
    {[at |-> 0, dirs |-> {<< >>, <<"01">>, <<"01", "02">>},
      zips |-> (1 :> <<Obs(0, 2, 10)>>) @@ (2 :> <<Obs(1, 2, 0), Obs(1, 1, 10), Torn>>)
               @@ (3 :> <<Obs(0, 1, -30)>>)]}
MCAsked ==
    {[day |-> <<"01">>, refresh |-> FALSE], [day |-> <<"01">>, refresh |-> TRUE],
     [day |-> <<"01", "02">>, refresh |-> FALSE], [day |-> <<"1">>, refresh |-> FALSE]}

(* Folders and archives are sequences, of names and of members; a tree has  *)
(* finitely many folders, those of its archives among them.  The times of   *)
(* _CACHE_TTL_SEC and of a scan are lengths of time.                        *)
IsList(s) == s \in Seq({s[n] : n \in DOMAIN s})
IsZip(zip) == IsList(zip) /\ \A n \in DOMAIN zip : zip[n].x \in Int
ASSUME PositionsAssumption ==
    /\ MapTtl \in Nat /\ Slowest \in Nat
    /\ IsList(Paths) /\ \A i \in DOMAIN Paths : IsList(Paths[i].folder)
    /\ \A zip \in Zips : IsZip(zip)
    /\ \A t \in Trees0 :
          /\ t.at \in Int /\ t.at <= 0
          /\ IsFiniteSet(t.dirs) /\ \A g \in t.dirs : IsList(g)
          /\ DOMAIN t.zips \subseteq DOMAIN Paths
          /\ \A i \in DOMAIN t.zips :
                IsZip(t.zips[i]) /\ {SubSeq(Paths[i].folder, 1, n) : n \in 0..Len(Paths[i].folder)} \subseteq t.dirs

Positions == INSTANCE StationMap

-----------------------------------------------------------------------------
VARIABLE part       \* whose behaviour this is

OfLimiter == <<buckets, now, guesses>>
OfForms == <<env, conv, form, run>>
OfRemoval == <<folder, readonly, trash, remover, late>>
OfAnimation == <<archive, range, load, render>>
OfClient == <<truth, until, clock, _cache, asks>>
OfScan == <<tree, kind, work, listing, phase, stayed, seen, changes>>
OfPositions == <<trees, moment, _station_map_cache, viewer, asked>>

Parts == {"limiter", "people", "containers", "forms", "removal", "animation", "basemap", "client", "scan",
          "positions"}

Init ==
    /\ part \in Parts
    /\ Limiter!Init /\ AccountsInit /\ ContainersInit /\ Removal!Init /\ BasemapInit /\ Client!Init
    /\ Positions!Init
    /\ Forms!Init /\ (part # "forms" => env = CHOOSE e \in Configs : TRUE)
    /\ Animation!Init /\ (part # "animation" => archive = CHOOSE a \in Archives : TRUE)
    /\ Scan!Init /\ (part # "scan" => kind = CHOOSE k \in Kinds : TRUE)

Next ==
    /\ UNCHANGED part
    /\ \/ part = "limiter" /\ Limiter!Next
       \/ part # "limiter" /\ UNCHANGED OfLimiter
    /\ \/ part = "people" /\ AccountsNext
       \/ part # "people" /\ UNCHANGED accountsVars
    /\ \/ part = "containers" /\ ContainersNext
       \/ part # "containers" /\ UNCHANGED containersVars
    /\ \/ part = "forms" /\ Forms!Next
       \/ part # "forms" /\ UNCHANGED OfForms
    /\ \/ part = "removal" /\ Removal!Next
       \/ part # "removal" /\ UNCHANGED OfRemoval
    /\ \/ part = "animation" /\ Animation!Next
       \/ part # "animation" /\ UNCHANGED OfAnimation
    /\ \/ part = "basemap" /\ BasemapNext
       \/ part # "basemap" /\ UNCHANGED basemapVars
    /\ \/ part = "client" /\ Client!Next
       \/ part # "client" /\ UNCHANGED OfClient
    /\ \/ part = "scan" /\ Scan!Next
       \/ part # "scan" /\ UNCHANGED OfScan
    /\ \/ part = "positions" /\ Positions!Next
       \/ part # "positions" /\ UNCHANGED OfPositions

Spec == Init /\ [][Next]_<<part, OfLimiter, accountsVars, containersVars, OfForms, OfRemoval, OfAnimation,
                          basemapVars, OfClient, OfScan, OfPositions>>

-----------------------------------------------------------------------------
(* A login is refused exactly when the key has used up its wrong passwords  *)
(* of the window (LoginLimiter).                                            *)
LockIsExact == Limiter!LockIsExact

(* Every path in a built command leads through its mounts to the folder the *)
(* settings name (JobForms).                                                *)
MountsHold == Forms!MountsHold

(* The flags stored with a job are the command (JobForms).                  *)
StoredIsRun == Forms!StoredIsRun

(* A removal of AbsTEC results is all that was confirmed or nothing         *)
(* (AbstecRemoval).                                                         *)
RemovesAllOrNothing == Removal!RemovesAllOrNothing

(* An animation is the whole range in order, or an error (MapAnimation).    *)
RangeIsWhole == Animation!RangeIsWhole

(* What a page shows as the indexer's answer was true not long ago          *)
(* (IndexerClient).                                                         *)
ShownWasTrueLately == Client!ShownWasTrueLately

(* A scan lists what stayed in the archive all through it, and nothing that *)
(* never was in it (ArchiveScan).                                           *)
ListsWhatStayed == Scan!ListsWhatStayed

(* A map of stations counts the archives that stayed, places a station      *)
(* where most of them do, and is late by a bounded time (StationMap).       *)
MapIsOfLate == Positions!MapIsOfLate
==============================================================================
