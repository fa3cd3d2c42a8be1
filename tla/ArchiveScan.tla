----------------------------- MODULE ArchiveScan -----------------------------
(***************************************************************************)
(* The five directory scans of the data-indexer, each a walk down           *)
(* root / year / day / site while converters, the hub and operators create  *)
(* and remove folders.  The root is listed once; each year found goes to    *)
(* one worker of a thread pool, which lists the year, then each day, then   *)
(* the site folders, and every one of these listings may find that what the *)
(* one before it named is gone.  The scans differ in what makes a site      *)
(* count and in whether a folder that is gone is skipped or ends the scan.  *)
(***************************************************************************)
EXTENDS Naturals, FiniteSets, FiniteSetsExt

CONSTANTS
    Years,          \* year folders, numbers
    DayFolders,     \* names of the folders in a year, numbers
    Months,         \* those of them that read as a month, 1..12
    Sites,          \* names of the folders or files in a day, numbers
    Kinds,          \* the scans walked: "abstec", "tecsuite", "parquet", "parquet_sat", "rinex"
    Archives0,      \* the archives a scan may start on
    Contents,       \* what a change may leave in a day folder
    MaxYears,       \* _MAX_YEARS: years scanned, 0 for all of them
    ScanWorkers,    \* threads of the pool
    MaxChanges      \* bound: changes of the archive during the scan

VARIABLES
    tree,       \* the archive: [years, days], days maps <<year, day>> to a folder
    kind,       \* which scan walks it
    work,       \* year -> its worker's state, for the years of the root listing
    listing,    \* year -> entries: what the scan returned
    phase,      \* "root", "years", "ended" or "failed"
    stayed,     \* history: what a listing of the archive would have shown all along
    seen,       \* history: what was in the archive at some time of the scan
    changes     \* history: changes so far

vars == <<tree, kind, work, listing, phase, stayed, seen, changes>>

(* A day folder: its subfolders, those of them with the files the scan      *)
(* looks for, and the files of that kind that lie in the folder itself.     *)
NoFolder == [dirs |-> {}, full |-> {}, flat |-> {}]

Opened(d, f) ==
    CASE kind \in {"abstec", "tecsuite"} -> f.dirs
      [] kind = "parquet_sat" /\ f.dirs # {} -> {Min(f.dirs)}
      [] kind = "rinex" /\ f.flat = {} /\ d \in Months -> f.dirs
      [] OTHER -> {}

(* The sites the scan lists for a day folder, given the subfolders in which *)
(* it found files.                                                          *)
Listed(d, f, found) ==
    CASE kind = "abstec" -> found
      [] kind = "tecsuite" -> IF found # {} THEN found ELSE f.flat
      [] kind = "parquet_sat" -> f.dirs
      [] kind = "rinex" -> IF f.flat # {} THEN f.flat ELSE IF d \in Months THEN f.dirs ELSE {}
      [] OTHER -> {}

Satellites(f, found) ==
    IF kind # "parquet_sat" THEN {} ELSE IF f.dirs # {} THEN found ELSE f.flat

DayIsListed(d, f, found) ==
    kind = "parquet" \/ Listed(d, f, found) # {} \/ Satellites(f, found) # {}

Newest(ys) ==
    IF MaxYears = 0 THEN ys
    ELSE {y \in ys : Cardinality({z \in ys : z > y}) < MaxYears}

(* What a listing of an archive that nobody touches would show: a site of a *)
(* day, and 0 for a day that is listed without sites.  The tecsuite scan    *)
(* names folders, or else files: there the two are not the same.            *)
Shown(t) ==
    UNION {LET f == t.days[p]
               found == f.full \cap Opened(p[2], f)
               sites == Listed(p[2], f, found)
           IN  IF ~DayIsListed(p[2], f, found) THEN {}
               ELSE [day : {p}, site : IF sites = {} THEN {0} ELSE sites, isFile : {kind = "tecsuite" /\ found = {}}]
           : p \in DOMAIN t.days}

Present(t) ==
    {<<y>> : y \in t.years} \cup DOMAIN t.days
        \cup UNION {{<<p[1], p[2], s>> : s \in t.days[p].dirs \cup t.days[p].flat} : p \in DOMAIN t.days}

Worker == [at |-> "waits", todo |-> {}, day |-> 0, folder |-> NoFolder,
           left |-> {}, found |-> {}, days |-> {}]

Init ==
    /\ tree \in Archives0
    /\ kind \in Kinds
    /\ work = [y \in {} |-> Worker]
    /\ listing = [y \in {} |-> {}]
    /\ phase = "root"
    /\ stayed = Shown(tree)
    /\ seen = Present(tree)
    /\ changes = 0

----------------------------------------------------------------------------
(* The archive changes under the scan.                                      *)

Becomes(t) ==
    /\ changes < MaxChanges
    /\ phase \in {"root", "years"}
    /\ tree' = t
    /\ stayed' = stayed \cap Shown(t)
    /\ seen' = seen \cup Present(t)
    /\ changes' = changes + 1
    /\ UNCHANGED <<kind, work, listing, phase>>

Without(ps) == [p \in DOMAIN tree.days \ ps |-> tree.days[p]]

FolderIsWritten(y, d, f) ==
    Becomes([years |-> tree.years \cup {y},
             days |-> [p \in DOMAIN tree.days \cup {<<y, d>>} |-> IF p = <<y, d>> THEN f ELSE tree.days[p]]])

DayIsRemoved(p) == p \in DOMAIN tree.days /\ Becomes([tree EXCEPT !.days = Without({p})])

YearIsRemoved(y) ==
    y \in tree.years /\ Becomes([years |-> tree.years \ {y}, days |-> Without({y} \X DayFolders)])

----------------------------------------------------------------------------
(* The scan.                                                                *)

ListsRoot ==
    /\ phase = "root"
    /\ work' = [y \in Newest(tree.years) |-> Worker]
    /\ phase' = "years"
    /\ UNCHANGED <<tree, kind, listing, stayed, seen, changes>>

Goes(y, w) ==
    /\ work' = [work EXCEPT ![y] = w]
    /\ UNCHANGED <<tree, kind, listing, phase, stayed, seen, changes>>

Busy == {y \in DOMAIN work : work[y].at \in {"days", "sites"}}

DayIsGoneStops(w, d) ==      \* mutant: a folder that is gone ends its year
    IF kind = "rinex" THEN [w EXCEPT !.at = "raised"] ELSE [w EXCEPT !.todo = {}]

(* What a worker does when the folder it lists is gone: the RINEX scan has  *)
(* no handler, so the year's future holds the exception.                    *)
YearIsGone(w) == [w EXCEPT !.at = IF kind = "rinex" THEN "raised" ELSE "none"]
DayIsGone(w, d) ==
    IF kind = "rinex" THEN [w EXCEPT !.at = "raised"] ELSE [w EXCEPT !.todo = @ \ {d}]

ListsYear(y) ==
    /\ phase = "years" /\ work[y].at = "waits"
    /\ Cardinality(Busy) < ScanWorkers
    /\ LET days == {p[2] : p \in {q \in DOMAIN tree.days : q[1] = y}}
       IN  Goes(y, IF y \notin tree.years THEN YearIsGone(work[y])
                   ELSE IF kind = "parquet"
                        THEN [work[y] EXCEPT !.at = "days",
                                !.days = {[day |-> d, sites |-> {}, satellites |-> {}] : d \in days}]
                        ELSE [work[y] EXCEPT !.at = "days", !.todo = days])

ListsDay(y, d) ==
    /\ work[y].at = "days" /\ d \in work[y].todo
    /\ IF <<y, d>> \notin DOMAIN tree.days THEN Goes(y, DayIsGone(work[y], d))
       ELSE LET f == tree.days[<<y, d>>]
            IN  Goes(y, [work[y] EXCEPT !.at = "sites", !.todo = @ \ {d}, !.day = d,
                           !.folder = f, !.left = Opened(d, f), !.found = {}])

(* A site folder is opened long after its day was listed.                   *)
OpensSite(y, s) ==
    LET w == work[y]
        now == IF <<y, w.day>> \in DOMAIN tree.days THEN tree.days[<<y, w.day>>]
               ELSE NoFolder
    IN  /\ w.at = "sites" /\ s \in w.left
        /\ Goes(y, IF kind = "rinex" /\ s \notin now.dirs THEN [w EXCEPT !.at = "raised"]
                   ELSE [w EXCEPT !.left = @ \ {s},
                           !.found = IF s \in now.full THEN @ \cup {s} ELSE @])

EndsDay(y) ==
    LET w == work[y]
        entry == [day |-> w.day, sites |-> Listed(w.day, w.folder, w.found),
                  satellites |-> Satellites(w.folder, w.found)]
    IN  /\ w.at = "sites" /\ w.left = {}
        /\ Goes(y, [w EXCEPT !.at = "days",
                      !.days = IF DayIsListed(w.day, w.folder, w.found) THEN @ \cup {entry} ELSE @])

EndsYear(y) ==
    /\ work[y].at = "days" /\ work[y].todo = {}
    /\ Goes(y, [work[y] EXCEPT !.at = IF work[y].days = {} THEN "none" ELSE "found"])

Ends ==
    /\ phase = "years"
    /\ \A y \in DOMAIN work : work[y].at \in {"found", "none", "raised"}
    /\ IF \E y \in DOMAIN work : work[y].at = "raised"
       THEN phase' = "failed" /\ UNCHANGED listing
       ELSE /\ phase' = "ended"
            /\ listing' = [y \in {z \in DOMAIN work : work[z].at = "found"} |-> work[y].days]
    /\ UNCHANGED <<tree, kind, work, stayed, seen, changes>>

Changes ==
    \/ \E y \in Years, d \in DayFolders, f \in Contents : FolderIsWritten(y, d, f)
    \/ \E p \in DOMAIN tree.days : DayIsRemoved(p)
    \/ \E y \in Years : YearIsRemoved(y)

Walks(y) ==
    \/ ListsYear(y)
    \/ \E d \in work[y].todo : ListsDay(y, d)
    \/ \E s \in work[y].left : OpensSite(y, s)
    \/ EndsDay(y)
    \/ EndsYear(y)

Next == Changes \/ ListsRoot \/ Ends \/ \E y \in DOMAIN work : Walks(y)

Spec == Init /\ [][Next]_vars

----------------------------------------------------------------------------
(* A scan that returns lists every day and site that a listing of the       *)
(* archive would have shown all through the scan, and nothing that was not  *)
(* in it at some time: a folder that vanishes under it costs its own entry  *)
(* and no other.  Years beyond the cap are owed only if they stayed among   *)
(* the newest.                                                              *)
ListsWhatStayed ==
    phase = "ended" =>
        /\ \A y \in DOMAIN listing : \A e \in listing[y] :
               {<<y, e.day>>} \cup {<<y, e.day, s>> : s \in e.sites} \subseteq seen
        /\ \A r \in stayed :
               r.day[1] \in Newest({p[1] : p \in seen}) =>
                   /\ r.day[1] \in DOMAIN listing
                   /\ \E e \in listing[r.day[1]] : e.day = r.day[2] /\ (r.site = 0 \/ r.site \in e.sites)
==============================================================================
