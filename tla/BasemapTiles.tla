----------------------------- MODULE BasemapTiles ----------------------------
(***************************************************************************)
(* The map under an animation or a frame: load_basemap_layer takes the      *)
(* finest zoom whose tile grid is small enough and falls back to coarser    *)
(* ones while a tile cannot be had.  The tiles of a zoom are fetched by a   *)
(* pool of threads; in the openstreetmap mode they are kept in a cache on   *)
(* disk that every map being drawn shares, with no lock: a thread looks     *)
(* whether the file is there, asks the server if not, and writes the file,  *)
(* which is cut to nothing before it is filled, and decoded only after.     *)
(* What does not decode stays behind: a file whose writing was cut short by *)
(* an error or by the death of the process, and an answer that was no       *)
(* image.                                                                   *)
(***************************************************************************)
EXTENDS Naturals, FiniteSets, FiniteSetsExt

CONSTANTS
    Maps,               \* maps being drawn at the same time
    TilesAt,            \* zoom -> the tiles that cover the maps' area
    MaxTiles,           \* basemap_max_tiles
    MapModes,           \* the basemap modes in use
    Preferred,          \* the values of basemap_zoom in use, 0 when it is not set
    MaxCrashes          \* bound: how often the process dies

VARIABLES
    disk,       \* the cache: <<zoom, tile>> -> "none", "torn" or "whole"
    sheet,      \* map -> the state of its load_basemap_layer
    spoiled,    \* history: the tiles on disk that an error, a bad answer or a crash left as they are
    crashes     \* history: crashes so far

basemapVars == <<disk, sheet, spoiled, crashes>>

Zooms == DOMAIN TilesAt
Coarsest == 2       \* range(preferred_zoom, 1, -1)

Tiles == UNION {{<<z, t>> : t \in TilesAt[z]} : z \in Zooms}

(* 3 when no zoom from 12 down to 3 fits, even though 3 then does not.      *)
choose_tile_zoom ==
    LET fits == {z \in Zooms : z > Coarsest /\ Cardinality(TilesAt[z]) \in 1..MaxTiles}
    IN  IF fits = {} THEN 3 ELSE Max(fits)

Refused(z) == Cardinality(TilesAt[z]) \notin 1..MaxTiles

(* A tile of the zoom being tried: "asks", "fetches", "fetched" or "junk"   *)
(* (bytes are here, an image or not), "writes" or "writesJunk", and then    *)
(* "got" or "failed".                                                       *)
Blank == [mode |-> "off", at |-> "idle", zoom |-> 0, tile |-> [t \in {} |-> "asks"]]

BasemapInit ==
    /\ disk = [t \in Tiles |-> "none"]
    /\ sheet = [m \in Maps |-> Blank]
    /\ spoiled = {}
    /\ crashes = 0

----------------------------------------------------------------------------

Becomes(m, s) == sheet' = [sheet EXCEPT ![m] = s] /\ UNCHANGED crashes
TileIs(m, t, state) == Becomes(m, [sheet[m] EXCEPT !.tile[t] = state])

(* Tries a zoom: a grid that is refused fails it before any tile is asked.  *)
Tries(s, z) ==
    [s EXCEPT !.at = "loads", !.zoom = z,
              !.tile = [t \in TilesAt[z] |-> IF Refused(z) THEN "failed" ELSE "asks"]]

(* What is left of a map that has its layer or is drawn plain.              *)
Ended(at) == [Blank EXCEPT !.at = at]

(* A zoom that is set and below the coarsest leaves none to try.            *)
BeginsMap(m, mode, zoom) ==
    LET s == [Blank EXCEPT !.mode = mode]
    IN  /\ sheet[m].at \in {"idle", "layer", "plain"}
        /\ Becomes(m, IF zoom = 0 THEN Tries(s, choose_tile_zoom)
                      ELSE IF zoom < Coarsest THEN Ended("plain")
                      ELSE Tries(s, zoom))
        /\ UNCHANGED <<disk, spoiled>>

Opened(z, t) == IF disk[<<z, t>>] = "whole" THEN "got" ELSE "failed"

AsksCache(m, t) ==
    LET s == sheet[m]
        isThere == disk[<<s.zoom, t>>] # "none"
    IN  /\ s.at = "loads" /\ s.tile[t] = "asks"
        /\ TileIs(m, t, CASE s.mode = "tile_server" -> "fetches"
                          [] s.mode = "cache_only" -> Opened(s.zoom, t)
                          [] OTHER -> IF isThere THEN Opened(s.zoom, t) ELSE "fetches")
        /\ UNCHANGED <<disk, spoiled>>

(* The server's answer: none, an image, or something that is none.  That of *)
(* a tile server is decoded at once, one of openstreetmap is stored first.  *)
Fetches(m, t) ==
    /\ sheet[m].at = "loads" /\ sheet[m].tile[t] = "fetches"
    /\ IF sheet[m].mode = "tile_server"
       THEN \E state \in {"failed", "got"} : TileIs(m, t, state)
       ELSE \E state \in {"failed", "fetched", "junk"} : TileIs(m, t, state)
    /\ UNCHANGED <<disk, spoiled>>

(* write_bytes, in two steps: the file is cut, then filled.                 *)
CutsFile(m, t) ==
    /\ sheet[m].at = "loads" /\ sheet[m].tile[t] \in {"fetched", "junk"}
    /\ TileIs(m, t, IF sheet[m].tile[t] = "junk" THEN "writesJunk" ELSE "writes")
    /\ disk' = [disk EXCEPT ![<<sheet[m].zoom, t>>] = "torn"]
    /\ UNCHANGED spoiled

(* The bytes are decoded only now, and what is no image stays in the file.  *)
FillsFile(m, t) ==
    LET p == <<sheet[m].zoom, t>>
    IN  /\ sheet[m].at = "loads"
        /\ \/ /\ sheet[m].tile[t] = "writes"
              /\ TileIs(m, t, "got")
              /\ disk' = [disk EXCEPT ![p] = "whole"] /\ spoiled' = spoiled \ {p}
           \/ /\ sheet[m].tile[t] = "writesJunk"
              /\ TileIs(m, t, "failed")
              /\ disk' = [disk EXCEPT ![p] = "torn"] /\ spoiled' = spoiled \cup {p}

(* An error of the disk: the tile's folder or its file cannot be made, or   *)
(* write_bytes raises after the cut and leaves the file as far as it got.   *)
WriteFails(m, t) ==
    LET p == <<sheet[m].zoom, t>>
    IN  /\ sheet[m].at = "loads" /\ sheet[m].mode = "openstreetmap"
        /\ sheet[m].tile[t] \in {"asks", "fetched", "junk", "writes", "writesJunk"}
        /\ TileIs(m, t, "failed")
        /\ UNCHANGED disk
        /\ spoiled' = IF sheet[m].tile[t] \in {"writes", "writesJunk"} THEN spoiled \cup {p} ELSE spoiled

TilesAreInFailing(s) ==      \* mutant: the first failure ends the wait
    s.at = "loads" /\ \/ \A t \in DOMAIN s.tile : s.tile[t] \in {"got", "failed"}
                      \/ \E t \in DOMAIN s.tile : s.tile[t] = "failed"

(* The pool is left only when every tile's thread has ended, also those     *)
(* still running when the first one failed.                                 *)
TilesAreIn(s) == s.at = "loads" /\ \A t \in DOMAIN s.tile : s.tile[t] \in {"got", "failed"}

Stitches(m) ==
    /\ TilesAreIn(sheet[m])
    /\ \A t \in DOMAIN sheet[m].tile : sheet[m].tile[t] = "got"
    /\ Becomes(m, Ended("layer"))
    /\ UNCHANGED <<disk, spoiled>>

FallsBack(m) ==
    LET s == sheet[m]
    IN  /\ TilesAreIn(s)
        /\ \E t \in DOMAIN s.tile : s.tile[t] = "failed"
        \* Below zoom 2 the map is drawn plain, or refused when the fallback is off.
        /\ Becomes(m, IF s.zoom > Coarsest THEN Tries(s, s.zoom - 1) ELSE Ended("plain"))
        /\ UNCHANGED <<disk, spoiled>>

(* Map m has cut the file of tile p and has not filled it yet.              *)
Writes(m, p) ==
    /\ sheet[m].at = "loads" /\ sheet[m].zoom = p[1]
    /\ p[2] \in DOMAIN sheet[m].tile /\ sheet[m].tile[p[2]] \in {"writes", "writesJunk"}

(* The hub dies and starts again with nothing but the disk.                 *)
Crash ==
    /\ crashes < MaxCrashes
    /\ crashes' = crashes + 1
    /\ spoiled' = spoiled \cup {p \in Tiles : \E m \in Maps : Writes(m, p)}
    /\ sheet' = [m \in Maps |-> Blank]
    /\ UNCHANGED disk

Loads(m) ==
    \/ \E mode \in MapModes, zoom \in Preferred : BeginsMap(m, mode, zoom)
    \/ \E t \in DOMAIN sheet[m].tile :
          AsksCache(m, t) \/ Fetches(m, t) \/ CutsFile(m, t) \/ FillsFile(m, t) \/ WriteFails(m, t)
    \/ Stitches(m)
    \/ FallsBack(m)

BasemapNext == Crash \/ \E m \in Maps : Loads(m)

BasemapSpec == BasemapInit /\ [][BasemapNext]_basemapVars

----------------------------------------------------------------------------
(* A cached tile that does not decode costs every later map its zoom, for   *)
(* nothing fetches it again.  One is on disk only while a thread is writing *)
(* it, or after a write of this very tile that failed, brought no image or  *)
(* was cut short by a crash, and after which no other succeeded: two maps   *)
(* that fetch the same tile at once, a server that fails, and a zoom that   *)
(* is given up while its other tiles are still under way leave none behind. *)
TornTileHasACause ==
    \A p \in Tiles : disk[p] = "torn" => p \in spoiled \/ \E m \in Maps : Writes(m, p)
==============================================================================
