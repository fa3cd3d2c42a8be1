---------------------------- MODULE MapAnimation ----------------------------
(***************************************************************************)
(* One animation of the TEC map over a range of days: tec_map.py,          *)
(* _animation_request and render_animation; tec_map_parallel.py,           *)
(* load_day_summaries; tec_map_pipeline.py, day_frame_summary;             *)
(* tec_map_render.py, build_animation_gif_bytes.  Time is counted in       *)
(* ticks, a sample a tick; a frame is the set of its samples.  Who may     *)
(* render when is RenderQueue's subject.                                   *)
(***************************************************************************)
EXTENDS Integers, FiniteSets, Sequences, SequencesExt

CONSTANTS Stations, Days,     \* Days == 0..n
          DayLength, FrameLength,
          MaxFrames,          \* TEC_MAP_MAX_FRAMES_PER_REQUEST, and max_frames of the renderer
          MaxStations,
          LoadWorkers, Workers,
          Archives            \* bound: what the parquet tree may hold

VARIABLES archive,   \* by station and day: a sample's kind by its tick, or NoFolder
          range,     \* the request
          load,      \* _build_frame_summary_gif_range
          render     \* build_animation_gif_bytes

vars == <<archive, range, load, render>>

-----------------------------------------------------------------------------
Ticks == 0..((Cardinality(Days) * DayLength) - 1)
DayOf(t) == t \div DayLength
FrameOf(t) == (t \div FrameLength) * FrameLength
HasFolder(s, d) == archive[s][d].folder

NoLoad == [waiting |-> {}, flight |-> {}, ended |-> << >>, seen |-> {}]
NoRender == [frames |-> {}, drawn |-> {}, shown |-> << >>]

Init ==
    /\ archive \in Archives
    /\ range = [pc |-> "none"]
    /\ load = NoLoad /\ render = NoRender

Ends(pc, why) == range' = [range EXCEPT !.pc = pc, !.why = why]

-----------------------------------------------------------------------------
Ceil(n, k) == (n + k - 1) \div k

(* The guard rails count the frames of the duration; the renderer counts    *)
(* those of the samples, of which there can be one more.                   *)
EstimatedFrames(from, to) == Ceil(to - from, FrameLength)

_animation_request ==
    /\ range.pc = "none"
    /\ \E from, to \in Ticks, stations \in SUBSET Stations \ {{}} :
          range' = [pc |-> IF to >= from /\ Cardinality(stations) <= MaxStations
                              /\ EstimatedFrames(from, to) <= MaxFrames
                           THEN "admitted" ELSE "refused",
                    why |-> "request", from |-> from, to |-> to, stations |-> stations]
    /\ UNCHANGED <<archive, load, render>>

DaysAsked == {d \in Days : DayOf(range.from) <= d /\ d <= DayOf(range.to)}

(* Every station must have a folder on a day of the range, any day. *)
_validate_stations_for_range ==
    \A s \in range.stations : \E d \in DaysAsked : HasFolder(s, d)

RejectsStations ==
    /\ range.pc = "admitted" /\ ~_validate_stations_for_range
    /\ Ends("refused", "stations")
    /\ UNCHANGED <<archive, load, render>>

StartsLoading ==
    /\ range.pc = "admitted" /\ _validate_stations_for_range
    /\ load' = [NoLoad EXCEPT !.waiting = DaysAsked, !.ended = [d \in DaysAsked |-> "no"]]
    /\ Ends("loading", "none")
    /\ UNCHANGED <<archive, render>>

-----------------------------------------------------------------------------
(* The part of the range on day d, and the rows the shards have in it. *)
Segment(d) == {t \in Ticks : DayOf(t) = d /\ range.from <= t /\ t <= range.to}
Rows(d) == {row \in range.stations \X Segment(d) :
                HasFolder(row[1], d) /\ row[2] \in DOMAIN archive[row[1]][d].rows}
Kind(row) == archive[row[1]][DayOf(row[2])].rows[row[2]]

(* Rows below the elevation cut-off, and rows without a usable TEC value,   *)
(* are dropped.  A day without any row raises; one whose rows are all below *)
(* the cut-off is skipped; one whose rows all lack a value raises.  Where   *)
(* the file cannot be filtered while it is read, rows outside the segment   *)
(* are read and dropped like those below the cut-off.                       *)
LoadedRows(d)  == {row \in Rows(d) : Kind(row) # "low"}
LeveledRows(d) == {row \in LoadedRows(d) : Kind(row) # "void"}

HasOtherRows(d) == \E s \in range.stations : HasFolder(s, d) /\ DOMAIN archive[s][d].rows # {}

day_frame_summary(d) ==
    IF Rows(d) = {} THEN IF HasOtherRows(d) THEN {"raises", "skipped"} ELSE {"raises"}
    ELSE IF LoadedRows(d) = {} THEN {"skipped"}
    ELSE IF LeveledRows(d) = {} THEN {"raises"}
    ELSE {"summed"}

InPool == LoadWorkers > 1 /\ Cardinality(DOMAIN load.ended) > 1

(* The executor starts days in order, as many at a time as it has workers. *)
DayBegins(d) ==
    /\ range.pc = "loading"
    /\ d \in load.waiting /\ \A e \in load.waiting : d <= e
    /\ Cardinality(load.flight) < IF InPool THEN LoadWorkers ELSE 1
    /\ load' = [load EXCEPT !.waiting = @ \ {d}, !.flight = @ \cup {d}]
    /\ UNCHANGED <<archive, range, render>>

DayEnds(d) ==
    /\ d \in load.flight
    /\ \E result \in day_frame_summary(d) :
          load' = [load EXCEPT !.flight = @ \ {d}, !.ended[d] = result]
    /\ UNCHANGED <<archive, range, render>>

(* as_completed hands out what has ended, in any order; the first exception *)
(* ends the range and cancels what has not begun.                           *)
DayIsSeen(d) ==
    /\ range.pc = "loading"
    /\ d \in DOMAIN load.ended /\ load.ended[d] # "no" /\ d \notin load.seen
    /\ IF load.ended[d] = "raises"
       THEN /\ Ends("failed", "day")
            /\ load' = [load EXCEPT !.waiting = {}]
       ELSE /\ load' = [load EXCEPT !.seen = @ \cup {d}]
            /\ UNCHANGED range
    /\ UNCHANGED <<archive, render>>

Summed == {d \in load.seen : load.ended[d] = "summed"}
Summary == UNION {LeveledRows(d) : d \in Summed}

HasNoSamples ==
    /\ range.pc = "loading" /\ load.seen = DOMAIN load.ended
    /\ Summary = {}
    /\ Ends("failed", "empty")
    /\ UNCHANGED <<archive, load, render>>

-----------------------------------------------------------------------------
(* groupby("frame_time"): a frame that two days share is one group.         *)
Frames == {FrameOf(row[2]) : row \in Summary}
Content(f) == {row \in Summary : FrameOf(row[2]) = f}

IsLoaded == range.pc = "loading" /\ load.seen = DOMAIN load.ended /\ Summary # {}

RendererRefuses ==
    /\ IsLoaded /\ Cardinality(Frames) > MaxFrames
    /\ Ends("failed", "frames")
    /\ UNCHANGED <<archive, load, render>>

ComputesGrids ==
    /\ IsLoaded /\ Cardinality(Frames) <= MaxFrames
    /\ render' = [NoRender EXCEPT !.frames = {[time |-> f, rows |-> Content(f)] : f \in Frames}]
    /\ Ends("drawing", "none")
    /\ UNCHANGED <<archive, load>>

DrawsInPool == Workers > 1 /\ Cardinality(render.frames) > 1

(* Frames are drawn and encoded in the order of their times: groupby sorts, *)
(* pool.map gives what its workers drew back in the order of its arguments. *)
Left == render.frames \ ToSet(render.shown)
IsNext(f) == f \in Left /\ \A g \in Left : f.time <= g.time

(* Workers draw in any order, a single process in that of the frames. *)
_draw_frame_in_worker(f) ==
    /\ range.pc = "drawing"
    /\ f \in render.frames \ render.drawn
    /\ DrawsInPool \/ IsNext(f)
    /\ render' = [render EXCEPT !.drawn = @ \cup {f}]
    /\ UNCHANGED <<archive, range, load>>

NextFrameAny(f) == f \in render.drawn /\ f \in Left     \* mutant: frames are encoded as they are drawn
NextFrame(f) == f \in render.drawn /\ IsNext(f)

Encodes(f) ==
    /\ range.pc = "drawing" /\ NextFrame(f)
    /\ render' = [render EXCEPT !.shown = Append(@, f)]
    /\ UNCHANGED <<archive, range, load>>

(* Drawing a frame, or the encoder, raises. *)
DrawingFails ==
    /\ range.pc = "drawing" /\ Left # {}
    /\ Ends("failed", "drawing")
    /\ UNCHANGED <<archive, load, render>>

AnimationIsDone ==
    /\ range.pc = "drawing" /\ Left = {}
    /\ Ends("done", "none")
    /\ UNCHANGED <<archive, load, render>>

Next ==
    \/ _animation_request \/ RejectsStations \/ StartsLoading
    \/ \E d \in Days : DayBegins(d) \/ DayEnds(d) \/ DayIsSeen(d)
    \/ HasNoSamples \/ RendererRefuses \/ ComputesGrids
    \/ \E f \in render.frames : _draw_frame_in_worker(f) \/ Encodes(f)
    \/ DrawingFails \/ AnimationIsDone

Spec == Init /\ [][Next]_vars

-----------------------------------------------------------------------------
(* The samples that ought to be shown, read off the archive day by day. *)
Wanted == {row \in range.stations \X (range.from..range.to) :
              LET day == archive[row[1]][DayOf(row[2])]
              IN day.folder /\ row[2] \in DOMAIN day.rows /\ day.rows[row[2]] = "good"}

(* An animation is the whole range or an error, however the processes that  *)
(* load days and draw frames overtake each other: every usable sample of    *)
(* the requested stations in exactly one frame, that of its time, frames in *)
(* ascending order, none of them empty, those across midnight not twice.    *)
(* And the renderer takes back an admitted request only by a single frame.  *)
RangeIsWhole ==
    /\ range.pc = "done" =>
          /\ UNION {f.rows : f \in ToSet(render.shown)} = Wanted
          /\ \A i \in DOMAIN render.shown :
                LET f == render.shown[i]
                IN /\ f.rows # {}
                   /\ \A row \in f.rows : FrameOf(row[2]) = f.time
                   /\ i > 1 => render.shown[i - 1].time < f.time
    /\ range.pc = "failed" /\ range.why = "frames" => Cardinality(Frames) = MaxFrames + 1
=============================================================================
