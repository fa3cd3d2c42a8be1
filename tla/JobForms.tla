------------------------------ MODULE JobForms ------------------------------
(***************************************************************************)
(* A run form becomes a command and its mounts: registry.py (CONVERTERS,   *)
(* build_command), converters.py (prepare_form) and the first half of      *)
(* jobs.py, start_job.  Values are strings, as str() has them.  A command  *)
(* is the words of its flags, one flag after the other, and what is fixed  *)
(* behind them.  The dockur machine and the container itself are           *)
(* ContainerJobs' subject.                                                 *)
(***************************************************************************)
EXTENDS Naturals, Sequences, FiniteSetsExt, TLC

CONSTANTS Configs,   \* what .env says: a host folder per data root, "" if not set
          Answers,   \* bound: what is filled into a field, besides leaving it out
          Edited     \* bound: sets of fields that are filled in together

VARIABLES env, conv, form, run    \* the settings, the converter, form_dict, the outcome

vars == <<env, conv, form, run>>

-----------------------------------------------------------------------------
(***************************************************************************)
(* registry.py, CONVERTERS: the flags by converter, in the order of the    *)
(* command.                                                                *)
(***************************************************************************)
Field(key, type, default) == [key |-> key, type |-> type, default |-> default, volume |-> ""]
Volume(key, path)         == [key |-> key, type |-> "text", default |-> "", volume |-> path]

TecSuite == <<
    Volume("root", "/data/rinex"), Field("jobs", "number", "1"), Field("days", "text", ""),
    Field("verbose", "checkbox", "False"), Field("cleanup", "checkbox", "True")>>

DatParquet == <<
    Field("direction", "select", "dat-to-parquet"), Volume("src", "/input"), Volume("dst", "/output"),
    Field("overwrite", "checkbox", "False"), Field("day_from", "number", ""), Field("day_to", "number", "")>>

AbstecInput == <<
    Volume("dat_path", "/data/in"), Volume("output_dir", "/data/out"),
    Field("workdir", "text", "/data/workdir"), Field("year", "text", ""), Field("day_of_year", "text", ""),
    Field("days", "text", ""), Field("site", "text", ""), Field("elevation_cutoff", "number", "10"),
    Field("time_step_hours", "text", "0.5"), Field("correction_coefficient", "text", "0.97")>>

AbstecExecution == <<
    Field("runner", "select", "auto"), Field("execution_timeout_seconds", "number", ""),
    Field("jobs", "number", "1"), Field("skip_existing", "checkbox", "False"),
    Field("clean_input", "checkbox", "False"), Field("max_consecutive_failures", "number", "25"),
    Field("min_data_rows", "number", "0"), Field("dry_run", "checkbox", "False")>>

Flags == [tec |-> TecSuite, parquet |-> DatParquet, abstec |-> AbstecInput \o AbstecExecution]

-----------------------------------------------------------------------------
Get(dict, key, default) == IF key \in DOMAIN dict THEN dict[key] ELSE default
Updated(dict, new)      == [k \in DOMAIN dict \cup DOMAIN new |-> IF k \in DOMAIN new THEN new[k] ELSE dict[k]]
Set(dict, key, value)   == Updated(dict, [k \in {key} |-> value])

Numbers == "0" :> 0 @@ "1" :> 1 @@ "7" :> 7 @@ "007" :> 7 @@ "10" :> 10 @@ "25" :> 25 @@ "366" :> 366 @@ "367" :> 367
AsInt(text) == IF text = "007" THEN "7" ELSE text       \* str(int(text))
IsInt(text) == text \in {"0", "1", "7", "007", "10", "25", "366", "367"}

is_truthy_checkbox(value) == value \in {"on", "1", "yes", "True"}

Join(base, suffix) == IF suffix = "" THEN base ELSE base \o suffix

Init ==
    /\ env \in Configs
    /\ conv = "none" /\ form = << >> /\ run = [pc |-> "none"]

(* The browser posts a form; what is not filled in is not in it. *)
Posts ==
    /\ run.pc = "none"
    /\ conv' \in DOMAIN Flags
    /\ \E keys \in Edited[conv'] : form' \in [keys -> Answers]
    /\ run' = [pc |-> "posted"]
    /\ UNCHANGED env

Refused(why) == run' = [pc |-> "refused", why |-> why] /\ UNCHANGED form

-----------------------------------------------------------------------------
(* The folder picked is one of the converter's layout; any other text is not. *)
IsFolder(suffix) == suffix = "/2026/007"
Subpath == Get(form, "root_subpath", "")

_prepare_tec_suite ==
    /\ conv = "tec"
    /\ IF env.rinex = "" THEN Refused("not configured")
       ELSE IF ~IsFolder(Subpath) THEN Refused("folder")
       ELSE form' = Set(form, "root", env.rinex) /\ run' = [pc |-> "prepared"]

_prepare_abstec ==
    /\ conv = "abstec"
    /\ IF env.dat = "" THEN Refused("not configured")
       ELSE /\ form' = Set(Set(form, "dat_path", env.dat), "output_dir", env.abstec)
            /\ run' = [pc |-> "prepared"]

dat_parquet_profiles(direction) ==
    IF direction = "parquet-to-dat"
    THEN [tecsuite |-> [src |-> env.parquet, dst |-> env.dat],
          abstec   |-> [src |-> env.abstecParquet, dst |-> env.abstec]]
    ELSE [tecsuite |-> [src |-> env.dat, dst |-> env.parquet],
          abstec   |-> [src |-> env.abstec, dst |-> env.abstecParquet]]

OrDefault(value, default) == IF value = "" THEN default ELSE value
Direction == OrDefault(Get(form, "direction", ""), "dat-to-parquet")
Profile   == OrDefault(Get(form, "dataset_profile", ""), "tecsuite")

_parse_day(key) == Get(form, key, "")
IsDay(text) == text = "" \/ (IsInt(text) /\ Numbers[text] \in 1..366)

InDayOrder ==
    LET from == _parse_day("day_from")
        to   == _parse_day("day_to")
    IN from # "" /\ to # "" => Numbers[from] <= Numbers[to]

WithDay(dict, key) == IF _parse_day(key) = "" THEN dict ELSE Set(dict, key, AsInt(_parse_day(key)))

_prepare_dat_parquet ==
    /\ conv = "parquet"
    /\ LET profiles == dat_parquet_profiles(Direction)
           p == profiles[Profile]
       IN IF Profile \notin DOMAIN profiles THEN Refused("profile")
          ELSE IF p.src = "" \/ p.dst = "" THEN Refused("not configured")
          ELSE IF ~IsDay(_parse_day("day_from")) \/ ~IsDay(_parse_day("day_to")) THEN Refused("day")
          ELSE IF ~InDayOrder THEN Refused("day")
          ELSE IF Subpath # "" /\ ~IsFolder(Subpath) THEN Refused("folder")
          ELSE /\ form' = Updated(WithDay(WithDay(form, "day_from"), "day_to"),
                                  [src |-> Join(p.src, Subpath), dst |-> p.dst, dst_subpath |-> Subpath,
                                   dst_effective |-> Join(p.dst, Subpath),
                                   dataset_profile |-> Profile, root_subpath |-> Subpath])
               /\ run' = [pc |-> "prepared"]

prepare_form ==
    /\ run.pc = "posted"
    /\ _prepare_tec_suite \/ _prepare_abstec \/ _prepare_dat_parquet
    /\ UNCHANGED <<env, conv>>

-----------------------------------------------------------------------------
(* What is stored of a field; one left out reads as None.                  *)
ResolvedLate(flag) ==            \* mutant: the command alone has the defaults of numbers
    LET value == Get(form, flag.key, "")
    IN CASE flag.type = "checkbox" -> IF is_truthy_checkbox(value) THEN "True" ELSE "False"
         [] flag.type = "number"   -> IF IsInt(value) THEN AsInt(value) ELSE value
         [] OTHER                  -> Get(form, flag.key, flag.default)

Resolved(flag) ==
    LET value == Get(form, flag.key, "")
    IN CASE flag.type = "checkbox" -> IF is_truthy_checkbox(value) THEN "True" ELSE "False"
         [] flag.type = "number"   -> IF value = "" THEN flag.default ELSE IF IsInt(value) THEN AsInt(value) ELSE value
         [] OTHER                  -> Get(form, flag.key, flag.default)

(* A flag left out of a form is unchecked, whatever the registry's default. *)
_apply_converter_flag_defaults ==
    /\ run.pc = "prepared"
    /\ form' = LET flags == {Flags[conv][i] : i \in DOMAIN Flags[conv]}
                   FlagOf(key) == CHOOSE flag \in flags : flag.key = key
               IN Updated(form, [key \in {flag.key : flag \in flags} |-> Resolved(FlagOf(key))])
    /\ run' = [pc |-> "stored"]
    /\ UNCHANGED <<env, conv>>

-----------------------------------------------------------------------------
(***************************************************************************)
(* build_command: one flag after the other.  A host folder is bound once;  *)
(* a second flag on it is pointed at the first one's mount.                *)
(***************************************************************************)
Value(i) == LET flag == Flags[conv][i] IN Get(form, flag.key, flag.default)

(* The flags that bind their folder, and the first of them on a host folder. *)
Binding     == {i \in DOMAIN Flags[conv] : Flags[conv][i].volume # "" /\ Value(i) # ""}
First(host) == Min({i \in Binding : Value(i) = host})

MountPointOwn(i) == Flags[conv][i].volume      \* mutant: every flag has its own container path

MountPoint(i) == Flags[conv][First(Value(i))].volume

Volumes == [host \in {Value(i) : i \in Binding} |-> MountPoint(First(host))]

ContainerPath(path, key) ==
    IF conv = "tec" /\ key = "root" THEN Join(path, Get(form, "root_subpath", ""))
    ELSE IF conv = "parquet" /\ key = "dst" THEN Join(path, Get(form, "dst_subpath", ""))
    ELSE path

Words(i) ==
    LET flag == Flags[conv][i]
        number == OrDefault(Value(i), flag.default)
    IN CASE flag.volume # "" ->
              IF Value(i) = "" THEN << >> ELSE <<flag.key, ContainerPath(MountPoint(i), flag.key)>>
         [] flag.type = "checkbox" -> IF Value(i) = "True" THEN <<flag.key>> ELSE << >>
         [] flag.type = "number" -> IF number = "" THEN << >> ELSE <<flag.key, AsInt(number)>>
         [] OTHER -> IF Value(i) = "" THEN << >> ELSE <<flag.key, Value(i)>>

UsesDockur == conv = "abstec" /\ Get(form, "runner", "") = "dockur"

(* The jobs folder of the machine, and the output root of TEC-Suite, take  *)
(* the place of a mount of the same folder.                                *)
FixedVolumes ==
    IF conv = "tec" /\ env.dat # "" THEN [host \in {env.dat} |-> "/app/out"]
    ELSE IF UsesDockur THEN [host \in {env.dockur} |-> "/data/jobs"]
    ELSE << >>

Built ==
    [pc |-> "built", cmd |-> [i \in DOMAIN Flags[conv] |-> Words(i)],
     fixed |-> IF UsesDockur THEN <<"dockur_jobs_dir", "/data/jobs">> ELSE << >>,
     volumes |-> Updated(Volumes, FixedVolumes)]

(* int() raises on what is no number. *)
CannotBuild ==
    \/ \E i \in DOMAIN Flags[conv] :
          LET number == OrDefault(Value(i), Flags[conv][i].default)
          IN Flags[conv][i].type = "number" /\ number # "" /\ ~IsInt(number)
    \/ UsesDockur /\ env.dockur = ""

build_command ==
    /\ run.pc = "stored"
    /\ UNCHANGED <<env, conv>>
    /\ IF CannotBuild THEN Refused("command") ELSE run' = Built /\ UNCHANGED form

Next == Posts \/ prepare_form \/ _apply_converter_flag_defaults \/ build_command

Spec == Init /\ [][Next]_vars

-----------------------------------------------------------------------------
(* The folder each path of the command stands for, read off the settings. *)
Folder(key) ==
    CASE key = "root" -> env.rinex
      [] key = "dat_path" -> env.dat
      [] key = "output_dir" -> env.abstec
      [] key = "src" -> Join(dat_parquet_profiles(Direction)[Profile].src, Subpath)
      [] key = "dst" -> dat_parquet_profiles(Direction)[Profile].dst

Beneath(key) == IF key \in {"root", "dst"} THEN Subpath ELSE ""

(* A folder that the command's own fixed mounts take over (registry.py:561 *)
(* and :568 replace an earlier mount of the same host folder).             *)
IsTakenOver(host) == (conv = "tec" /\ host = env.dat) \/ (UsesDockur /\ host = env.dockur)

(* Every path in the command leads, through the mounts, to the folder the  *)
(* settings name for it, and no two folders are mounted over each other,   *)
(* whichever roots share a host folder and whatever the browser posts for  *)
(* a path.  Not so for a folder that a fixed mount takes over.             *)
MountsHold ==
    run.pc = "built" =>
        /\ \A i \in DOMAIN Flags[conv] :
              LET flag == Flags[conv][i]
                  host == Folder(flag.key)
              IN flag.volume # "" /\ host # "" /\ ~IsTakenOver(host) =>
                    /\ host \in DOMAIN run.volumes
                    /\ run.cmd[i] = <<flag.key, Join(run.volumes[host], Beneath(flag.key))>>
        /\ \A g, h \in DOMAIN run.volumes : g # h => run.volumes[g] # run.volumes[h]

(* History is reproducible (jobs.py:534): the flags stored with a job are  *)
(* the command, flag by flag, defaults included, however the form spelled  *)
(* them.                                                                   *)
StoredIsRun ==
    run.pc = "built" =>
        \A i \in DOMAIN Flags[conv] :
            LET flag == Flags[conv][i]
                stored == form[flag.key]
            IN flag.volume = "" =>
                  run.cmd[i] =
                      IF flag.type = "checkbox" THEN IF stored = "True" THEN <<flag.key>> ELSE << >>
                      ELSE IF stored = "" THEN << >> ELSE <<flag.key, stored>>
=============================================================================
