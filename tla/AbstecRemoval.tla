---------------------------- MODULE AbstecRemoval ---------------------------
(***************************************************************************)
(* Removal of AbsTEC results (indexed_data.py): an administrator previews  *)
(* a selection and confirms its digest; the folders are renamed into a     *)
(* trash one by one.  Converters write into the same folders, other        *)
(* administrators remove them.                                             *)
(***************************************************************************)
EXTENDS Integers

CONSTANTS Folders,       \* station folders of one selection, [kind, day]
          Removers,
          MaxVersion     \* bound: times a folder is written

Gone == 0
OutputKinds == {"dat", "parquet"}

VARIABLES folder,    \* what is in each folder: a version, or Gone
          readonly,  \* the kinds whose root is mounted read-only
          trash,     \* .ionflow-trash/<batch>/...
          remover,   \* a preview and its removal
          late       \* history: removals during which a folder was written, or that could not put one back

vars == <<folder, readonly, trash, remover, late>>

Idle == [pc |-> "idle", seen |-> [f \in Folders |-> Gone], todo |-> {}, moved |-> {}]

Init ==
    /\ folder = [f \in Folders |-> Gone]
    /\ readonly = {}
    /\ trash = {}
    /\ remover = [r \in Removers |-> Idle]
    /\ late = {}

Mounts ==
    /\ \A r \in Removers : remover[r] = Idle
    /\ readonly = {}
    /\ \E k \in OutputKinds : readonly' = {k}
    /\ UNCHANGED <<folder, trash, remover, late>>

UnderWay == {r \in Removers : remover[r].pc \in {"moving", "restoring"}}

Versions == {folder[f] : f \in Folders} \cup {t.version : t \in trash}

ConverterWrites(f) ==
    /\ f.kind \notin readonly
    /\ \E v \in 1..MaxVersion :
          /\ \A w \in Versions : w < v
          /\ folder' = [folder EXCEPT ![f] = v]
    /\ late' = late \cup UnderWay
    /\ UNCHANGED <<readonly, trash, remover>>

-----------------------------------------------------------------------------
(* _selection and _selection_digest: the folders there are, and what is in *)
(* them.                                                                   *)
_removal_targets == {f \in Folders : folder[f] # Gone}

preview_abstec_removal(r) ==
    /\ remover[r].pc \in {"idle", "seen"}
    /\ remover' = [remover EXCEPT ![r] = [Idle EXCEPT !.pc = "seen", !.seen = folder]]
    /\ UNCHANGED <<folder, readonly, trash, late>>

(* Kind by kind, day by day: what is left to move is begun at its first,   *)
(* what was moved is put back from its last.                               *)
Before(f, g)   == (f.kind = "dat" /\ g.kind = "parquet") \/ (f.kind = g.kind /\ f.day < g.day)
IsFirst(f, fs) == f \in fs /\ \A g \in fs \ {f} : Before(f, g)
IsLast(f, fs)  == f \in fs /\ \A g \in fs \ {f} : Before(g, f)

SeesTheSame(r) == {f \in Folders : remover[r].seen[f] # Gone} = _removal_targets   \* mutant: names only

DigestAgrees(r) == remover[r].seen = folder

IsRejected(r) ==
    /\ remover[r].pc = "seen"
    /\ _removal_targets = {} \/ ~DigestAgrees(r)
    /\ remover' = [remover EXCEPT ![r] = Idle]
    /\ UNCHANGED <<folder, readonly, trash, late>>

(* Every batch directory is made before anything moves. *)
MakesBatches(r) ==
    /\ remover[r].pc = "seen"
    /\ _removal_targets # {} /\ DigestAgrees(r)
    /\ remover' = [remover EXCEPT
          ![r].pc = IF \E f \in _removal_targets : f.kind \in readonly THEN "failed" ELSE "moving",
          ![r].todo = _removal_targets]
    /\ UNCHANGED <<folder, readonly, trash, late>>

Renames(r, f) ==
    /\ remover[r].pc = "moving" /\ IsFirst(f, remover[r].todo)
    /\ folder[f] # Gone
    /\ folder' = [folder EXCEPT ![f] = Gone]
    /\ trash' = trash \cup {[by |-> r, folder |-> f, version |-> folder[f]]}
    /\ remover' = [remover EXCEPT ![r].todo = @ \ {f}, ![r].moved = @ \cup {f}]
    /\ UNCHANGED <<readonly, late>>

(* The folder is gone, or the rename fails for another reason. *)
RenameFails(r) ==
    /\ remover[r].pc = "moving" /\ remover[r].todo # {}
    /\ remover' = [remover EXCEPT ![r].pc = "restoring"]
    /\ UNCHANGED <<folder, readonly, trash, late>>

(* Backwards.                                                              *)
Restores(r, f) ==
    /\ remover[r].pc = "restoring" /\ IsLast(f, remover[r].moved)
    /\ folder[f] = Gone
    /\ \E t \in trash :
          /\ t.by = r /\ t.folder = f
          /\ folder' = [folder EXCEPT ![f] = t.version]
          /\ trash' = trash \ {t}
    /\ remover' = [remover EXCEPT ![r].moved = @ \ {f}]
    /\ late' = late \cup (UnderWay \ {r})
    /\ UNCHANGED readonly

(* A folder that has come back stands in the way, or the rename fails for  *)
(* another reason; the exception ends the handler.                         *)
RestoreFails(r) ==
    /\ remover[r].pc = "restoring" /\ remover[r].moved # {}
    /\ remover' = [remover EXCEPT ![r].pc = "failed"]
    /\ late' = late \cup {r}
    /\ UNCHANGED <<folder, readonly, trash>>

Ends(r) ==
    LET q == remover[r]
    IN /\ \/ q.pc = "moving" /\ q.todo = {}
          \/ q.pc = "restoring" /\ q.moved = {}
       /\ remover' = [remover EXCEPT ![r].pc = IF q.pc = "moving" THEN "done" ELSE "failed"]
       /\ UNCHANGED <<folder, readonly, trash, late>>

remove_abstec_output(r) ==
    \/ IsRejected(r) \/ MakesBatches(r) \/ RenameFails(r) \/ RestoreFails(r) \/ Ends(r)
    \/ \E f \in Folders : Renames(r, f) \/ Restores(r, f)

Restart ==
    /\ UnderWay # {}
    /\ remover' = [r \in Removers |-> IF r \in UnderWay THEN [remover[r] EXCEPT !.pc = "dead"] ELSE remover[r]]
    /\ UNCHANGED <<folder, readonly, trash, late>>

Next ==
    \/ Mounts \/ (\E f \in Folders : ConverterWrites(f)) \/ Restart
    \/ \E r \in Removers : preview_abstec_removal(r) \/ remove_abstec_output(r)

Spec == Init /\ [][Next]_vars

-----------------------------------------------------------------------------
Batch(r) == {t \in trash : t.by = r}

(* A removal is all or nothing, and what was confirmed: when it is done    *)
(* its batch has every folder of the preview, with what the preview saw;   *)
(* when it failed, read-only roots and rivals included, the batch is       *)
(* empty.  Only a folder that a converter writes meanwhile or another      *)
(* removal puts back, one that cannot be put back, and a crash spoil that. *)
RemovesAllOrNothing ==
    \A r \in Removers :
        LET q == remover[r]
            confirmed == {f \in Folders : q.seen[f] # Gone}
        IN r \notin late =>
            /\ q.pc = "done" => Batch(r) = {[by |-> r, folder |-> f, version |-> q.seen[f]] : f \in confirmed}
            /\ q.pc = "failed" => Batch(r) = {}
=============================================================================
