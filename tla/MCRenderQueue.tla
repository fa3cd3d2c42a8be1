--------------------------- MODULE MCRenderQueue ----------------------------
(***************************************************************************)
(* RenderQueue for TLC: a page of each of two users, who may each have one *)
(* animation under way, and a direct request in their way.                 *)
(***************************************************************************)
EXTENDS RenderQueue
CONSTANTS ann, ben, t1, t2

OwnerOf == [t \in Tabs |-> IF t = t2 THEN ben ELSE ann]
=============================================================================
