---------------------------- MODULE MCJobEventLog ---------------------------
(***************************************************************************)
(* JobEventLog for TLC, and what the repository says of the stream that    *)
(* the code does not keep.                                                 *)
(***************************************************************************)
EXTENDS JobEventLog

(* docs/sequence_diagrams.md:139 "A browser that reconnects sends          *)
(* `Last-Event-ID` (or `after_event_id`) and gets exactly the events it    *)
(* missed."  The handler prefers after_event_id, which stays in the URL of *)
(* a source the panel opened, to the newer Last-Event-ID.  (Of a panel     *)
(* that only durable events were sent to: the fallback's have no ids.)     *)
ShownOnce == direct = "no" => ~repeated
=============================================================================
