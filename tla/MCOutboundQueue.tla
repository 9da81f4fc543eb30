--------------------------- MODULE MCOutboundQueue ---------------------------
(***************************************************************************)
(* Symmetry for OutboundQueue: workers and their ids are interchangeable,   *)
(* which is sound for the safety properties.                                *)
(***************************************************************************)
EXTENDS OutboundQueue, TLC

WorkersAndIds == Permutations(Workers) \cup Permutations(Ids)

=============================================================================
