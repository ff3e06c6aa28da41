------------------------ MODULE MCVirtioGpuTimelines ------------------------
(* Instance of VirtioGpuTimelines for TLC. *)
EXTENDS VirtioGpuTimelines, TLC
CONSTANTS global, ctx1
=============================================================================
