--------------------------- MODULE MCGoldfishPipe ---------------------------
(***************************************************************************)
(* One pipe used in both directions, and two pipes that are read from: two *)
(* at a time, or a second one with the id, or the memory, of the first.    *)
(***************************************************************************)
EXTENDS GoldfishPipe

CONSTANTS o1, o2

MCUsages ==
    {[calls |-> {o1} \X Dirs, opens |-> 1],
     [calls |-> {o1, o2} \X {"Read"}, opens |-> 2]}
=============================================================================
