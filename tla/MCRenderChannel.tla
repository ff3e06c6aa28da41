--------------------------- MODULE MCRenderChannel ---------------------------
(* Instances of RenderChannel for TLC; the constants are in the            *)
(* configurations.                                                         *)
EXTENDS RenderChannel
=============================================================================
