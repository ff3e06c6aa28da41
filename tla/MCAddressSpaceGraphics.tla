---------------------- MODULE MCAddressSpaceGraphics ----------------------
(* Instances of AddressSpaceGraphics for TLC; the constants are in the     *)
(* configurations.                                                         *)
EXTENDS AddressSpaceGraphics
=============================================================================
