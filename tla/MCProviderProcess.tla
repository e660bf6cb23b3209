------------------------- MODULE MCProviderProcess -------------------------
(***************************************************************************)
(* An instance of ProviderProcess for TLC.                                 *)
(***************************************************************************)
EXTENDS ProviderProcess

CONSTANTS p1, p2, c1
=============================================================================
