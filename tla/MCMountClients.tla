--------------------------- MODULE MCMountClients ---------------------------
(***************************************************************************)
(* An instance of MountClients for TLC: every list of up to three objects. *)
(***************************************************************************)
EXTENDS MountClients, TLC

CONSTANTS r1, r2, e1, bad

\* An endpoint matters for "kms" alone, the role never for a type that is
\* refused.
Objects ==
  {o \in Descriptor : /\ o.endpoint = Default \/ o.type = "kms"
                      /\ o.role = Base \/ o.type # "other"}

SomeLists == UNION {[1 .. n -> Objects] : n \in 0 .. 3}
=============================================================================
