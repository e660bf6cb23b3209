---------------------------- MODULE MCMountAuth ----------------------------
(***************************************************************************)
(* Instances of MountAuth for TLC.                                         *)
(***************************************************************************)
EXTENDS MountAuth, TLC

CONSTANTS c1, c2

CallSymmetry == Permutations(Calls)

\* What is in the secrets is there only if they are a JSON object.
PodRequest == [NoRequest EXCEPT !.usePodSA = TRUE, !.secrets = "map", !.token = "good"]

SomeRequests ==
  {NoRequest, PodRequest,
   [NoRequest EXCEPT !.usePodSA = TRUE, !.context = "good"],
   [PodRequest EXCEPT !.token = "noAudience", !.context = "good"],
   [PodRequest EXCEPT !.token = "malformed"],
   [PodRequest EXCEPT !.token = "none", !.keys = TRUE],
   [PodRequest EXCEPT !.usePodSA = FALSE, !.keys = TRUE],
   [NoRequest EXCEPT !.usePodSA = TRUE, !.secrets = "malformed"]}
=============================================================================
