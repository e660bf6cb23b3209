--------------------------- MODULE MCPullLimiter ---------------------------
(***************************************************************************)
(* An instance of PullLimiter for TLC.                                     *)
(***************************************************************************)
EXTENDS PullLimiter, TLC

CONSTANTS kms, oos, other, c1, c2, c3

\* Calls that fetch one secret or several, of one service or of both.
SomeLists == {<<kms, kms>>, <<oos, kms>>, <<kms, other>>, <<>>}
=============================================================================
