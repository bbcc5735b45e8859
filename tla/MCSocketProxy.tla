--------------------------- MODULE MCSocketProxy ----------------------------
(***************************************************************************)
(* Instances of SocketProxy for TLC: one connection at a time beside the   *)
(* prober, which is enough for every race on a cooldown or a gauge.        *)
(***************************************************************************)
EXTENDS SocketProxy

CONSTANT cli

MCDialers == {cli}
=============================================================================
