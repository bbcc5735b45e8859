--------------------------- MODULE MCApplication ----------------------------
(***************************************************************************)
(* The application for TLC: the block watcher, whose error stops it, and   *)
(* the status watcher, which is always there (the pool and the network     *)
(* watcher are members of the same kind).  The commands followed are those *)
(* of the boot and of the scheduler, whose context may be another one.     *)
(* A command may half-close its connection; what a node does by that to    *)
(* the proxy it also does by going, but for the copy towards it, which     *)
(* then does not fail.                                                     *)
(***************************************************************************)
EXTENDS Application

MCEnabled  == {"block"}
MCFollowed == {"boot", "scheduler"}
MCHalfClosers == {"local"}
=============================================================================
