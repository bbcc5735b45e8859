----------------------------- MODULE ProxyConn ------------------------------
(***************************************************************************)
(* The life of one connection through the socket proxy: the goroutine of   *)
(* proxy(), its two copies, and the watchdog that forces the deadlines.    *)
(* cardano-cli is at the local end, a node at the remote end; either may   *)
(* stay silent, stop reading, close its writing side, or go.               *)
(* internal/cardano/cardanocli, socketproxy.go (Start, proxy) and          *)
(* executor.go.                                                            *)
(*                                                                         *)
(* The module has no next-state relation of a program: Application says    *)
(* when a command runs and when the application's context is done.         *)
(***************************************************************************)
EXTENDS Integers, FiniteSets

CONSTANT
    HalfClosers \* bound: the ends whose peer may close its writing side only

VARIABLES
    cancelled,  \* the context of the application is done
    cmd,        \* the command: "none", "running" or "ended"
    listening,  \* the listener of the proxy is open
    open,       \* the ends whose connection the proxy holds open
    cut,        \* the ends whose deadline has been forced
    peer,       \* peer[e]: "here", "half" (writes no more) or "gone"
    proxy,      \* where the goroutine of proxy() is
    child,      \* cancel() has been called on the connection's context
    copy,       \* copy[e]: what the copy that reads from end e does
    watchdog    \* where the watchdog is

connVars == <<cmd, listening, open, cut, peer, proxy, child, copy, watchdog>>

Ends     == {"local", "remote"}
Other(e) == IF e = "local" THEN "remote" ELSE "local"

Copying(e) == copy[e] \in {"read", "write"}
Ended      == {e \in Ends : copy[e] = "ended"}

-----------------------------------------------------------------------------
(* The command and the accept loop of Start, which a goroutine ends by     *)
(* closing the listener.                                                   *)
Exec ==
    /\ cmd = "none"
    /\ cmd' = "running"
    /\ UNCHANGED <<listening, open, cut, peer, proxy, child, copy, watchdog>>

(* Whatever it waits for, it is killed at its timeout or with its context. *)
CmdEnds ==
    /\ cmd = "running"
    /\ cmd' = "ended"
    /\ peer' = [peer EXCEPT !["local"] =
                   IF "local" \in open THEN "gone" ELSE @]
    /\ UNCHANGED <<listening, open, cut, proxy, child, copy, watchdog>>

Accept ==
    /\ listening
    /\ cmd # "none"
    /\ proxy = "none"
    /\ proxy' = "dial"
    /\ open' = {"local"}
    /\ peer' = [peer EXCEPT !["local"] = IF cmd = "ended" THEN "gone" ELSE @]
    /\ UNCHANGED <<cmd, listening, cut, child, copy, watchdog>>

CloseListener ==
    /\ cancelled
    /\ listening
    /\ listening' = FALSE
    /\ UNCHANGED <<cmd, open, cut, peer, proxy, child, copy, watchdog>>

-----------------------------------------------------------------------------
(* proxy().  The goroutines are started; then a first copy ends, cancel()  *)
(* is called, the second one ends, and the deferred closes run.            *)
Dialed ==
    /\ proxy = "dial"
    /\ proxy' = "first"
    /\ open' = Ends
    /\ copy' = [e \in Ends |-> "read"]
    /\ watchdog' = "waiting"
    /\ UNCHANGED <<cmd, listening, cut, peer, child>>

DialFails ==
    /\ proxy = "dial"
    /\ proxy' = "close"
    /\ UNCHANGED <<cmd, listening, open, cut, peer, child, copy, watchdog>>

CancelMutant == child' = child

(* cancel(), once a direction has finished. *)
Cancel == child' = TRUE

FirstDone ==
    /\ proxy = "first"
    /\ Ended # {}
    /\ proxy' = "second"
    /\ Cancel
    /\ UNCHANGED <<cmd, listening, open, cut, peer, copy, watchdog>>

AwaitedMutant == Ended # {}

Awaited == Ended = Ends

SecondDone ==
    /\ proxy = "second"
    /\ Awaited
    /\ proxy' = "close"
    /\ UNCHANGED <<cmd, listening, open, cut, peer, child, copy, watchdog>>

(* The deferred calls: both ends closed, the context cancelled. *)
Close ==
    /\ proxy = "close"
    /\ proxy' = "ended"
    /\ open' = {} /\ cut' = {}
    /\ peer' = [e \in Ends |-> "here"]
    /\ copy' = [e \in Ends |-> IF Copying(e) THEN copy[e] ELSE "off"]
    /\ child' = TRUE
    /\ UNCHANGED <<cmd, listening, watchdog>>

-----------------------------------------------------------------------------
(* io.Copy: blocked reading from one end, or writing to the other while    *)
(* its peer does not read.  What a peer wrote before it closed or went is  *)
(* abstracted to be read before.                                           *)
CopyReads(e) ==
    /\ copy[e] = "read"
    /\ peer[e] = "here" /\ e \notin cut
    /\ copy' = [copy EXCEPT ![e] = "write"]
    /\ UNCHANGED <<cmd, listening, open, cut, peer, proxy, child, watchdog>>

CopyWrites(e) ==
    /\ copy[e] = "write"
    /\ peer[Other(e)] # "gone" /\ Other(e) \notin cut
    /\ copy' = [copy EXCEPT ![e] = "read"]
    /\ UNCHANGED <<cmd, listening, open, cut, peer, proxy, child, watchdog>>

(* The copy meets the end of the stream, of a peer that has closed its     *)
(* writing side; or nobody is left to write to.                            *)
Lost(e) == IF copy[e] = "read" THEN peer[e] # "here"
                               ELSE peer[Other(e)] = "gone"

BlockedOn(e) == IF copy[e] = "read" THEN e ELSE Other(e)

Broken(e) == Lost(e) \/ BlockedOn(e) \in cut \/ BlockedOn(e) \notin open

(* Then done <- struct{}{}, which has room for both. *)
CopyEnds(e) ==
    /\ Copying(e)
    /\ Broken(e)
    /\ copy' = [copy EXCEPT ![e] = "ended"]
    /\ UNCHANGED <<cmd, listening, open, cut, peer, proxy, child, watchdog>>

(* The watchdog: <-ctx.Done() of the connection's context, a child of the  *)
(* application's; then both deadlines, without effect on a closed end.     *)
DoneMutant == TRUE

Done == child \/ cancelled

Wake ==
    /\ watchdog = "waiting"
    /\ Done
    /\ watchdog' = "local"
    /\ UNCHANGED <<cmd, listening, open, cut, peer, proxy, child, copy>>

NextDeadlineMutant == "ended"

NextDeadline == IF watchdog = "local" THEN "remote" ELSE "ended"

SetDeadline ==
    /\ watchdog \in Ends
    /\ cut' = cut \cup ({watchdog} \cap open)
    /\ watchdog' = NextDeadline
    /\ UNCHANGED <<cmd, listening, open, peer, proxy, child, copy>>

(* The node, or the command while it runs, closes its writing side, or the *)
(* connection; a node also dies.                                           *)
PeerCloses(e) ==
    /\ e \in open
    /\ \/ /\ peer[e] = "here" /\ e \in HalfClosers
          /\ peer' = [peer EXCEPT ![e] = "half"]
       \/ peer[e] # "gone" /\ peer' = [peer EXCEPT ![e] = "gone"]
    /\ UNCHANGED <<cmd, listening, open, cut, proxy, child, copy, watchdog>>

ConnInit ==
    /\ cmd = "none"
    /\ listening = TRUE
    /\ open = {} /\ cut = {}
    /\ peer = [e \in Ends |-> "here"]
    /\ proxy = "none"
    /\ child = FALSE
    /\ copy = [e \in Ends |-> "off"]
    /\ watchdog = "off"

(* The end of the process takes its goroutines and descriptors with it,    *)
(* not the command, which is a process of its own.                         *)
ConnLost ==
    /\ listening' = FALSE
    /\ open' = {} /\ cut' = {}
    /\ peer' = [e \in Ends |-> "here"]
    /\ proxy' = "none"
    /\ child' = FALSE
    /\ copy' = [e \in Ends |-> "off"]
    /\ watchdog' = "off"
    /\ cmd' = cmd

(* The goroutines: of proxy(), of the watchdog, and of the two copies. *)
Proxying  == Accept \/ Dialed \/ DialFails \/ FirstDone \/ SecondDone \/ Close
Watchdog  == Wake \/ SetDeadline
Copy(e)   == CopyReads(e) \/ CopyWrites(e) \/ CopyEnds(e)

Connection ==
    \/ Proxying \/ Watchdog
    \/ \E e \in Ends : Copy(e) \/ PeerCloses(e)
    \/ CloseListener

-----------------------------------------------------------------------------
(***************************************************************************)
(* Properties.                                                             *)
(***************************************************************************)

(* Every variable has its type. *)
ConnTypeOK ==
    /\ cancelled \in BOOLEAN
    /\ cmd \in {"none", "running", "ended"}
    /\ listening \in BOOLEAN
    /\ open \subseteq Ends /\ cut \subseteq Ends
    /\ peer \in [Ends -> {"here", "half", "gone"}]
    /\ child \in BOOLEAN
    /\ proxy \in {"none", "dial", "first", "second", "close", "ended"}
    /\ copy \in [Ends -> {"off", "read", "write", "ended"}]
    /\ watchdog \in {"off", "waiting", "ended"} \cup Ends

(* A connection is closed only when neither copy uses it any more, and the *)
(* two are closed together: no copy is left with a closed descriptor.      *)
ClosedAfterCopies == (\E e \in Ends : Copying(e)) => open = Ends

Over == cancelled \/ \E e \in Ends : peer[e] # "here"

(* A deadline is forced only on a connection that is over: the application *)
(* stops, or the command or the node has closed at least its writing side. *)
(* An answer that is only slow is never cut, one to a command that has     *)
(* half-closed may be.                                                     *)
CutOnlyIfOver == cut # {} => Over

(* Every goroutine of the connection and both descriptors are gone. *)
Released == proxy = "ended" /\ open = {} /\ watchdog \in {"off", "ended"}
=============================================================================
