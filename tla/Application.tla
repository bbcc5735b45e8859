---------------------------- MODULE Application -----------------------------
(***************************************************************************)
(* The process: boot, the errgroup of the scheduler, the HTTP server and   *)
(* the watchers, and the shutdown on a signal or on the first error.  The  *)
(* members of the group run commands through the socket proxy, whose       *)
(* goroutines are not in the group: one command and its connection are     *)
(* followed (ProxyConn).  cmd/watcher/app/watcher.go, cmd/watcher/main.go, *)
(* the loops of internal/watcher and internal/server/http/server.go.       *)
(***************************************************************************)
EXTENDS ProxyConn

CONSTANTS
    Enabled,    \* the watchers that the configuration enables
    Followed    \* bound: whose passes, and whose command, are followed

ASSUME EnabledAssumption == Enabled \subseteq {"pool", "block", "network"}

VARIABLES
    main,       \* where run() is
    member,     \* member[m]: what a goroutine of the group does
    caller,     \* who runs the command
    first,      \* the first error returned to the group
    signalled,  \* SIGINT or SIGTERM has been received
    stopCtx,    \* the context of the shutdown: "none", "running" or "done"
    late,       \* the scheduler's goroutine was given that context
    inShutdown, \* the HTTP server has been told to shut down
    status      \* the exit status, or -1

appVars == <<main, member, caller, first, signalled, stopCtx, late,
             inShutdown, status>>
vars    == <<cancelled, connVars, appVars>>

Watchers  == {"status"} \cup Enabled
Members   == Watchers \cup {"scheduler", "http"}
Loops     == Members \ {"http"}

(* The pool and the network watcher run no command. *)
Commanders == {"boot", "status", "block", "scheduler"} \cap Followed

Alone(v) == UNCHANGED <<cancelled, connVars>> /\ UNCHANGED v

(* The process ends; what it has noted of errors and signals is history. *)
Exit(code) ==
    /\ main' = "exited"
    /\ status' = code
    /\ member' = [m \in Members |-> "off"]
    /\ late' = FALSE /\ inShutdown' = FALSE /\ stopCtx' = "none"
    /\ ConnLost
    /\ UNCHANGED <<cancelled, caller, first, signalled>>

Waits(m) == caller = m /\ cmd = "running"

(* The context a loop runs under is done. *)
CtxDone(m) ==
    IF m = "scheduler" /\ late THEN stopCtx = "done" ELSE cancelled

-----------------------------------------------------------------------------
(* run(), up to the start of the group.  A boot that fails returns its     *)
(* error, also when it is a signal that made it fail.                      *)
Booted ==
    /\ main = "boot"
    /\ ~Waits("boot")
    /\ main' = "serving"
    /\ member' = [m \in Members |-> IF m = "scheduler" THEN "starting"
                                                        ELSE "idle"]
    /\ Alone(<<caller, first, signalled, stopCtx, late, inShutdown, status>>)

BootFails ==
    /\ main = "boot"
    /\ ~Waits("boot")
    /\ Exit(1)

(* A command is not started under a context that is done. *)
Command(m) ==
    /\ \/ m = "boot" /\ main = "boot"
       \/ m \in Members /\ member[m] = "busy"
    /\ ~CtxDone(m)
    /\ Exec
    /\ caller' = m
    /\ UNCHANGED <<cancelled, main, member, first, signalled, stopCtx, late,
                   inShutdown, status>>

(* It is killed at its timeout, or when the context of its caller is done. *)
CommandEnds ==
    /\ CmdEnds
    /\ caller' = "none"
    /\ UNCHANGED <<cancelled, main, member, first, signalled, stopCtx, late,
                   inShutdown, status>>

-----------------------------------------------------------------------------
(* The members.  An error that is the first one ends the context of all.   *)
FirstErrorMutant(err) == IF err = "none" THEN first ELSE err

FirstError(err) == IF first = "none" THEN err ELSE first

Return(m, err) ==
    /\ member' = [member EXCEPT ![m] = "ended"]
    /\ first' = FirstError(err)
    /\ cancelled' = (cancelled \/ err # "none")
    /\ UNCHANGED <<connVars, main, caller, signalled, stopCtx, late,
                   inShutdown, status>>

(* The scheduler's closure reads the variable ctx when it begins; run()    *)
(* may have assigned the context of the shutdown to it by then.            *)
SchedulerBegins ==
    /\ member["scheduler"] = "starting"
    /\ member' = [member EXCEPT !["scheduler"] = "idle"]
    /\ late' = (stopCtx # "none")
    /\ Alone(<<main, caller, first, signalled, stopCtx, inShutdown, status>>)

(* A tick.  With the context done as well, select takes either. *)
PassBegins(m) ==
    /\ m \in Loops \cap Followed /\ member[m] = "idle"
    /\ member' = [member EXCEPT ![m] = "busy"]
    /\ Alone(<<main, caller, first, signalled, stopCtx, late, inShutdown,
               status>>)

(* A pass waits for its command; whatever it then fails of is logged.      *)
PassOver(m) == member[m] = "busy" /\ ~Waits(m)

PassEnds(m) ==
    /\ PassOver(m)
    /\ member' = [member EXCEPT ![m] = "idle"]
    /\ Alone(<<main, caller, first, signalled, stopCtx, late, inShutdown,
               status>>)

(* The block watcher returns the error of a schedule's computation, also   *)
(* when it is the shutdown that made it fail.  (A pass that is not         *)
(* followed takes no time: the watcher is idle.)                           *)
RefreshFails ==
    /\ "block" \in Enabled
    /\ member["block"] \in {"idle", "busy"} /\ ~Waits("block")
    /\ Return("block", "failure")

(* A panic of a watcher, in a pass: of the block watcher on a schedule that *)
(* is empty or not there, of the pool watcher on a pool without ticker.    *)
(* The group does not recover it: the process ends at once, by its         *)
(* runtime, without waiting for anybody.                                   *)
Panics(m) ==
    /\ m \in Enabled \cap {"block", "pool"}
    /\ member[m] \in {"idle", "busy"} /\ ~Waits(m)
    /\ Exit(2)

(* The watchers return the cancellation, the scheduler returns nil. *)
QuitError(m) == IF m = "scheduler" THEN "none" ELSE "canceled"

Quit(m) ==
    /\ m \in Loops /\ member[m] = "idle"
    /\ CtxDone(m)
    /\ Return(m, QuitError(m))

(* ListenAndServe, which always returns an error: of the listener, or      *)
(* ErrServerClosed at once when Shutdown is called, also before it runs.   *)
ServeFails ==
    /\ member["http"] = "idle"
    /\ ~inShutdown
    /\ Return("http", "failure")

ServerClosed ==
    /\ member["http"] = "idle"
    /\ inShutdown
    /\ Return("http", "closed")

-----------------------------------------------------------------------------
(* run(), from <-ctx.Done() on. *)
Stop ==
    /\ main = "serving"
    /\ cancelled
    /\ main' = "stopping"
    /\ stopCtx' = "running"
    /\ Alone(<<member, caller, first, signalled, late, inShutdown, status>>)

TellServerMutant == inShutdown' = inShutdown

TellServer == inShutdown' = TRUE

ShutdownServer ==
    /\ main = "stopping"
    /\ main' = "shutdown"
    /\ TellServer
    /\ Alone(<<member, caller, first, signalled, stopCtx, late, status>>)

StopTimesOut ==
    /\ stopCtx = "running"
    /\ stopCtx' = "done"
    /\ Alone(<<main, member, caller, first, signalled, late, inShutdown,
               status>>)

AllReturnedMutant == \A m \in Watchers : member[m] = "ended"

AllReturned == \A m \in Members : member[m] = "ended"

StatusOfMutant(err) ==
    CASE err = "none"     -> 0
      [] err = "canceled" -> 130
      [] OTHER            -> 1

StatusOf(err) == IF err \in {"none", "canceled"} THEN 0 ELSE 1

(* server.Stop has returned, without requests left or after 30 seconds,    *)
(* and so has eg.Wait.                                                     *)
Wait ==
    /\ main = "shutdown"
    /\ AllReturned
    /\ Exit(StatusOf(first))

Signal ==
    /\ ~signalled
    /\ signalled' = TRUE
    /\ cancelled' = TRUE
    /\ UNCHANGED <<connVars, main, member, caller, first, stopCtx, late,
                   inShutdown, status>>

Init ==
    /\ ConnInit
    /\ cancelled = FALSE
    /\ main = "boot"
    /\ member = [m \in Members |-> "off"]
    /\ caller = "none"
    /\ first = "none"
    /\ signalled = FALSE
    /\ stopCtx = "none"
    /\ late = FALSE
    /\ inShutdown = FALSE
    /\ status = -1

Running ==
    \/ Connection /\ UNCHANGED <<cancelled, appVars>>
    \/ \E m \in Commanders : Command(m)
    \/ CommandEnds
    \/ SchedulerBegins
    \/ \E m \in Members :
          PassBegins(m) \/ PassEnds(m) \/ Panics(m) \/ Quit(m)
    \/ RefreshFails \/ ServeFails \/ ServerClosed
    \/ Booted \/ BootFails
    \/ Stop \/ ShutdownServer \/ StopTimesOut \/ Wait
    \/ Signal

Next == main # "exited" /\ Running

Spec == Init /\ [][Next]_vars

(***************************************************************************)
(* The goroutines of a connection run; those of the process do, a command  *)
(* is killed with its context, 30 seconds pass; a pass ends once its       *)
(* command has; and a select between a tick and a context that is done     *)
(* chooses at random, hence strong fairness.  That a command ends by       *)
(* itself, or that a peer reads, writes or goes, is never required.        *)
(***************************************************************************)
Closing ==
    \/ Proxying \/ Watchdog \/ CloseListener
    \/ \E e \in Ends : CopyEnds(e)

Stopping ==
    \/ SchedulerBegins
    \/ CtxDone(caller) /\ CommandEnds
    \/ Booted \/ BootFails
    \/ ServerClosed \/ StopTimesOut
    \/ Stop \/ ShutdownServer \/ Wait

Fairness ==
    /\ WF_connVars(main # "exited" /\ Closing /\ UNCHANGED <<cancelled, appVars>>)
    /\ WF_appVars(main # "exited" /\ Stopping)
    /\ WF_member(main # "exited" /\ \E m \in Members : PassEnds(m))
    /\ SF_member(main # "exited" /\ \E m \in Members : Quit(m))

FairSpec == Spec /\ Fairness

-----------------------------------------------------------------------------
(***************************************************************************)
(* Properties.                                                             *)
(***************************************************************************)

(* Every variable has its type. *)
TypeOK ==
    /\ ConnTypeOK
    /\ main \in {"boot", "serving", "stopping", "shutdown", "exited"}
    /\ member \in [Members -> {"off", "starting", "idle", "busy", "ended"}]
    /\ caller \in Members \cup {"boot", "none"}
    /\ first \in {"none", "canceled", "closed", "failure"}
    /\ signalled \in BOOLEAN /\ late \in BOOLEAN /\ inShutdown \in BOOLEAN
    /\ stopCtx \in {"none", "running", "done"}
    /\ status \in {-1, 0, 1, 2}

(* Once the context is done, by a signal or by an error, the process ends, *)
(* whatever command, connection or member is at work by then.              *)
Terminates == cancelled ~> main = "exited"

(* A connection is given up, with its goroutines, when the application     *)
(* stops or a copy is at an end whose peer has closed or gone, also when   *)
(* the other end stays silent for ever or does not read.                   *)
Doomed ==
    \/ proxy # "none" /\ cancelled
    \/ \E e \in Ends : Copying(e) /\ Lost(e)

NoLeak == Doomed ~> (Released \/ main = "exited")

(* Nobody holds up the shutdown: each member that has not returned yet has *)
(* a step of its own to take, or its command is killed with its context.   *)
(* Only the scheduler, if it was given the shutdown's context, may have to *)
(* wait until that one ends.                                               *)
Free(m) ==
    \/ member[m] = "ended"
    \/ m = "scheduler" /\ member[m] = "starting"
    \/ m = "http" /\ member[m] = "idle" /\ inShutdown
    \/ m \in Loops /\ member[m] = "idle" /\ CtxDone(m)
    \/ PassOver(m)
    \/ Waits(m) /\ CtxDone(m)
    \/ m = "scheduler" /\ late /\ stopCtx = "running"

NobodyHeldUp == main = "shutdown" => \A m \in Members : Free(m)

(* Once a connection has begun to close, since the application stops or a  *)
(* copy has ended, one of its goroutines can always go on until they and   *)
(* the descriptors are gone, although the peers stay silent, do not read   *)
(* and never go: proxy(), the copies and the watchdog do not wait for each *)
(* other in a circle.                                                      *)
CanGoOn ==
    \/ proxy \in {"dial", "close"}
    \/ proxy = "first" /\ Ended # {}
    \/ proxy = "second" /\ Awaited
    \/ watchdog = "waiting" /\ Done
    \/ watchdog \in Ends
    \/ \E e \in Ends : Copying(e) /\ Broken(e)

ClosingGoesOn ==
    proxy # "none" /\ (cancelled \/ proxy # "first" \/ Ended # {}) =>
        Released \/ CanGoOn

(* A process that ends by a failure does not report success: the status is *)
(* 0 only after a signal, whichever members return in whatever order.      *)
FailureReported == status = 0 => signalled

(* run() does not return before the command that a member, or the boot,    *)
(* runs: one is left behind, with nobody to enforce its timeout, only by a *)
(* panic of another member.                                                *)
NoOrphan == main = "exited" /\ cmd = "running" => status = 2
=============================================================================
