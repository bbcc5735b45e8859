-------------------------- MODULE ApplicationProofs --------------------------
(***************************************************************************)
(* Proofs about the application and the connection of its command: the     *)
(* invariants that the run checks, for every choice of the watchers.       *)
(***************************************************************************)
EXTENDS Application, TLAPS

(* The connection.  Descriptors are closed after the copies; and what the  *)
(* watchdog does goes back to the command, the node, or the application,   *)
(* which has closed or ended, through the first copy that has ended and    *)
(* cancel().                                                               *)
ConnInv ==
    /\ ConnTypeOK
    /\ proxy \in {"first", "second"} =>
          open = Ends /\ \A e \in Ends : copy[e] # "off"
    /\ (\E e \in Ends : Copying(e)) => proxy \in {"first", "second"}
    /\ proxy # "none" => cmd # "none"
    /\ proxy = "ended" => open = {} /\ cut = {}
    /\ Ended # {} => Over
    /\ child => Over \/ proxy = "ended"
    /\ watchdog \in Ends \cup {"ended"} => Over \/ proxy = "ended"
    /\ CutOnlyIfOver

(* The group.  A command belongs to the boot or to a member at work; the   *)
(* context is done by a signal, or by an error that was the first.         *)
GroupInv ==
    /\ cmd = "running" <=> caller # "none"
    /\ caller = "boot" => main = "boot"
    /\ caller \in Members /\ main # "exited" => member[caller] = "busy"
    /\ main = "boot" => member = [m \in Members |-> "off"]
    /\ main \in {"stopping", "shutdown"} => cancelled
    /\ first # "none" => cancelled
    /\ cancelled => signalled \/ first \in {"closed", "failure"}
    /\ status # -1 => main = "exited"

IInv == TypeOK /\ ConnInv /\ GroupInv /\ FailureReported /\ NoOrphan

-----------------------------------------------------------------------------
LEMMA Initially == Init => IInv
<1> SUFFICES ASSUME Init PROVE IInv
  OBVIOUS
<1>1. ConnInv
  BY DEF Init, ConnInit, ConnInv, ConnTypeOK, Over, CutOnlyIfOver, Ended,
         Copying, Ends
<1>2. TypeOK
  BY <1>1 DEF Init, TypeOK, ConnInv
<1>3. GroupInv /\ FailureReported /\ NoOrphan
  BY EnabledAssumption
     DEF Init, ConnInit, GroupInv, FailureReported, NoOrphan, Members, Watchers
<1> QED
  BY <1>1, <1>2, <1>3 DEF IInv

(* Nothing happens to the connection but that the context may be done. *)
LEMMA ConnStutters ==
  ASSUME ConnInv, UNCHANGED connVars, cancelled' \in BOOLEAN,
         cancelled => cancelled'
  PROVE  ConnInv'
  BY DEF ConnInv, connVars, ConnTypeOK, CutOnlyIfOver, Over, Ended, Copying,
         Ends

(* The goroutines of the connection. *)
LEMMA ConnectionSteps ==
  ASSUME ConnInv, Connection, UNCHANGED cancelled
  PROVE  ConnInv'
<1> USE DEF ConnInv, ConnTypeOK, CutOnlyIfOver, Over, Ended, Copying, Ends
<1>1. CASE Accept
  BY <1>1 DEF Accept
<1>2. CASE Dialed
  BY <1>2 DEF Dialed
<1>3. CASE DialFails
  BY <1>3 DEF DialFails
<1>4. CASE FirstDone
  BY <1>4 DEF FirstDone, Cancel
<1>5. CASE SecondDone
  BY <1>5 DEF SecondDone, Awaited
<1>6. CASE Close
  BY <1>6 DEF Close
<1>7. CASE Wake
  BY <1>7 DEF Wake, Done
<1>8. CASE SetDeadline
  BY <1>8 DEF SetDeadline, NextDeadline
<1>9. ASSUME NEW e \in Ends, CopyReads(e)
      PROVE  ConnInv'
  BY <1>9 DEF CopyReads
<1>10. ASSUME NEW e \in Ends, CopyWrites(e)
       PROVE  ConnInv'
  BY <1>10 DEF CopyWrites
<1>11. ASSUME NEW e \in Ends, CopyEnds(e)
       PROVE  ConnInv'
  BY <1>11 DEF CopyEnds, Broken, Lost, BlockedOn, Other
<1>12. CASE CloseListener
  BY <1>12 DEF CloseListener
<1>13. ASSUME NEW e \in Ends, PeerCloses(e)
       PROVE  ConnInv'
  BY <1>13 DEF PeerCloses
<1> QED
  BY <1>1, <1>2, <1>3, <1>4, <1>5, <1>6, <1>7, <1>8, <1>9, <1>10, <1>11,
     <1>12, <1>13 DEF Connection, Proxying, Watchdog, Copy

(* The names of the places differ from those of the members. *)
LEMMA Names ==
  /\ "boot" \notin Members /\ "none" \notin Members
  /\ "scheduler" \in Members /\ "http" \in Members /\ Watchers \subseteq Members
  BY EnabledAssumption DEF Members, Watchers

(* The return of a member, with an error that is the cancellation only     *)
(* when the context is done already.                                       *)
LEMMA Returns ==
  ASSUME IInv, main # "exited", NEW m \in Members, caller # m,
         member[m] # "off",
         NEW err \in {"none", "canceled", "closed", "failure"},
         err = "canceled" => cancelled,
         Return(m, err)
  PROVE  IInv'
<1> USE DEF IInv, TypeOK, Return
<1>1. cancelled' \in BOOLEAN
  BY DEF ConnTypeOK
<1>2. ConnInv'
  BY <1>1, ConnStutters
<1>3. TypeOK'
  BY <1>2 DEF ConnInv, FirstError
<1>4. GroupInv' /\ FailureReported' /\ NoOrphan'
  BY Names DEF GroupInv, FailureReported, NoOrphan, FirstError, connVars
<1> QED
  BY <1>2, <1>3, <1>4

(* The ends of the process: a boot that fails, a panic, and the return of  *)
(* run(), at which no member runs a command.                               *)
LEMMA Exits ==
  ASSUME IInv, main # "exited",
         BootFails \/ Wait \/ \E m \in Members : Panics(m)
  PROVE  IInv'
<1>1. PICK code \in {0, 1, 2} :
         /\ Exit(code)
         /\ caller # "boot"
         /\ cmd = "running" => code = 2
         /\ code = 0 => first \in {"none", "canceled"} /\ cancelled
  <2>1. CASE BootFails
    BY <2>1, Names DEF BootFails, Waits, IInv, GroupInv, TypeOK
  <2>2. CASE Wait
    <3>1. cmd # "running"
      BY <2>2, Names DEF Wait, AllReturned, IInv, GroupInv, TypeOK
    <3> QED
      BY <2>2, <3>1 DEF Wait, StatusOf, IInv, GroupInv
  <2>3. CASE \E m \in Members : Panics(m)
    BY <2>3 DEF Panics, IInv, GroupInv
  <2> QED
    BY <2>1, <2>2, <2>3
<1> USE <1>1 DEF Exit, ConnLost
<1>2. ConnInv'
  BY DEF IInv, ConnInv, ConnTypeOK, CutOnlyIfOver, Over, Ended, Copying, Ends
<1>3. TypeOK'
  BY <1>2 DEF IInv, ConnInv, TypeOK
<1>4. GroupInv' /\ FailureReported' /\ NoOrphan'
  BY DEF IInv, TypeOK, GroupInv, FailureReported, NoOrphan
<1> QED
  BY <1>2, <1>3, <1>4 DEF IInv

(* The other steps of the group and of run(), which leave the connection,  *)
(* and the context, alone.                                                 *)
LEMMA Others ==
  ASSUME IInv, main # "exited",
         \/ Booted \/ SchedulerBegins
         \/ \E m \in Members : PassBegins(m) \/ PassEnds(m)
         \/ Stop \/ ShutdownServer \/ StopTimesOut
  PROVE  IInv'
<1> USE Names
    DEF IInv, TypeOK, Alone, GroupInv, FailureReported, NoOrphan, connVars
<1>1. ConnInv' /\ ConnTypeOK'
  <2>1. UNCHANGED <<cancelled, connVars>>
    BY DEF Booted, SchedulerBegins, PassBegins, PassEnds, Stop,
           ShutdownServer, StopTimesOut
  <2>2. ConnInv'
    BY <2>1, ConnStutters DEF ConnTypeOK
  <2> QED
    BY <2>2 DEF ConnInv
<1>2. CASE Booted
  BY <1>1, <1>2 DEF Booted, Waits
<1>3. CASE SchedulerBegins
  BY <1>1, <1>3 DEF SchedulerBegins
<1>4. ASSUME NEW m \in Members, PassBegins(m)
      PROVE  IInv'
  BY <1>1, <1>4 DEF PassBegins
<1>5. ASSUME NEW m \in Members, PassEnds(m)
      PROVE  IInv'
  BY <1>1, <1>5 DEF PassEnds, PassOver, Waits
<1>6. CASE Stop
  BY <1>1, <1>6 DEF Stop
<1>7. CASE ShutdownServer
  BY <1>1, <1>7 DEF ShutdownServer, TellServer
<1>8. CASE StopTimesOut
  BY <1>1, <1>8 DEF StopTimesOut
<1> QED
  BY <1>2, <1>3, <1>4, <1>5, <1>6, <1>7, <1>8

LEMMA Inductive == IInv /\ [Next]_vars => IInv'
<1> SUFFICES ASSUME IInv, [Next]_vars PROVE IInv'
  OBVIOUS
<1>1. CASE UNCHANGED vars
  <2>1. ConnInv'
    BY <1>1, ConnStutters DEF vars, IInv, ConnInv, ConnTypeOK
  <2> QED
    BY <1>1, <2>1 DEF vars, appVars, connVars, IInv, ConnInv, TypeOK,
                      GroupInv, FailureReported, NoOrphan
<1>2. CASE Next
  <2> USE <1>2 DEF Next
  <2>1. CASE Connection /\ UNCHANGED <<cancelled, appVars>>
    <3>1. ConnInv'
      BY <2>1, ConnectionSteps DEF IInv
    <3>2. cmd' = cmd
      BY <2>1 DEF Connection, Proxying, Watchdog, Copy, Accept, Dialed,
         DialFails, FirstDone, SecondDone, Close, Wake, SetDeadline,
         CopyReads, CopyWrites, CopyEnds, CloseListener, PeerCloses
    <3> QED
      BY <2>1, <3>1, <3>2 DEF appVars, IInv, ConnInv, TypeOK, GroupInv,
                              FailureReported, NoOrphan
  <2>2. ASSUME NEW m \in Commanders, Command(m)
        PROVE  IInv'
    <3>1. ConnInv'
      BY <2>2 DEF Command, Exec, IInv, ConnInv, ConnTypeOK, CutOnlyIfOver,
                  Over, Ended, Copying, Ends
    <3> QED
      BY <2>2, <3>1, Names DEF Command, Exec, Commanders, IInv, ConnInv,
                  TypeOK, GroupInv, FailureReported, NoOrphan
  <2>3. CASE CommandEnds
    <3>1. ConnInv'
      BY <2>3 DEF CommandEnds, CmdEnds, IInv, ConnInv, ConnTypeOK,
                  CutOnlyIfOver, Over, Ended, Copying, Ends
    <3> QED
      BY <2>3, <3>1, Names DEF CommandEnds, CmdEnds, IInv, ConnInv, TypeOK,
                  GroupInv, FailureReported, NoOrphan
  <2>4. ASSUME NEW m \in Members, Quit(m)
        PROVE  IInv'
    <3>1. caller # m /\ member[m] # "off"
      BY <2>4 DEF Quit, IInv, GroupInv
    <3>2. QuitError(m) = "canceled" => cancelled
      BY <2>4 DEF Quit, QuitError, CtxDone
    <3>3. QuitError(m) \in {"none", "canceled"}
      BY DEF QuitError
    <3> QED
      BY <2>4, <3>1, <3>2, <3>3, Returns DEF Quit
  <2>5. CASE RefreshFails
    <3>1. "block" \in Members /\ member["block"] # "off"
      BY <2>5 DEF RefreshFails, Members, Watchers
    <3>2. caller # "block"
      BY <2>5 DEF RefreshFails, Waits, IInv, GroupInv, TypeOK
    <3> QED
      BY <2>5, <3>1, <3>2, Returns DEF RefreshFails
  <2>6. CASE ServeFails \/ ServerClosed
    <3>1. caller # "http" /\ member["http"] # "off"
      BY <2>6, Names DEF ServeFails, ServerClosed, IInv, GroupInv
    <3> QED
      BY <2>6, <3>1, Names, Returns DEF ServeFails, ServerClosed
  <2>7. CASE Signal
    <3>1. ConnInv'
      BY <2>7, ConnStutters DEF Signal, IInv
    <3> QED
      BY <2>7, <3>1 DEF Signal, connVars, IInv, ConnInv, TypeOK, GroupInv,
                        FailureReported, NoOrphan
  <2> QED
    BY <2>1, <2>2, <2>3, <2>4, <2>5, <2>6, <2>7, Others, Exits DEF Running
<1> QED
  BY <1>1, <1>2

-----------------------------------------------------------------------------
THEOREM Invariance == Spec => []IInv
<1>1. Init => IInv
  BY Initially
<1>2. IInv /\ [Next]_vars => IInv'
  BY Inductive
<1> QED
  BY <1>1, <1>2, PTL DEF Spec

(* Every variable of the process and of the connection keeps its type. *)
THEOREM TypeCorrect == Spec => []TypeOK
<1>1. IInv => TypeOK
  BY DEF IInv
<1> QED
  BY <1>1, Invariance, PTL

(* proxy() closes the descriptors after both copies have ended. *)
THEOREM NoUseAfterClose == Spec => []ClosedAfterCopies
<1>1. IInv => ClosedAfterCopies
  BY DEF IInv, ConnInv, ClosedAfterCopies
<1> QED
  BY <1>1, Invariance, PTL

(* The watchdog of proxy() cuts no connection that is still wanted. *)
THEOREM NoEarlyCut == Spec => []CutOnlyIfOver
<1>1. IInv => CutOnlyIfOver
  BY DEF IInv, ConnInv
<1> QED
  BY <1>1, Invariance, PTL

(* run() returns an error unless a signal was received. *)
THEOREM ExitStatus == Spec => []FailureReported
<1>1. IInv => FailureReported
  BY DEF IInv
<1> QED
  BY <1>1, Invariance, PTL

(* run() returns after the command that the boot or a member of the group  *)
(* runs; only a panic, which does not wait for the group, leaves one.      *)
THEOREM CommandsAwaited == Spec => []NoOrphan
<1>1. IInv => NoOrphan
  BY DEF IInv
<1> QED
  BY <1>1, Invariance, PTL

-----------------------------------------------------------------------------
(* Why a connection that closes goes on: its watchdog is there from the    *)
(* dial to the end, has been woken when one copy is over, and has forced   *)
(* the deadlines of the ends it is past.                                   *)
CloseInv ==
    /\ proxy \in {"none", "dial"} => watchdog = "off"
    /\ proxy \in {"first", "second"} => watchdog # "off"
    /\ proxy \in {"first", "second"} /\ watchdog = "remote" => "local" \in cut
    /\ proxy \in {"first", "second"} /\ watchdog = "ended" => cut = Ends
    /\ proxy \in {"second", "ended"} => child

LEMMA CloseStep == IInv /\ CloseInv /\ [Next]_vars => CloseInv'
<1> SUFFICES ASSUME IInv, CloseInv, [Next]_vars PROVE CloseInv'
  OBVIOUS
<1>1. ASSUME UNCHANGED <<proxy, watchdog, cut, child>> PROVE CloseInv'
  BY <1>1 DEF CloseInv
<1> USE DEF CloseInv, IInv, ConnInv, ConnTypeOK
<1>2. CASE Accept
  BY <1>2 DEF Accept
<1>3. CASE Dialed
  BY <1>3 DEF Dialed
<1>4. CASE DialFails
  BY <1>4 DEF DialFails
<1>5. CASE FirstDone
  BY <1>5 DEF FirstDone, Cancel
<1>6. CASE SecondDone
  BY <1>6 DEF SecondDone
<1>7. CASE Close
  BY <1>7 DEF Close
<1>8. CASE Wake
  BY <1>8 DEF Wake, Ends
<1>9. CASE SetDeadline
  BY <1>9 DEF SetDeadline, NextDeadline, Ends
<1>10. CASE \E e \in Ends : Copy(e)
  BY <1>1, <1>10 DEF Copy, CopyReads, CopyWrites, CopyEnds
<1>11. CASE CloseListener \/ \E e \in Ends : PeerCloses(e)
  BY <1>1, <1>11 DEF CloseListener, PeerCloses
<1>12. CASE Connection
  BY <1>2, <1>3, <1>4, <1>5, <1>6, <1>7, <1>8, <1>9, <1>10, <1>11, <1>12
     DEF Connection, Proxying, Watchdog
<1>13. CASE CommandEnds \/ \E m \in Commanders : Command(m)
  BY <1>1, <1>13 DEF CommandEnds, CmdEnds, Command, Exec
<1>14. CASE UNCHANGED connVars
  BY <1>1, <1>14 DEF connVars
<1>15. CASE ConnLost
  BY <1>15 DEF ConnLost
<1>16. ASSUME Next, ~Connection, ~CommandEnds,
              ~ \E m \in Commanders : Command(m)
       PROVE  UNCHANGED connVars \/ ConnLost
  BY <1>16 DEF Next, Running, SchedulerBegins, PassBegins, PassEnds, Panics,
     Quit, RefreshFails, ServeFails, ServerClosed, Return, Booted, BootFails,
     Stop, ShutdownServer, StopTimesOut, Wait, Exit, Signal, Alone
<1>17. UNCHANGED vars => UNCHANGED connVars
  BY DEF vars
<1> QED
  BY <1>12, <1>13, <1>14, <1>15, <1>16, <1>17

(* A connection that has begun to close always has a goroutine that can go *)
(* on, whatever its peers do or do not do.                                 *)
THEOREM NoCircle == Spec => []ClosingGoesOn
<1>1. Init => CloseInv
  BY DEF Init, ConnInit, CloseInv, Ends
<1>2. IInv /\ CloseInv => ClosingGoesOn
  <2>0. SUFFICES ASSUME IInv, CloseInv, proxy # "none",
                        cancelled \/ proxy # "first" \/ Ended # {},
                        ~Released
                 PROVE  CanGoOn
    BY DEF ClosingGoesOn
  <2> USE <2>0 DEF IInv, ConnInv, ConnTypeOK
  <2>1. CASE proxy \in {"dial", "close"}
    BY <2>1 DEF CanGoOn
  <2>2. CASE proxy = "ended"
    <3>1. watchdog \in {"waiting"} \cup Ends
      BY <2>2 DEF Released
    <3> QED
      BY <2>2, <3>1 DEF CanGoOn, CloseInv, Done
  <2>3. ASSUME proxy \in {"first", "second"}, Done, NEW e \in Ends,
               copy[e] # "ended"
        PROVE  CanGoOn
    <3>1. CASE watchdog \in {"waiting"} \cup Ends
      BY <2>3, <3>1 DEF CanGoOn
    <3>2. CASE watchdog = "ended"
      <4>1. Copying(e)
        BY <2>3 DEF Copying
      <4>2. Broken(e)
        BY <2>3, <3>2 DEF CloseInv, Broken, BlockedOn, Other, Ends
      <4> QED
        BY <4>1, <4>2 DEF CanGoOn
    <3>3. watchdog # "off"
      BY <2>3 DEF CloseInv
    <3> QED
      BY <3>1, <3>2, <3>3
  <2>4. CASE proxy = "first"
    <3>1. CASE Ended # {}
      BY <2>4, <3>1 DEF CanGoOn
    <3>2. CASE Ended = {}
      <4>1. Done
        BY <2>0, <2>4, <3>2 DEF Done
      <4>2. copy["local"] # "ended" /\ "local" \in Ends
        BY <3>2 DEF Ended, Ends
      <4> QED
        BY <2>3, <2>4, <4>1, <4>2
    <3> QED
      BY <3>1, <3>2
  <2>5. CASE proxy = "second"
    <3>1. CASE Ended = Ends
      BY <2>5, <3>1 DEF CanGoOn, Awaited
    <3>2. CASE Ended # Ends
      <4>1. Done
        BY <2>5 DEF CloseInv, Done
      <4>2. PICK e \in Ends : copy[e] # "ended"
        BY <3>2 DEF Ended
      <4> QED
        BY <2>3, <2>5, <4>1, <4>2
    <3> QED
      BY <3>1, <3>2
  <2> QED
    BY <2>1, <2>2, <2>4, <2>5
<1> QED
  BY <1>1, <1>2, CloseStep, Invariance, PTL DEF Spec

-----------------------------------------------------------------------------
(* Why nobody holds up the shutdown: the group runs, only the scheduler    *)
(* begins late, and the server has been told.                              *)
StopInv ==
    /\ main \in {"serving", "stopping", "shutdown"} =>
          \A m \in Members :
              /\ member[m] # "off"
              /\ member[m] = "starting" => m = "scheduler"
              /\ m = "http" => member[m] # "busy"
    /\ main \in {"stopping", "shutdown"} => stopCtx # "none"
    /\ main = "shutdown" => inShutdown

LEMMA StopStep == IInv /\ StopInv /\ [Next]_vars => StopInv'
<1> SUFFICES ASSUME IInv, StopInv, [Next]_vars PROVE StopInv'
  OBVIOUS
<1> USE DEF StopInv
<1>1. ASSUME UNCHANGED <<main, member, stopCtx, inShutdown>> PROVE StopInv'
  BY <1>1
<1>2. CASE Booted
  BY <1>2 DEF Booted, Alone
<1>3. CASE \/ BootFails \/ Wait
           \/ \E m \in Members : Panics(m)
  BY <1>3 DEF BootFails, Wait, Panics, Exit
<1>4. ASSUME NEW m \in Members, NEW place \in {"idle", "busy", "ended"},
             member' = [member EXCEPT ![m] = place],
             m = "http" => place # "busy",
             UNCHANGED <<main, stopCtx, inShutdown>>
      PROVE  StopInv'
  BY <1>4 DEF IInv, TypeOK
<1>5. CASE SchedulerBegins
  BY <1>4, <1>5, Names DEF SchedulerBegins, Alone
<1>6. ASSUME NEW m \in Members, PassBegins(m) \/ PassEnds(m) \/ Quit(m)
      PROVE  StopInv'
  <2>1. CASE PassBegins(m)
    BY <1>4, <2>1 DEF PassBegins, Loops, Alone
  <2>2. CASE PassEnds(m)
    BY <1>4, <2>2 DEF PassEnds, Alone
  <2>3. CASE Quit(m)
    BY <1>4, <2>3 DEF Quit, Return
  <2> QED
    BY <1>6, <2>1, <2>2, <2>3
<1>7. CASE RefreshFails
  <2>1. "block" \in Members
    BY <1>7 DEF RefreshFails, Members, Watchers
  <2> QED
    BY <1>4, <1>7, <2>1 DEF RefreshFails, Return
<1>8. CASE ServeFails \/ ServerClosed
  BY <1>4, <1>8, Names DEF ServeFails, ServerClosed, Return
<1>9. CASE Stop
  BY <1>9 DEF Stop, Alone
<1>10. CASE ShutdownServer
  BY <1>10 DEF ShutdownServer, TellServer, Alone
<1>11. CASE StopTimesOut
  BY <1>11 DEF StopTimesOut, Alone
<1>12. CASE \/ Signal \/ CommandEnds \/ UNCHANGED vars
            \/ Connection /\ UNCHANGED <<cancelled, appVars>>
            \/ \E m \in Commanders : Command(m)
  BY <1>1, <1>12 DEF Signal, CommandEnds, Command, vars, appVars
<1> QED
  BY <1>2, <1>3, <1>5, <1>6, <1>7, <1>8, <1>9, <1>10, <1>11, <1>12
     DEF Next, Running

(* In the shutdown every member of the group that has not returned can go  *)
(* on, and only the scheduler may have to wait for the 30 seconds.         *)
THEOREM ShutdownGoesOn == Spec => []NobodyHeldUp
<1>1. Init => StopInv
  BY DEF Init, StopInv
<1>2. IInv /\ StopInv => NobodyHeldUp
  <2> SUFFICES ASSUME IInv, StopInv, main = "shutdown", NEW m \in Members
               PROVE  Free(m)
    BY DEF NobodyHeldUp
  <2>1. /\ member[m] \in {"starting", "idle", "busy", "ended"}
        /\ member[m] = "starting" => m = "scheduler"
        /\ m = "http" => member[m] # "busy"
        /\ stopCtx \in {"running", "done"} /\ inShutdown /\ cancelled
    BY DEF IInv, TypeOK, StopInv, GroupInv
  <2>2. CtxDone(m) \/ (m = "scheduler" /\ late /\ stopCtx = "running")
    BY <2>1 DEF CtxDone
  <2>3. CASE member[m] = "idle"
    BY <2>1, <2>2, <2>3 DEF Free, Loops
  <2>4. CASE member[m] = "busy"
    BY <2>2, <2>4 DEF Free, PassOver
  <2> QED
    BY <2>1, <2>3, <2>4 DEF Free
<1> QED
  BY <1>1, <1>2, StopStep, Invariance, PTL DEF Spec
=============================================================================
