---------------------------- MODULE AgentRunProofs ----------------------------
(***************************************************************************)
(* Proofs of AgentRun's safety properties, for any number of connections,  *)
(* any limit on concurrent handlers and any capacity of the pty.           *)
(*                                                                         *)
(* None of the properties is inductive: that a handler has an open master  *)
(* depends on how far Run has come, which decides the state of the server, *)
(* of the shell and of the copiers.  IInv states that for each stage.      *)
(***************************************************************************)
EXTENDS AgentRun, TLAPS

NoPtyYet    == {"validate", "clean", "open"}
ShellUp     == {"listen", "proxy", "notify", "wait"}
ShuttingDown == {"stop", "close", "closing", "closeMaster", "clearMaster", "join"}
NotServing  == {"validate", "clean", "open", "start", "listen", "returned"}

\* The pty and the shell at each stage of Run.
PtyStages ==
    /\ run \in NoPtyYet => shell = "none" /\ master = "none"
    /\ run = "start" => shell = "none"
    /\ run \in {"start", "stop", "close", "closing", "closeMaster"} \cup ShellUp =>
          master = "open" /\ aMaster
    /\ run \in ShellUp => shell \in {"running", "exited"}
    /\ run \in ShuttingDown => shell = "reaped"
    /\ run \in {"clearMaster", "join"} => master = "closed"
    /\ run = "join" => ~aMaster

\* The server at each stage: it accepts calls until it is closed, and a closed
\* server has none.
ServerStages ==
    /\ run = "closing" => phase = "closing"
    /\ run \in {"closeMaster", "clearMaster", "join"} => phase = "closed"
    /\ phase = "closed" => running = {}
    /\ run \in NotServing => running = {}

\* The copiers are started together and not before the server.
CopierStages ==
    /\ run \in {"validate", "clean", "open", "start", "listen", "proxy"} =>
          copyIn = "none" /\ copyOut = "none"
    /\ run = "returned" => (copyIn = "none" <=> copyOut = "none")

IInv == /\ TypeOK
        /\ PtyStages
        /\ ServerStages
        /\ CopierStages
        /\ NoShellLeftBehind
        /\ ReturnJoinsAll

-----------------------------------------------------------------------------

LEMMA InitIInv == Init => IInv
<1> SUFFICES ASSUME Init
             PROVE  IInv
    OBVIOUS
<1>1. /\ {slave, aMaster, notify, resized, eof} \subseteq BOOLEAN
      /\ sigCh \in [full : BOOLEAN, closed : BOOLEAN]
    BY Zenon DEF Init
<1>2. TypeOK
    BY <1>1, PtyAssumption DEF Init, Service!ServiceInit, TypeOK, RunPC
<1> QED
    BY <1>2 DEF Init, Service!ServiceInit, IInv, PtyStages, ServerStages, CopierStages,
                NoShellLeftBehind, ReturnJoinsAll, NoPtyYet, ShellUp, ShuttingDown, NotServing

\* Run's own steps.
LEMMA RunStepIInv == IInv /\ RunStep => IInv'
<1> SUFFICES ASSUME IInv, RunStep
             PROVE  IInv'
    OBVIOUS
<1> USE PtyAssumption DEF IInv, TypeOK, RunPC, PtyStages, ServerStages, CopierStages,
        NoShellLeftBehind, ReturnJoinsAll, NoPtyYet, ShellUp, ShuttingDown, NotServing,
        ptyVars, server, copiers, winchVars, ioVars
<1>1. CASE Validate
    BY <1>1 DEF Validate
<1>2. CASE CleanStaleSocket
    BY <1>2 DEF CleanStaleSocket
<1>3. CASE OpenPTY
    <2>1. aMaster' \in BOOLEAN /\ slave' \in BOOLEAN /\ (run' = "start" => aMaster')
        BY <1>3, Zenon DEF OpenPTY
    <2> QED
        BY <1>3, <2>1 DEF OpenPTY
<1>4. CASE StartShell
    <2>1. slave' \in BOOLEAN
        BY <1>4, Zenon DEF StartShell
    <2> QED
        BY <1>4, <2>1 DEF StartShell
<1>5. CASE Listen
    BY <1>5 DEF Listen
<1>6. CASE StartCopiers
    BY <1>6 DEF StartCopiers
<1>7. CASE Notify
    BY <1>7 DEF Notify
<1>8. CASE Wait
    BY <1>8 DEF Wait
<1>9. CASE StopSignals
    <2>1. notify' \in BOOLEAN /\ sigCh' \in [full : BOOLEAN, closed : BOOLEAN]
        BY <1>9, Zenon DEF StopSignals
    <2> QED
        BY <1>9, <2>1 DEF StopSignals
<1>10. CASE CloseServer
    BY <1>10 DEF CloseServer, Service!CloseListener
<1>11. CASE ServerClosed
    BY <1>11 DEF ServerClosed, Service!CloseReturns
<1>12. CASE CloseMaster
    BY <1>12 DEF CloseMaster
<1>13. CASE ClearMaster
    <2>1. aMaster' \in BOOLEAN /\ ~aMaster'
        BY <1>13, Zenon DEF ClearMaster
    <2> QED
        BY <1>13, <2>1 DEF ClearMaster
<1>14. CASE Join
    BY <1>14 DEF Join
<1> QED
    BY <1>1, <1>2, <1>3, <1>4, <1>5, <1>6, <1>7, <1>8, <1>9, <1>10, <1>11, <1>12, <1>13, <1>14 DEF RunStep

\* The calls of the handler function.
LEMMA HandlerIInv ==
    ASSUME NEW k \in Conn, IInv, TakeMaster(k) \/ HandlerStep(k)
    PROVE  IInv'
<1> USE PtyAssumption DEF IInv, TypeOK, RunPC, PtyStages, ServerStages, CopierStages,
        NoShellLeftBehind, ReturnJoinsAll, NoPtyYet, ShellUp, ShuttingDown, NotServing,
        ptyVars, server, copiers, winchVars, ioVars
<1>1. CASE TakeMaster(k)
    BY <1>1 DEF TakeMaster, Serving, Service!CallHandler
<1>2. CASE HandlerWrites(k)
    BY <1>2 DEF HandlerWrites, WriteMaster
<1>3. CASE HandlerEnds(k)
    BY <1>3 DEF HandlerEnds, Service!HandlerReturns
<1> QED
    BY <1>1, <1>2, <1>3 DEF HandlerStep

\* The copiers and the SIGWINCH goroutine.
LEMMA GoroutineIInv == IInv /\ (CopyInStep \/ CopyOutStep \/ WinchStep) => IInv'
<1> SUFFICES ASSUME IInv, (CopyInStep \/ CopyOutStep \/ WinchStep)
             PROVE  IInv'
    OBVIOUS
<1> USE PtyAssumption DEF IInv, TypeOK, RunPC, PtyStages, ServerStages, CopierStages,
        NoShellLeftBehind, ReturnJoinsAll, NoPtyYet, ShellUp, ShuttingDown, NotServing,
        ptyVars, server, copiers, winchVars, ioVars
<1>1. CASE CopyInReads
    BY <1>1 DEF CopyInReads
<1>2. CASE CopyInWrites
    BY <1>2 DEF CopyInWrites, WriteMaster
<1>3. CASE CopyOutReads
    BY <1>3 DEF CopyOutReads
<1>4. CASE CopyOutWrites
    BY <1>4 DEF CopyOutWrites
<1>5. CASE WinchReads
    <2>1. sigCh' \in [full : BOOLEAN, closed : BOOLEAN]
        BY <1>5, Zenon DEF WinchReads
    <2> QED
        BY <1>5, <2>1 DEF WinchReads
<1>6. CASE WinchSets
    BY <1>6 DEF WinchSets
<1>7. CASE WinchEnds
    BY <1>7 DEF WinchEnds
<1> QED
    BY <1>1, <1>2, <1>3, <1>4, <1>5, <1>6, <1>7 DEF CopyInStep, CopyOutStep, WinchStep

\* The user, the window and the shell.
LEMMA EnvironmentIInv == IInv /\ (Resize \/ Type \/ ShellReads \/ ShellPrints \/ ShellExits) => IInv'
<1> SUFFICES ASSUME IInv, (Resize \/ Type \/ ShellReads \/ ShellPrints \/ ShellExits)
             PROVE  IInv'
    OBVIOUS
<1> USE PtyAssumption DEF IInv, TypeOK, RunPC, PtyStages, ServerStages, CopierStages,
        NoShellLeftBehind, ReturnJoinsAll, NoPtyYet, ShellUp, ShuttingDown, NotServing,
        ptyVars, server, copiers, winchVars, ioVars
<1>1. CASE Resize
    BY <1>1 DEF Resize, Deliver
<1>2. CASE Type
    <2>1. eof' \in BOOLEAN
        BY <1>2, Zenon DEF Type
    <2> QED
        BY <1>2, <2>1 DEF Type
<1>3. CASE ShellReads
    BY <1>3 DEF ShellReads
<1>4. CASE ShellPrints
    BY <1>4 DEF ShellPrints
<1>5. CASE ShellExits
    BY <1>5 DEF ShellExits
<1> QED
    BY <1>1, <1>2, <1>3, <1>4, <1>5

LEMMA NextIInv == IInv /\ [Next]_vars => IInv'
<1> SUFFICES ASSUME IInv, [Next]_vars
             PROVE  IInv'
    OBVIOUS
<1>1. CASE Next
    BY <1>1, RunStepIInv, HandlerIInv, GoroutineIInv, EnvironmentIInv DEF Next
<1>2. CASE UNCHANGED vars
    BY <1>2
       DEF vars, ptyVars, server, copiers, winchVars, ioVars, IInv, TypeOK, PtyStages,
           ServerStages, CopierStages, NoShellLeftBehind, ReturnJoinsAll
<1> QED
    BY <1>1, <1>2

LEMMA IInvAlways == Spec => []IInv
<1>1. Init => IInv
    BY InitIInv
<1>2. IInv /\ [Next]_vars => IInv'
    BY NextIInv
<1> QED
    BY <1>1, <1>2, PTL DEF Spec

\* The state of Agent.Run and its goroutines keeps its types; in particular
\* neither the pty's buffers nor stdin are read below zero or overfilled.
THEOREM TypeCorrect == Spec => []TypeOK
<1>1. IInv => TypeOK
    BY DEF IInv
<1> QED
    BY <1>1, IInvAlways, PTL

\* A send-keys handler always has an open master: Run closes it (agent.go:272)
\* only after server.Close has waited for the last call.
THEOREM HandlersKeepMaster == Spec => []HandlersHaveMaster
<1>1. IInv => HandlersHaveMaster
    BY DEF IInv, TypeOK, RunPC, PtyStages, ServerStages, HandlersHaveMaster, NoPtyYet, ShellUp,
           NotServing
<1> QED
    BY <1>1, IInvAlways, PTL

\* On every path Run returns by, the shell was never started or has been waited
\* for.
THEOREM ShellIsReaped == Spec => []NoShellLeftBehind
<1>1. IInv => NoShellLeftBehind
    BY DEF IInv
<1> QED
    BY <1>1, IInvAlways, PTL

\* When Run returns after it has served a shell, the copiers have ended, the
\* server is closed, and so is the master.
THEOREM RunJoinsAll == Spec => []ReturnJoinsAll
<1>1. IInv => ReturnJoinsAll
    BY DEF IInv
<1> QED
    BY <1>1, IInvAlways, PTL

-----------------------------------------------------------------------------
(* Run and the server *)

\* The calls the server counts are those whose handler function is under way.
CallsCounted ==
    \A k \in Conn : /\ k \in running <=> handler[k] \in {"write", "end"}
                    /\ k \in handled <=> handler[k] # "none"

\* Whoever is about to write has a master to write to.
WritersHaveMaster == \A k \in Conn : handler[k] = "write" => master = "open"

LEMMA CallsCountedStep == TypeOK /\ CallsCounted /\ [Next]_vars => CallsCounted'
<1> SUFFICES ASSUME TypeOK, CallsCounted, [Next]_vars
             PROVE  CallsCounted'
    OBVIOUS
<1>1. ASSUME UNCHANGED <<running, handled, handler>>
      PROVE  CallsCounted'
    BY <1>1 DEF CallsCounted
<1>2. CASE RunStep \/ UNCHANGED vars
    BY <1>1, <1>2
       DEF RunStep, Validate, CleanStaleSocket, OpenPTY, StartShell, Listen, StartCopiers,
           Notify, Wait, StopSignals, CloseServer, ServerClosed, CloseMaster, ClearMaster,
           Join, server, vars, Service!CloseListener, Service!CloseReturns
<1>3. CASE CopyInStep \/ CopyOutStep \/ WinchStep
    BY <1>1, <1>3
       DEF CopyInStep, CopyInReads, CopyInWrites, CopyOutStep, CopyOutReads, CopyOutWrites,
           WinchStep, WinchReads, WinchSets, WinchEnds, server
<1>4. CASE Resize \/ Type \/ ShellReads \/ ShellPrints \/ ShellExits
    BY <1>1, <1>4 DEF Resize, Type, ShellReads, ShellPrints, ShellExits, server
<1>5. ASSUME NEW k \in Conn, TakeMaster(k)
      PROVE  CallsCounted'
    BY <1>5 DEF TakeMaster, Service!CallHandler, CallsCounted, TypeOK
<1>6. ASSUME NEW k \in Conn, HandlerWrites(k)
      PROVE  CallsCounted'
    BY <1>6 DEF HandlerWrites, CallsCounted, TypeOK
<1>7. ASSUME NEW k \in Conn, HandlerEnds(k)
      PROVE  CallsCounted'
    BY <1>7 DEF HandlerEnds, Service!HandlerReturns, CallsCounted, TypeOK
<1> QED
    BY <1>2, <1>3, <1>4, <1>5, <1>6, <1>7 DEF Next, HandlerStep

\* A handler function that is about to write has an open master, although it took
\* the field's value before (agent.go:216) and writes without the lock.
THEOREM WritesMeetOpenMaster == Spec => []WritersHaveMaster
<1>1. Init => CallsCounted
    BY DEF Init, Service!ServiceInit, CallsCounted
<1>2. IInv => TypeOK
    BY DEF IInv
<1>3. HandlersHaveMaster /\ CallsCounted => WritersHaveMaster
    BY DEF HandlersHaveMaster, CallsCounted, WritersHaveMaster
<1> QED
    BY <1>1, <1>2, <1>3, CallsCountedStep, HandlersKeepMaster, IInvAlways, PTL DEF Spec

\* Run and its goroutines use the server only as HandlerService allows, which
\* AgentServer implements: what is shown of Run holds with the server of
\* protocol.go in its place.
THEOREM RunUsesService == Spec => Service!ServiceSpec
<1>1. Init => Service!ServiceInit
    BY DEF Init
<1>2. [Next]_vars => [Service!ServiceNext]_(Service!serviceVars)
    <2> SUFFICES ASSUME [Next]_vars
                 PROVE  Service!ServiceNext \/ UNCHANGED <<phase, running, handled>>
        BY DEF Service!serviceVars
    <2>1. CASE CloseServer \/ ServerClosed
        BY <2>1 DEF CloseServer, ServerClosed, Service!ServiceNext
    <2>2. CASE RunStep /\ ~CloseServer /\ ~ServerClosed
        BY <2>2
           DEF RunStep, Validate, CleanStaleSocket, OpenPTY, StartShell, Listen, StartCopiers,
               Notify, Wait, StopSignals, CloseMaster, ClearMaster, Join, server
    <2>3. CASE CopyInStep \/ CopyOutStep \/ WinchStep
        BY <2>3
           DEF CopyInStep, CopyInReads, CopyInWrites, CopyOutStep, CopyOutReads, CopyOutWrites,
               WinchStep, WinchReads, WinchSets, WinchEnds, server
    <2>4. CASE Resize \/ Type \/ ShellReads \/ ShellPrints \/ ShellExits
        BY <2>4 DEF Resize, Type, ShellReads, ShellPrints, ShellExits, server
    <2>5. CASE \E k \in Conn : TakeMaster(k) \/ HandlerStep(k)
        BY <2>5
           DEF TakeMaster, HandlerStep, HandlerWrites, HandlerEnds, Service!ServiceNext
    <2>6. CASE UNCHANGED vars
        BY <2>6 DEF vars, server
    <2> QED
        BY <2>1, <2>2, <2>3, <2>4, <2>5, <2>6 DEF Next
<1> QED
    BY <1>1, <1>2, PTL DEF Spec, Service!ServiceSpec

===============================================================================
