------------------------------- MODULE AgentRun -------------------------------
(***************************************************************************)
(* Agent.Run of internal/agent/agent.go: the life of a shimux-agent, from  *)
(* opening the pseudo-terminal to the shutdown that follows the shell's    *)
(* exit, with the goroutines it starts: the two I/O copiers, the SIGWINCH  *)
(* forwarder and the send-keys handlers.                                   *)
(*                                                                         *)
(* The socket server is HandlerService, which AgentServer implements; this *)
(* module says what the handler function of line 215 does and when Run     *)
(* closes the server.                                                      *)
(*                                                                         *)
(* The user, the terminal window, the shell and the kernel's pty are the   *)
(* environment.  Chunks of text are counted, not told apart.               *)
(***************************************************************************)
EXTENDS Naturals, FiniteSets

CONSTANTS Conn, maxConcurrent,  \* as in HandlerService
          Size,                 \* window sizes
          PtyRoom,              \* chunks each direction of the pty holds
          MaxTyped              \* bound: chunks typed and not yet read

ASSUME PtyAssumption == PtyRoom \in Nat \ {0} /\ MaxTyped \in Nat

VARIABLES
    run,       \* where Run is
    shell,     \* "none", "running", "exited" or "reaped" (Wait has returned)
    master,    \* the master's file: "none", "open" or "closed"
    slave,     \* Run's own descriptor of the slave is open
    aMaster,   \* the field a.master is set
    phase, running, handled,  \* the server, see HandlerService
    handler,   \* where each call of the handler function is
    copyIn,    \* the stdin-to-master copier
    copyOut,   \* the master-to-stdout copier
    winch,     \* the SIGWINCH goroutine
    sample,    \* the size it has read and not yet applied
    sigCh,     \* [full: a signal is buffered, closed: close(sigCh) has run]
    notify,    \* signal.Notify is in force
    resized,   \* history: the window was resized while notify was in force
    outer,     \* size of the terminal
    inner,     \* size of the pty
    typed, eof,   \* what is to be read from stdin
    inbuf,     \* chunks written to the master that the shell has not read
    outbuf     \* chunks of output that nobody has read from the master

server == <<phase, running, handled, handler>>
winchVars == <<winch, sample, sigCh, notify, resized, outer, inner>>
copiers == <<copyIn, copyOut>>
ptyVars == <<master, slave, aMaster>>
ioVars  == <<typed, eof, inbuf, outbuf>>
vars == <<run, shell, ptyVars, server, copiers, winchVars, ioVars>>

Service == INSTANCE HandlerService

-----------------------------------------------------------------------------

RunPC == {"validate", "clean", "open", "start", "listen", "proxy", "notify", "wait",
          "stop", "close", "closing", "closeMaster", "clearMaster", "join", "returned"}

\* The server exists from the end of "listen" on.
Serving == run \in {"proxy", "notify", "wait", "stop", "close", "closing",
                    "closeMaster", "clearMaster", "join"}

\* Somebody holds the slave: a write to a full master waits for it, and a read
\* from an empty one.
SlaveOpen == slave \/ shell = "running"

NoSize == 0

Init ==
    /\ run = "validate"
    /\ shell = "none"
    /\ master = "none"
    /\ slave = FALSE
    /\ aMaster = FALSE
    /\ Service!ServiceInit
    /\ handler = [k \in Conn |-> "none"]
    /\ copyIn = "none"
    /\ copyOut = "none"
    /\ winch = "none"
    /\ sample = NoSize
    /\ sigCh = [full |-> FALSE, closed |-> FALSE]
    /\ notify = FALSE
    /\ resized = FALSE
    /\ outer \in Size
    /\ inner = NoSize
    /\ typed = 0
    /\ eof = FALSE
    /\ inbuf = 0
    /\ outbuf = 0

-----------------------------------------------------------------------------
(* Run, up to the point where the shell is up and served *)

\* validateConfig and CleanStaleSocket, each with its early return: a missing
\* field, a socket in use or a stale one that cannot be removed.
Validate ==
    /\ run = "validate"
    /\ run' \in {"clean", "returned"}
    /\ UNCHANGED <<shell, ptyVars, server, copiers, winchVars, ioVars>>

CleanStaleSocket ==
    /\ run = "clean"
    /\ run' \in {"open", "returned"}
    /\ UNCHANGED <<shell, ptyVars, server, copiers, winchVars, ioVars>>

\* Open closes what it had opened when it fails.  The pty gets the size the
\* window has at this moment.
OpenPTY ==
    /\ run = "open"
    /\ \/ /\ run' = "start"
          /\ master' = "open" /\ slave' = TRUE /\ aMaster' = TRUE
          /\ inner' = outer
       \/ /\ run' = "returned"
          /\ UNCHANGED <<ptyVars, inner>>
    /\ UNCHANGED <<shell, server, copiers, winch, sample, sigCh, notify, resized, outer, ioVars>>

\* Mutant of StartShell: Run keeps its descriptor of the slave.
StartShellKeepsSlave ==
    /\ run = "start"
    /\ run' = "listen"
    /\ shell' = "running"
    /\ UNCHANGED <<ptyVars, server, copiers, winchVars, ioVars>>

\* shell.Start, then Run closes its descriptor of the slave.  When Start fails
\* Run returns and both ends of the pty stay open.
StartShell ==
    /\ run = "start"
    /\ \/ run' = "listen" /\ shell' = "running" /\ slave' = FALSE
       \/ run' = "returned" /\ UNCHANGED <<shell, slave>>
    /\ UNCHANGED <<master, aMaster, server, copiers, winchVars, ioVars>>

\* Mutant of Listen: a failure returns at once.
ListenLeavesShell ==
    /\ run = "listen"
    /\ run' \in {"proxy", "returned"}
    /\ UNCHANGED <<shell, ptyVars, server, copiers, winchVars, ioVars>>

\* ListenAndServe; when it fails the shell is killed and waited for.
Listen ==
    /\ run = "listen"
    /\ \/ run' = "proxy" /\ UNCHANGED shell
       \/ run' = "returned" /\ shell' = "reaped"
    /\ UNCHANGED <<ptyVars, server, copiers, winchVars, ioVars>>

StartCopiers ==
    /\ run = "proxy"
    /\ run' = "notify"
    /\ copyIn' = "read"
    /\ copyOut' = "read"
    /\ UNCHANGED <<shell, ptyVars, server, winchVars, ioVars>>

Notify ==
    /\ run = "notify"
    /\ run' = "wait"
    /\ notify' = TRUE
    /\ winch' = "recv"
    /\ UNCHANGED <<shell, ptyVars, server, copiers, sample, sigCh, resized, outer, inner, ioVars>>

-----------------------------------------------------------------------------
(* Run, from the shell's exit on *)

Wait ==
    /\ run = "wait"
    /\ shell = "exited"
    /\ shell' = "reaped"
    /\ run' = "stop"
    /\ UNCHANGED <<ptyVars, server, copiers, winchVars, ioVars>>

\* signal.Stop and close(sigCh).  The goroutine still gets a buffered signal.
StopSignals ==
    /\ run = "stop"
    /\ run' = "close"
    /\ notify' = FALSE
    /\ sigCh' = [sigCh EXCEPT !.closed = TRUE]
    /\ UNCHANGED <<shell, ptyVars, server, copiers, winch, sample, resized, outer, inner, ioVars>>

\* server.Close: the listener is closed, then the handlers are waited for.
CloseServer ==
    /\ run = "close"
    /\ run' = "closing"
    /\ Service!CloseListener
    /\ UNCHANGED <<shell, ptyVars, handler, copiers, winchVars, ioVars>>

\* Mutant of ServerClosed: the master is closed without waiting for Close.
ServerNotAwaited ==
    /\ run = "closing"
    /\ run' = "closeMaster"
    /\ UNCHANGED <<shell, ptyVars, server, copiers, winchVars, ioVars>>

ServerClosed ==
    /\ run = "closing"
    /\ run' = "closeMaster"
    /\ Service!CloseReturns
    /\ UNCHANGED <<shell, ptyVars, handler, copiers, winchVars, ioVars>>

\* Mutant of CloseMaster: only the field is cleared.
CloseMasterForgotten ==
    /\ run = "closeMaster"
    /\ run' = "clearMaster"
    /\ UNCHANGED <<shell, ptyVars, server, copiers, winchVars, ioVars>>

\* Output that is still in the pty is gone.
CloseMaster ==
    /\ run = "closeMaster"
    /\ run' = "clearMaster"
    /\ master' = "closed"
    /\ UNCHANGED <<shell, slave, aMaster, server, copiers, winchVars, ioVars>>

ClearMaster ==
    /\ run = "clearMaster"
    /\ run' = "join"
    /\ aMaster' = FALSE
    /\ UNCHANGED <<shell, master, slave, server, copiers, winchVars, ioVars>>

\* Mutant of Join: wg counts one copier only.
JoinOne ==
    /\ run = "join"
    /\ copyOut = "done"
    /\ run' = "returned"
    /\ UNCHANGED <<shell, ptyVars, server, copiers, winchVars, ioVars>>

\* wg.Wait.  The deferred second server.Close finds everything closed.
Join ==
    /\ run = "join"
    /\ copyIn = "done" /\ copyOut = "done"
    /\ run' = "returned"
    /\ UNCHANGED <<shell, ptyVars, server, copiers, winchVars, ioVars>>

-----------------------------------------------------------------------------
(* The handler function passed to ListenAndServe, lines 215-224 *)

\* a.master is read under a.mu; with nil the call is over.
TakeMaster(k) ==
    /\ Serving
    /\ Service!CallHandler(k)
    /\ handler' = [handler EXCEPT ![k] = IF aMaster THEN "write" ELSE "end"]
    /\ UNCHANGED <<run, shell, ptyVars, copiers, winchVars, ioVars>>

\* What m.Write may do: put the chunk in the pty, fail because the file is
\* closed or nobody holds the slave, or wait (no disjunct holds).
WriteMaster ==
    \/ master = "open" /\ inbuf < PtyRoom /\ inbuf' = inbuf + 1
    \/ (master = "closed" \/ ~SlaveOpen) /\ UNCHANGED inbuf

\* m.Write runs without the lock.
HandlerWrites(k) ==
    /\ handler[k] = "write"
    /\ WriteMaster
    /\ handler' = [handler EXCEPT ![k] = "end"]
    /\ UNCHANGED <<run, shell, ptyVars, phase, running, handled, copiers, winchVars,
                   typed, eof, outbuf>>

HandlerEnds(k) ==
    /\ handler[k] = "end"
    /\ Service!HandlerReturns(k)
    /\ handler' = [handler EXCEPT ![k] = "done"]
    /\ UNCHANGED <<run, shell, ptyVars, copiers, winchVars, ioVars>>

-----------------------------------------------------------------------------
(* The copiers *)

\* Mutant of CopyInReads: the end of stdin is taken for a chunk.
CopyInReadsPastEOF ==
    /\ copyIn = "read"
    /\ typed > 0 \/ eof
    /\ typed' = typed - 1
    /\ copyIn' = "write"
    /\ UNCHANGED <<run, shell, ptyVars, server, copyOut, winchVars, eof, inbuf, outbuf>>

\* io.Copy(pty.Master, os.Stdin) waits in Read until there is a chunk or EOF.
CopyInReads ==
    /\ copyIn = "read"
    /\ \/ typed > 0 /\ typed' = typed - 1 /\ copyIn' = "write"
       \/ typed = 0 /\ eof /\ copyIn' = "done" /\ UNCHANGED typed
    /\ UNCHANGED <<run, shell, ptyVars, server, copyOut, winchVars, eof, inbuf, outbuf>>

CopyInWrites ==
    /\ copyIn = "write"
    /\ WriteMaster
    /\ copyIn' = IF inbuf' = inbuf THEN "done" ELSE "read"
    /\ UNCHANGED <<run, shell, ptyVars, server, copyOut, winchVars, typed, eof, outbuf>>

\* io.Copy(os.Stdout, pty.Master): a closed master, or an empty one whose slave
\* nobody holds, ends it.
CopyOutReads ==
    /\ copyOut = "read"
    /\ \/ master = "open" /\ outbuf > 0 /\ outbuf' = outbuf - 1 /\ copyOut' = "write"
       \/ /\ master = "closed" \/ (outbuf = 0 /\ ~SlaveOpen)
          /\ copyOut' = "done" /\ UNCHANGED outbuf
    /\ UNCHANGED <<run, shell, ptyVars, server, copyIn, winchVars, typed, eof, inbuf>>

CopyOutWrites ==
    /\ copyOut = "write"
    /\ copyOut' = "read"
    /\ UNCHANGED <<run, shell, ptyVars, server, copyIn, winchVars, ioVars>>

-----------------------------------------------------------------------------
(* SIGWINCH *)

\* syncWindowSize, first half: the size the window has now.
WinchReads ==
    /\ winch = "recv"
    /\ sigCh.full
    /\ sigCh' = [sigCh EXCEPT !.full = FALSE]
    /\ winch' = "set"
    /\ sample' = outer
    /\ UNCHANGED <<run, shell, ptyVars, server, copiers, notify, resized, outer, inner, ioVars>>

\* Second half: on a closed master the ioctl fails and is ignored.
WinchSets ==
    /\ winch = "set"
    /\ winch' = "recv"
    /\ inner' = IF master = "open" THEN sample ELSE inner
    /\ sample' = NoSize
    /\ UNCHANGED <<run, shell, ptyVars, server, copiers, sigCh, notify, resized, outer, ioVars>>

WinchEnds ==
    /\ winch = "recv"
    /\ sigCh.closed /\ ~sigCh.full
    /\ winch' = "done"
    /\ UNCHANGED <<run, shell, ptyVars, server, copiers, sample, sigCh, notify, resized,
                   outer, inner, ioVars>>

-----------------------------------------------------------------------------
(* The environment, while the process is there *)

\* Mutant of Deliver: the channel has no buffer, so a signal is dropped while
\* the goroutine is busy.
DeliverUnbuffered ==
    sigCh' = [sigCh EXCEPT !.full = @ \/ (notify /\ winch = "recv")]

\* The runtime puts a signal in sigCh, or drops it when one is buffered.
Deliver == sigCh' = [sigCh EXCEPT !.full = @ \/ notify]

\* The window changes its size.
Resize ==
    /\ run # "returned"
    /\ outer' \in Size \ {outer}
    /\ Deliver
    /\ resized' = (resized \/ notify)
    /\ UNCHANGED <<run, shell, ptyVars, server, copiers, winch, sample, notify, inner, ioVars>>

\* The user types, or closes stdin.
Type ==
    /\ run # "returned"
    /\ ~eof
    /\ \/ typed < MaxTyped /\ typed' = typed + 1 /\ UNCHANGED eof
       \/ eof' = TRUE /\ UNCHANGED typed
    /\ UNCHANGED <<run, shell, ptyVars, server, copiers, winchVars, inbuf, outbuf>>

ShellReads ==
    /\ shell = "running"
    /\ inbuf > 0
    /\ inbuf' = inbuf - 1
    /\ UNCHANGED <<run, shell, ptyVars, server, copiers, winchVars, typed, eof, outbuf>>

ShellPrints ==
    /\ shell = "running"
    /\ outbuf < PtyRoom
    /\ outbuf' = outbuf + 1
    /\ UNCHANGED <<run, shell, ptyVars, server, copiers, winchVars, typed, eof, inbuf>>

\* On its own, or killed because ctx is done.
ShellExits ==
    /\ shell = "running"
    /\ shell' = "exited"
    /\ UNCHANGED <<run, ptyVars, server, copiers, winchVars, ioVars>>

-----------------------------------------------------------------------------

RunStep == \/ Validate \/ CleanStaleSocket \/ OpenPTY \/ StartShell \/ Listen
           \/ StartCopiers \/ Notify \/ Wait \/ StopSignals \/ CloseServer
           \/ ServerClosed \/ CloseMaster \/ ClearMaster \/ Join

HandlerStep(k) == HandlerWrites(k) \/ HandlerEnds(k)
CopyInStep     == CopyInReads \/ CopyInWrites
CopyOutStep    == CopyOutReads \/ CopyOutWrites
WinchStep      == WinchReads \/ WinchSets \/ WinchEnds

Next ==
    \/ RunStep
    \/ \E k \in Conn : TakeMaster(k) \/ HandlerStep(k)
    \/ CopyInStep
    \/ CopyOutStep
    \/ WinchStep
    \/ Resize
    \/ Type
    \/ ShellReads
    \/ ShellPrints
    \/ ShellExits

\* The goroutines run when they can.  Nothing is assumed of the user, the
\* window, the shell and the clients.
Fairness ==
    /\ WF_vars(RunStep)
    /\ \A k \in Conn : WF_vars(HandlerStep(k))
    /\ WF_vars(CopyInStep)
    /\ WF_vars(CopyOutStep)
    /\ WF_vars(WinchStep)

Spec == Init /\ [][Next]_vars /\ Fairness

-----------------------------------------------------------------------------
(* Properties *)

TypeOK ==
    /\ run \in RunPC
    /\ shell \in {"none", "running", "exited", "reaped"}
    /\ master \in {"none", "open", "closed"}
    /\ slave \in BOOLEAN
    /\ aMaster \in BOOLEAN
    /\ phase \in {"open", "closing", "closed"}
    /\ running \subseteq Conn
    /\ handled \subseteq Conn
    /\ handler \in [Conn -> {"none", "write", "end", "done"}]
    /\ copyIn \in {"none", "read", "write", "done"}
    /\ copyOut \in {"none", "read", "write", "done"}
    /\ winch \in {"none", "recv", "set", "done"}
    /\ sample \in Size \cup {NoSize}
    /\ sigCh \in [full : BOOLEAN, closed : BOOLEAN]
    /\ notify \in BOOLEAN
    /\ resized \in BOOLEAN
    /\ outer \in Size
    /\ inner \in Size \cup {NoSize}
    /\ typed \in 0..MaxTyped
    /\ eof \in BOOLEAN
    /\ inbuf \in 0..PtyRoom
    /\ outbuf \in 0..PtyRoom

\* A handler call holds a master that is open, although it writes after it has
\* released a.mu: Run closes the master only when Close has waited for the
\* last call.
HandlersHaveMaster == running # {} => master = "open" /\ aMaster

\* Whatever path Run returned by, it has left no shell behind that nobody
\* waits for.
NoShellLeftBehind == run = "returned" => shell \in {"none", "reaped"}

\* When Run returns after a shell has been served, its copiers have ended, the
\* server is closed and a.master is cleared.
ReturnJoinsAll ==
    run = "returned" /\ copyIn # "none" =>
        /\ copyIn = "done" /\ copyOut = "done"
        /\ phase = "closed" /\ running = {}
        /\ master = "closed" /\ ~aMaster

\* The shell's exit always leads to a closed socket and a closed master, even
\* when a handler was blocked writing to a shell that had stopped reading.
ExitStopsService ==
    shell = "exited" ~> \/ phase = "closed" /\ master = "closed"
                        \/ run = "returned"  \* Listen has failed

\* Run, when it waits for its copiers, returns as soon as stdin has something
\* to read or ends.
StdinReleasesRun ==
    run = "join" /\ (typed > 0 \/ eof) ~> run = "returned"

\* A resize that comes after signal.Notify reaches the pty, however many
\* signals are merged in the one-place channel.
ResizesReachPty ==
    \A s \in Size : <>[](run = "wait" /\ resized /\ outer = s) => <>[](inner = s)

\* "Even if the Read on stdin is blocked ... it ends safely": Run returns when
\* the shell has exited.
RunReturnsAfterShell == shell = "exited" ~> run = "returned"

\* wg.Wait "guarantees the flush of the output": when Run returns, everything
\* the shell printed has been copied to stdout.
OutputFlushed == run = "returned" /\ copyOut = "done" => outbuf = 0

================================================================================
