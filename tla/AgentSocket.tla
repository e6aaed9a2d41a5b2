------------------------------ MODULE AgentSocket ------------------------------
(***************************************************************************)
(* Several shimux-agent processes on one socket path: CleanStaleSocket and *)
(* the opening and closing of the listener in internal/agent/protocol.go,  *)
(* in the order Run (internal/agent/agent.go) calls them.  Every agent     *)
(* below one session has the same SHIMUX_PANE_ID, hence the same path.     *)
(*                                                                         *)
(* A socket in the file system is named after the process that bound it:   *)
(* it stays when the process dies.  Go's net.Listen binds and then listens,*)
(* and its UnixListener.Close unlinks the path, whatever it names by then, *)
(* before it closes the descriptor.  What the server does with connections *)
(* is AgentServer's subject.                                               *)
(***************************************************************************)
EXTENDS Naturals, FiniteSets

CONSTANTS Agents,    \* the processes
          NoSocket   \* nothing at the path

ASSUME AgentsAssumption == NoSocket \notin Agents

VARIABLES
    pc,     \* where each agent is
    path,   \* the agent whose socket the path names, dead or alive
    raced,  \* history: two starts overlapped, or a live agent's queue was full
    alone   \* history: those no other agent was alive with since they started

vars == <<pc, path, raced, alone>>

-----------------------------------------------------------------------------
(* Types and initial state *)

Starting == {"dial", "remove", "setup", "listen", "bound"}
Alive    == Starting \cup {"serving", "unlinked"}
PC       == Alive \cup {"new", "refused", "gone"}

\* Connections to these are taken, if only into the queue.
Listening == {"serving", "unlinked"}

Init ==
    /\ pc = [a \in Agents |-> "new"]
    /\ path = NoSocket
    /\ raced = FALSE
    /\ alone = {}

-----------------------------------------------------------------------------
(* CleanStaleSocket *)

\* Run begins with os.Stat.
Stat(a) ==
    /\ pc[a] = "new"
    /\ pc' = [pc EXCEPT ![a] = IF path = NoSocket THEN "setup" ELSE "dial"]
    /\ raced' = (raced \/ \E b \in Agents : pc[b] \in Starting)
    /\ alone' = IF \E b \in Agents : pc[b] \in Alive THEN {} ELSE {a}
    /\ UNCHANGED path

\* Mutant of DialTimeout: an existing socket is taken for a stale one.
DialTimeoutSkipped(a) ==
    /\ pc[a] = "dial"
    /\ pc' = [pc EXCEPT ![a] = "remove"]
    /\ UNCHANGED <<path, raced, alone>>

\* The connection is made: ErrSocketInUse.  Or it is not, because the path is gone,
\* nobody listens (any more, or yet), or the queue of a live agent is full.
DialTimeout(a) ==
    /\ pc[a] = "dial"
    /\ LET live == path \in {b \in Agents : pc[b] \in Listening}
       IN  \/ /\ live
              /\ pc' = [pc EXCEPT ![a] = "refused"]
              /\ UNCHANGED raced
           \/ /\ pc' = [pc EXCEPT ![a] = "remove"]
              /\ raced' = (raced \/ live)
    /\ UNCHANGED <<path, alone>>

\* Mutant of Remove: waits for a path to remove.
RemoveMustSucceed(a) ==
    /\ pc[a] = "remove"
    /\ path # NoSocket
    /\ path' = NoSocket
    /\ pc' = [pc EXCEPT ![a] = "setup"]
    /\ UNCHANGED <<raced, alone>>

\* Mutant of Remove: the path stays.
RemoveForgotten(a) ==
    /\ pc[a] = "remove"
    /\ pc' = [pc EXCEPT ![a] = "setup"]
    /\ UNCHANGED <<path, raced, alone>>

\* A path that does not exist any more is no error; other errors end Run.
Remove(a) ==
    /\ pc[a] = "remove"
    /\ \/ path' = NoSocket /\ pc' = [pc EXCEPT ![a] = "setup"]
       \/ path # NoSocket /\ pc' = [pc EXCEPT ![a] = "gone"] /\ UNCHANGED path
    /\ UNCHANGED <<raced, alone>>

-----------------------------------------------------------------------------
(* Between the check and the listener, and the listener *)

\* Run opens the pty and starts the shell, or returns.
Setup(a) ==
    /\ pc[a] = "setup"
    /\ \E next \in {"listen", "gone"} : pc' = [pc EXCEPT ![a] = next]
    /\ UNCHANGED <<path, raced, alone>>

\* bind(2): EADDRINUSE when the path exists, whoever made it.
Bind(a) ==
    /\ pc[a] = "listen"
    /\ \/ /\ path = NoSocket
          /\ path' = a
          /\ pc' = [pc EXCEPT ![a] = "bound"]
       \/ /\ path # NoSocket
          /\ pc' = [pc EXCEPT ![a] = "refused"]
          /\ UNCHANGED path
    /\ UNCHANGED <<raced, alone>>

\* The directory cannot be made, or the path is too long.
ListenFails(a) ==
    /\ pc[a] = "listen"
    /\ pc' = [pc EXCEPT ![a] = "gone"]
    /\ UNCHANGED <<path, raced, alone>>

Listen(a) ==
    /\ pc[a] = "bound"
    /\ pc' = [pc EXCEPT ![a] = "serving"]
    /\ UNCHANGED <<path, raced, alone>>

\* The shell has exited: Server.Close, up to the unlink.
CloseUnlinks(a) ==
    /\ pc[a] = "serving"
    /\ path' = NoSocket
    /\ pc' = [pc EXCEPT ![a] = "unlinked"]
    /\ UNCHANGED <<raced, alone>>

CloseDescriptor(a) ==
    /\ pc[a] = "unlinked"
    /\ pc' = [pc EXCEPT ![a] = "gone"]
    /\ UNCHANGED <<path, raced, alone>>

-----------------------------------------------------------------------------
(* Faults and new processes *)

\* The process dies: the path stays.
Crash(a) ==
    /\ pc[a] \in Alive
    /\ pc' = [pc EXCEPT ![a] = "gone"]
    /\ UNCHANGED <<path, raced, alone>>

\* A process of the same name, once nothing is left of the old one.
Renew(a) ==
    /\ pc[a] \in {"gone", "refused"}
    /\ path # a
    /\ pc' = [pc EXCEPT ![a] = "new"]
    /\ UNCHANGED <<path, raced, alone>>

-----------------------------------------------------------------------------
(* Specification *)

\* The steps of Run that need nobody else.
Run(a) == \/ DialTimeout(a) \/ Remove(a) \/ Setup(a) \/ Bind(a) \/ ListenFails(a)
          \/ Listen(a) \/ CloseDescriptor(a)

Next == \E a \in Agents : Stat(a) \/ Run(a) \/ CloseUnlinks(a) \/ Crash(a) \/ Renew(a)

\* A process that can run does, and DialTimeout ends after half a second.  Nothing
\* makes an agent start or its shell exit.
Fairness == \A a \in Agents : WF_vars(Run(a))

Spec == Init /\ [][Next]_vars /\ Fairness

-----------------------------------------------------------------------------
(* Properties *)

TypeOK ==
    /\ pc \in [Agents -> PC]
    /\ path \in Agents \cup {NoSocket}
    /\ raced \in BOOLEAN
    /\ alone \subseteq Agents

\* As long as starts do not overlap and no live agent's queue is full (the race that
\* Stat, Dial, Remove and Listen leave, protocol.go:238), the path leads to every
\* serving agent, so there is at most one: crashes at any point, a start during a
\* Close, and the unlink by name in Close (protocol.go:157) do not take the path from
\* a live agent.
ServingIsReachable ==
    ~raced => \A a \in Agents : pc[a] = "serving" => path = a

\* Whatever earlier agents left behind, an agent with no other alive beside it is
\* neither told that the socket is in use nor that the address is (protocol.go:237).
NeverRefusedAlone == \A a \in Agents : pc[a] = "refused" => a \notin alone

\* Every start ends, in a serving agent, a refusal or the end of the process, also
\* when the path it looked at vanishes under it (protocol.go:245).
StartSettles ==
    \A a \in Agents : pc[a] \in Starting ~> pc[a] \in {"serving", "refused", "gone"}

================================================================================
