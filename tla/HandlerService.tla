---------------------------- MODULE HandlerService ----------------------------
(***************************************************************************)
(* What the socket server of internal/agent/protocol.go promises its owner *)
(* (Agent.Run), with sockets, goroutines and clients left out: it calls    *)
(* the handler function at most once per connection and at most            *)
(* maxConcurrent times at once, and once Close has returned no call is     *)
(* running and none will ever start.  AgentServer implements this module   *)
(* and AgentRun is built on it.                                            *)
(***************************************************************************)
EXTENDS Naturals, FiniteSets

CONSTANTS Conn,          \* connections clients make in the life of the server
          maxConcurrent  \* handler calls at one time

VARIABLES phase,    \* "open", "closing" (inside Close) or "closed"
          running,  \* connections whose handler call is in progress
          handled   \* connections whose handler call has started

serviceVars == <<phase, running, handled>>

ServiceInit ==
    /\ phase = "open"
    /\ running = {}
    /\ handled = {}

\* A connection accepted before the listener was closed may still be handled
\* while Close waits.
CallHandler(k) ==
    /\ phase # "closed"
    /\ k \notin handled
    /\ Cardinality(running) < maxConcurrent
    /\ running' = running \cup {k}
    /\ handled' = handled \cup {k}
    /\ UNCHANGED phase

HandlerReturns(k) ==
    /\ k \in running
    /\ running' = running \ {k}
    /\ UNCHANGED <<phase, handled>>

CloseListener ==
    /\ phase = "open"
    /\ phase' = "closing"
    /\ UNCHANGED <<running, handled>>

CloseReturns ==
    /\ phase = "closing"
    /\ running = {}
    /\ phase' = "closed"
    /\ UNCHANGED <<running, handled>>

ServiceNext ==
    \/ \E k \in Conn : CallHandler(k)
    \/ \E k \in Conn : HandlerReturns(k)
    \/ CloseListener
    \/ CloseReturns

ServiceSpec == ServiceInit /\ [][ServiceNext]_serviceVars

================================================================================
