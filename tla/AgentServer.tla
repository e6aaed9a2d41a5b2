------------------------------ MODULE AgentServer ------------------------------
(***************************************************************************)
(* The send-keys socket of internal/agent/protocol.go: the server's accept *)
(* loop, its handler goroutines and Close, and the clients that call       *)
(* SendKeys, with their deadlines and retries.                             *)
(*                                                                         *)
(* A connection is named by the client and the number of the attempt that  *)
(* dialled it: a client that gave up on an attempt dials a new connection  *)
(* while the server may still be working on the old one.                   *)
(*                                                                         *)
(* Time is left out: a deadline may pass at any moment at which the code   *)
(* would notice it, and the back-off between attempts takes any time.      *)
(***************************************************************************)
EXTENDS Naturals, Sequences, FiniteSets

CONSTANTS Clients,           \* calls of SendKeys
          Oversized,         \* the clients whose request exceeds maxRequestSize
          Stalled,           \* the clients that may stop at any point for ever
          Closers,           \* calls of Server.Close
          maxConcurrent,     \* slots of the semaphore
          retryMaxAttempts,  \* attempts of one SendKeys
          Backlog            \* connections the kernel queues for Accept

ASSUME LimitsAssumption ==
    /\ maxConcurrent \in Nat \ {0}
    /\ retryMaxAttempts \in Nat \ {0}
    /\ Backlog \in Nat \ {0}
    /\ Oversized \subseteq Clients
    /\ Stalled \subseteq Clients

Conn == Clients \X (1..retryMaxAttempts)

VARIABLES
    listening,  \* the listener is open (and its path exists)
    queue,      \* connections the kernel holds for Accept, oldest first
    loop,       \* acceptLoop: "accept", "acquire" (blocked on sem) or "exited"
    accepted,   \* the connection acceptLoop has accepted, if any
    sem,        \* slots taken
    wg,         \* the WaitGroup's counter
    handler,    \* where each connection's handler goroutine is
    result,     \* what became of each connection's request
    wire,       \* the two directions of each connection
    client,     \* where each SendKeys is, and its attempt
    closer      \* where each Close is

serverVars == <<queue, loop, accepted, sem, wg, handler>>
vars == <<listening, serverVars, result, wire, client, closer>>

-----------------------------------------------------------------------------
(* Types and initial state *)

HandlerPC == {"none", "decode", "running", "reply", "release", "done"}
Result    == {"none", "rejected", "ok", "error"}

\* sent: the whole request and the end of the client's writing are on the wire;
\* response: what the server wrote; hungup: the server has closed.
Wire  == [sent : BOOLEAN, response : {"none", "ok", "error"}, hungup : BOOLEAN]
Fresh == [sent |-> FALSE, response |-> "none", hungup |-> FALSE]
Gone  == [Fresh EXCEPT !.hungup = TRUE]  \* closed by both sides

ClientPC == {"dial", "write", "read", "ok", "failed"}

NoConn == <<>>

\* ListenAndServe has returned: the accept loop is running and counted.
Init ==
    /\ listening = TRUE
    /\ queue = <<>>
    /\ loop = "accept"
    /\ accepted = NoConn
    /\ sem = 0
    /\ wg = 1
    /\ handler = [k \in Conn |-> "none"]
    /\ result = [k \in Conn |-> "none"]
    /\ wire = [k \in Conn |-> Fresh]
    /\ client = [c \in Clients |-> [pc |-> "dial", attempt |-> 1]]
    /\ closer = [x \in Closers |-> "idle"]

-----------------------------------------------------------------------------
(* The accept loop *)

Accept ==
    /\ loop = "accept"
    /\ listening
    /\ queue # <<>>
    /\ accepted' = Head(queue)
    /\ queue' = Tail(queue)
    /\ loop' = "acquire"
    /\ UNCHANGED <<listening, sem, wg, handler, result, wire, client, closer>>

LoopReturns ==
    /\ loop' = "exited"
    /\ wg' = wg - 1
    /\ UNCHANGED <<listening, queue, accepted, sem, handler, result, wire, client, closer>>

\* Accept fails because the listener is closed ...
AcceptClosed == loop = "accept" /\ ~listening /\ LoopReturns

\* ... or for any other reason, such as a lack of descriptors: the loop ends all
\* the same, while the kernel goes on queueing connections.
AcceptFails == loop = "accept" /\ listening /\ LoopReturns

\* Mutants of Spawn: wg.Add is missing; the semaphore has one slot too many.
SpawnUncounted ==
    /\ loop = "acquire"
    /\ sem < maxConcurrent
    /\ sem' = sem + 1
    /\ handler' = [handler EXCEPT ![accepted] = "decode"]
    /\ accepted' = NoConn
    /\ loop' = "accept"
    /\ UNCHANGED <<listening, queue, wg, result, wire, client, closer>>

SpawnOneTooMany ==
    /\ loop = "acquire"
    /\ sem <= maxConcurrent
    /\ sem' = sem + 1
    /\ wg' = wg + 1
    /\ handler' = [handler EXCEPT ![accepted] = "decode"]
    /\ accepted' = NoConn
    /\ loop' = "accept"
    /\ UNCHANGED <<listening, queue, result, wire, client, closer>>

\* Lines 114-120: the loop blocks, holding a connection, until a slot is free.
\* The listener may have been closed meanwhile.
Spawn ==
    /\ loop = "acquire"
    /\ sem < maxConcurrent
    /\ sem' = sem + 1
    /\ wg' = wg + 1
    /\ handler' = [handler EXCEPT ![accepted] = "decode"]
    /\ accepted' = NoConn
    /\ loop' = "accept"
    /\ UNCHANGED <<listening, queue, result, wire, client, closer>>

-----------------------------------------------------------------------------
(* A handler goroutine *)

At(k, pc)         == handler[k] = pc
Step(k, from, to) == At(k, from) /\ handler' = [handler EXCEPT ![k] = to]

\* The client has closed its end: its SendKeys has returned or moved on.
Left(k) == client[k[1]].attempt # k[2] \/ client[k[1]].pc \in {"ok", "failed"}

\* Mutant of DecodeFails: no deadline is set on the connection.
DecodeFailsNoDeadline(k) ==
    /\ IF wire[k].sent THEN k[1] \in Oversized ELSE Left(k)
    /\ Step(k, "decode", "reply")
    /\ result' = [result EXCEPT ![k] = "rejected"]
    /\ UNCHANGED <<listening, queue, loop, accepted, sem, wg, wire, client, closer>>

\* Lines 134-142: the request is too large, or has not come: the client left
\* without sending it, or the deadline passed.
DecodeFails(k) ==
    /\ ~wire[k].sent \/ k[1] \in Oversized
    /\ Step(k, "decode", "reply")
    /\ result' = [result EXCEPT ![k] = "rejected"]
    /\ UNCHANGED <<listening, queue, loop, accepted, sem, wg, wire, client, closer>>

\* The handler function is called.  The client may have left by now.
DecodeSucceeds(k) ==
    /\ wire[k].sent
    /\ k[1] \notin Oversized
    /\ Step(k, "decode", "running")
    /\ UNCHANGED <<listening, queue, loop, accepted, sem, wg, result, wire, client, closer>>

\* The handler function returns: the keys have been written to the terminal, or
\* it reports an error.  The connection's deadline does not apply to it.
HandlerReturns(k) ==
    /\ Step(k, "running", "reply")
    /\ \E r \in {"ok", "error"} : result' = [result EXCEPT ![k] = r]
    /\ UNCHANGED <<listening, queue, loop, accepted, sem, wg, wire, client, closer>>

\* Mutant of Response: the handler's error is dropped.
ResponseIgnoresError(k) == IF result[k] = "rejected" THEN "error" ELSE "ok"
Response(k) == IF result[k] = "ok" THEN "ok" ELSE "error"

\* The response is written, unless the deadline has passed or the client has
\* gone, and the connection is closed.
Reply(k) ==
    /\ Step(k, "reply", "release")
    /\ \/ /\ ~Left(k)
          /\ \E response \in {Response(k), "none"} :
                wire' = [wire EXCEPT ![k].response = response, ![k].hungup = TRUE]
       \/ /\ Left(k)
          /\ wire' = [wire EXCEPT ![k] = Gone]
    /\ UNCHANGED <<listening, queue, loop, accepted, sem, wg, result, client, closer>>

\* The deferred release of the slot and wg.Done.
Release(k) ==
    /\ Step(k, "release", "done")
    /\ sem' = sem - 1
    /\ wg' = wg - 1
    /\ UNCHANGED <<listening, queue, loop, accepted, result, wire, client, closer>>

-----------------------------------------------------------------------------
(* Close *)

\* Only the first call closes the listener (closeOnce); the kernel drops the
\* connections that were waiting for Accept and the path is unlinked.
CloseListener(x) ==
    /\ closer[x] = "idle"
    /\ closer' = [closer EXCEPT ![x] = "waiting"]
    /\ listening' = FALSE
    /\ queue' = <<>>
    /\ wire' = [k \in Conn |-> IF \E i \in 1..Len(queue) : queue[i] = k
                               THEN [wire[k] EXCEPT !.hungup = TRUE] ELSE wire[k]]
    /\ UNCHANGED <<loop, accepted, sem, wg, handler, result, client>>

\* Mutant of CloseReturns: the handlers are not waited for.
CloseReturnsEarly(x) ==
    /\ closer[x] = "waiting"
    /\ closer' = [closer EXCEPT ![x] = "returned"]
    /\ UNCHANGED <<listening, serverVars, result, wire, client>>

CloseReturns(x) ==
    /\ closer[x] = "waiting"
    /\ wg = 0
    /\ closer' = [closer EXCEPT ![x] = "returned"]
    /\ UNCHANGED <<listening, serverVars, result, wire, client>>

-----------------------------------------------------------------------------
(* SendKeys *)

ConnOf(c) == <<c, client[c].attempt>>

\* Any error is followed by another attempt, up to retryMaxAttempts.
Retry(c) ==
    client' = [client EXCEPT ![c] =
                 IF @.attempt < retryMaxAttempts
                 THEN [pc |-> "dial", attempt |-> @.attempt + 1]
                 ELSE [pc |-> "failed", attempt |-> @.attempt]]

\* conn.Close on the client's side.
Leave(c) == LET k == ConnOf(c) IN
            wire' = IF wire[k].hungup THEN [wire EXCEPT ![k] = Gone] ELSE wire

Dial(c) ==
    /\ client[c].pc = "dial"
    /\ listening
    /\ Len(queue) < Backlog
    /\ queue' = Append(queue, ConnOf(c))
    /\ client' = [client EXCEPT ![c].pc = "write"]
    /\ UNCHANGED <<listening, loop, accepted, sem, wg, handler, result, wire, closer>>

DialFails(c) ==
    /\ client[c].pc = "dial"
    /\ ~listening \/ Len(queue) >= Backlog
    /\ Retry(c)
    /\ UNCHANGED <<listening, serverVars, result, wire, closer>>

\* conn.Write and CloseWrite.
WriteRequest(c) ==
    /\ client[c].pc = "write"
    /\ ~wire[ConnOf(c)].hungup
    /\ wire' = [wire EXCEPT ![ConnOf(c)].sent = TRUE]
    /\ client' = [client EXCEPT ![c].pc = "read"]
    /\ UNCHANGED <<listening, serverVars, result, closer>>

\* The server has hung up before the request, or without a response.
HungUp(c) ==
    /\ wire[ConnOf(c)].hungup
    /\ \/ client[c].pc = "write"
       \/ client[c].pc = "read" /\ wire[ConnOf(c)].response = "none"
    /\ Retry(c)
    /\ Leave(c)
    /\ UNCHANGED <<listening, serverVars, result, closer>>

ReadResponse(c) ==
    /\ client[c].pc = "read"
    /\ \/ /\ wire[ConnOf(c)].response = "ok"
          /\ client' = [client EXCEPT ![c].pc = "ok"]
       \/ /\ wire[ConnOf(c)].response = "error"
          /\ Retry(c)
    /\ Leave(c)
    /\ UNCHANGED <<listening, serverVars, result, closer>>

\* Mutant of ClientDeadline: the deadline covers the writing only.
ClientDeadlineWriteOnly(c) ==
    /\ client[c].pc = "write"
    /\ Retry(c)
    /\ Leave(c)
    /\ UNCHANGED <<listening, serverVars, result, closer>>

\* The deadline set at line 204 passes while the client writes or reads.
ClientDeadline(c) ==
    /\ client[c].pc \in {"write", "read"}
    /\ Retry(c)
    /\ Leave(c)
    /\ UNCHANGED <<listening, serverVars, result, closer>>

-----------------------------------------------------------------------------

HandleConn(k) == \/ DecodeFails(k)
                 \/ DecodeSucceeds(k)
                 \/ HandlerReturns(k)
                 \/ Reply(k)
                 \/ Release(k)

SendKeys(c) == \/ Dial(c)
               \/ DialFails(c)
               \/ WriteRequest(c)
               \/ HungUp(c)
               \/ ReadResponse(c)
               \/ ClientDeadline(c)

Next == \/ Accept
        \/ AcceptClosed
        \/ AcceptFails
        \/ Spawn
        \/ \E k \in Conn : HandleConn(k)
        \/ \E x \in Closers : CloseListener(x)
        \/ \E x \in Closers : CloseReturns(x)
        \/ \E c \in Clients : SendKeys(c)

\* Goroutines that can run do run, timers fire, and the handler function
\* returns.  Nobody has to call Close, Accept need not fail, and the processes
\* in Stalled may stop at any point.
Fairness ==
    /\ WF_vars(Accept \/ AcceptClosed \/ Spawn)
    /\ \A k \in Conn : WF_vars(HandleConn(k))
    /\ \A x \in Closers : WF_vars(CloseReturns(x))
    /\ \A c \in Clients \ Stalled : WF_vars(SendKeys(c))

Spec == Init /\ [][Next]_vars /\ Fairness

-----------------------------------------------------------------------------
(* Properties *)

TypeOK ==
    /\ listening \in BOOLEAN
    /\ queue \in Seq(Conn)
    /\ loop \in {"accept", "acquire", "exited"}
    /\ accepted \in Conn \cup {NoConn}
    /\ sem \in Nat
    /\ wg \in Nat
    /\ handler \in [Conn -> HandlerPC]
    /\ result \in [Conn -> Result]
    /\ wire \in [Conn -> Wire]
    /\ client \in [Clients -> [pc : ClientPC, attempt : 1..retryMaxAttempts]]
    /\ closer \in [Closers -> {"idle", "waiting", "returned"}]

Live == {k \in Conn : handler[k] \notin {"none", "done"}}

\* The semaphore counts exactly the handler goroutines that are alive: no path
\* through handleConn loses a slot or gives one back twice, so at most
\* maxConcurrent requests are ever worked on.
SlotsMatchHandlers ==
    /\ sem = Cardinality(Live)
    /\ sem <= maxConcurrent

\* When a Close has returned, the accept loop and every handler have ended,
\* also those of connections accepted while Close was already waiting.
ClosedMeansQuiet ==
    (\E x \in Closers : closer[x] = "returned") => loop = "exited" /\ Live = {}

\* SendKeys reports success only if this very request was written to the
\* terminal, whatever became of the client's earlier attempts.
SuccessMeansTyped ==
    \A c \in Clients : client[c].pc = "ok" => result[ConnOf(c)] = "ok"

\* Close returns, even when a client connects and then says nothing.
CloseTerminates ==
    \A x \in Closers : closer[x] = "waiting" ~> closer[x] = "returned"

\* Every SendKeys that is not stopped from outside returns, whether the accept
\* loop has died, the slots are all taken or the server is gone.
SendKeysTerminates ==
    \A c \in Clients \ Stalled : <>(client[c].pc \in {"ok", "failed"})

\* What the owner of the server relies on.
Service == INSTANCE HandlerService WITH
    phase   <- IF \E x \in Closers : closer[x] = "returned" THEN "closed"
               ELSE IF listening THEN "open" ELSE "closing",
    running <- {k \in Conn : handler[k] = "running"},
    handled <- {k \in Conn : handler[k] = "running" \/ result[k] \in {"ok", "error"}}

\* The server implements HandlerService: at most one handler call for each
\* connection, at most maxConcurrent at once, and none after Close.
ImplementsService == Service!ServiceSpec

\* Retries are for connections that could not be made ("on connection failure:
\* retry"), so the keys of one SendKeys are typed at most once.
TypedAtMostOnce ==
    \A c \in Clients : \A i, j \in 1..retryMaxAttempts :
        result[<<c, i>>] = "ok" /\ result[<<c, j>>] = "ok" => i = j

================================================================================
