--------------------------- MODULE AgentServerProofs ---------------------------
(***************************************************************************)
(* Proofs of AgentServer's safety properties and of its implementation of  *)
(* HandlerService, for any number of clients, attempts, slots and calls of *)
(* Close.                                                                  *)
(***************************************************************************)
EXTENDS AgentServer, FiniteSetTheorems, SequenceTheorems, TLAPS

-----------------------------------------------------------------------------
(* The inductive invariant *)

\* The semaphore counts the live handlers, the WaitGroup those and the loop.
Counted ==
    /\ IsFiniteSet(Live)
    /\ SlotsMatchHandlers
    /\ wg = IF loop = "exited" THEN sem ELSE sem + 1

InQueue(k) == \E i \in 1..Len(queue) : queue[i] = k

\* A connection that has not been dialled yet.
NotDialled(k) ==
    \/ client[k[1]].attempt < k[2]
    \/ client[k[1]].attempt = k[2] /\ client[k[1]].pc = "dial"

\* A connection is in one place only: not dialled, queued, accepted or handled.
Placed ==
    /\ loop = "acquire" => accepted \in Conn /\ handler[accepted] = "none"
    /\ \A k \in Conn : InQueue(k) => handler[k] = "none" /\ k # accepted
    /\ \A i, j \in 1..Len(queue) : queue[i] = queue[j] => i = j
    /\ \A k \in Conn : NotDialled(k) => ~InQueue(k) /\ k # accepted /\ handler[k] = "none"

\* A request has no result before its handler function has returned or it was
\* rejected, and success is reported only to a request that was typed.
Reported ==
    /\ \A k \in Conn : handler[k] \in {"none", "decode", "running"} => result[k] = "none"
    /\ \A k \in Conn : wire[k].response = "ok" =>
                          handler[k] \in {"release", "done"} /\ result[k] = "ok"
    /\ \A c \in Clients : client[c].pc = "ok" =>
                             /\ handler[ConnOf(c)] \in {"release", "done"}
                             /\ result[ConnOf(c)] = "ok"

\* Close has closed the listener before it waits.
Closing ==
    /\ \A x \in Closers : closer[x] # "idle" => ~listening
    /\ ClosedMeansQuiet

IInv == TypeOK /\ Counted /\ Placed /\ Reported /\ Closing

-----------------------------------------------------------------------------
(* Facts about connections *)

LEMMA ConnFacts ==
    /\ \A c \in Clients, a \in 1..retryMaxAttempts : <<c, a>> \in Conn
    /\ \A k \in Conn : /\ k[1] \in Clients /\ k[2] \in 1..retryMaxAttempts
                       /\ k = <<k[1], k[2]>>
                       /\ k # NoConn
<1>1. \A c \in Clients, a \in 1..retryMaxAttempts : <<c, a>> \in Conn
    BY DEF Conn
<1>2. \A k \in Conn : /\ k[1] \in Clients /\ k[2] \in 1..retryMaxAttempts
                      /\ k = <<k[1], k[2]>>
    BY DEF Conn
<1>3. \A k \in Conn : k # NoConn
    BY DEF Conn, NoConn
<1> QED
    BY <1>1, <1>2, <1>3

LEMMA InitIInv == Init => IInv
<1> SUFFICES ASSUME Init
             PROVE  IInv
    OBVIOUS
<1>1. TypeOK
    <2>1. listening \in BOOLEAN /\ Fresh \in Wire
        BY Zenon DEF Init, Fresh, Wire
    <2>2. queue \in Seq(Conn)
        BY EmptySeq DEF Init
    <2> QED
        BY <2>1, <2>2, LimitsAssumption DEF Init, TypeOK, HandlerPC, Result, ClientPC
<1>2. Counted
    <2>1. Live = {}
        BY DEF Init, Live
    <2> QED
        BY <2>1, FS_EmptySet, LimitsAssumption DEF Init, Counted, SlotsMatchHandlers
<1>3. Placed
    <2>1. Len(queue) = 0
        BY EmptySeq DEF Init
    <2> QED
        BY <2>1, ConnFacts DEF Init, Placed, InQueue
<1>4. Reported
    BY ConnFacts DEF Init, Reported, Fresh
<1>5. Closing
    BY DEF Init, Closing, ClosedMeansQuiet
<1> QED
    BY <1>1, <1>2, <1>3, <1>4, <1>5 DEF IInv

-----------------------------------------------------------------------------
(* The accept loop *)

LEMMA AcceptIInv == IInv /\ Accept => IInv'
<1> SUFFICES ASSUME IInv, Accept
             PROVE  IInv'
    OBVIOUS
<1>1. TypeOK /\ Counted /\ Placed /\ Reported /\ Closing
    BY DEF IInv
<1>2. PICK n \in Nat : n = Len(queue) /\ n # 0
    BY <1>1, EmptySeq, LenProperties DEF TypeOK, Accept
<1>3. /\ queue[1] \in Conn /\ accepted' = queue[1]
      /\ queue' \in Seq(Conn) /\ Len(queue') = n - 1
      /\ \A i \in 1..(n - 1) : queue'[i] = queue[i + 1]
    <2>1. queue \in Seq(Conn) /\ queue # <<>>
        BY <1>1 DEF TypeOK, Accept
    <2>2. Head(queue) = queue[1]
        BY <2>1
    <2>3. queue' = Tail(queue) /\ accepted' = Head(queue)
        BY DEF Accept
    <2> QED
        BY <1>2, <2>1, <2>2, <2>3, HeadTailProperties
<1>4. TypeOK'
    BY <1>1, <1>3 DEF TypeOK, Accept
<1>5. Counted' /\ Closing' /\ Reported'
    BY <1>1 DEF Accept, Counted, SlotsMatchHandlers, Live, Closing, ClosedMeansQuiet, Reported, ConnOf
<1>6. Placed'
    <2>1. InQueue(queue[1]) /\ \A k \in Conn : InQueue(k)' => InQueue(k) /\ k # queue[1]
        BY <1>1, <1>2, <1>3 DEF InQueue, Placed
    <2>2. \A k \in Conn : NotDialled(k)' <=> NotDialled(k)
        BY DEF NotDialled, Accept
    <2>3. \A i, j \in 1..Len(queue') : queue'[i] = queue'[j] => i = j
        BY <1>1, <1>2, <1>3 DEF Placed
    <2> QED
        BY <1>1, <1>3, <2>1, <2>2, <2>3 DEF Placed, Accept
<1> QED
    BY <1>4, <1>5, <1>6 DEF IInv

LEMMA LoopReturnsIInv == IInv /\ (AcceptClosed \/ AcceptFails) => IInv'
<1> SUFFICES ASSUME IInv, loop = "accept", LoopReturns
             PROVE  IInv'
    BY DEF AcceptClosed, AcceptFails
<1>1. TypeOK /\ Counted /\ Placed /\ Reported /\ Closing
    BY DEF IInv
<1>2. wg = sem + 1 /\ sem \in Nat
    BY <1>1 DEF Counted, TypeOK
<1>3. TypeOK'
    BY <1>1, <1>2 DEF TypeOK, LoopReturns
<1>4. Counted'
    BY <1>1, <1>2 DEF Counted, SlotsMatchHandlers, Live, LoopReturns
<1>5. Placed' /\ Reported' /\ Closing'
    BY <1>1 DEF Placed, InQueue, NotDialled, Reported, ConnOf, Closing, ClosedMeansQuiet, Live, LoopReturns
<1> QED
    BY <1>3, <1>4, <1>5 DEF IInv

LEMMA SpawnIInv == IInv /\ Spawn => IInv'
<1> SUFFICES ASSUME IInv, Spawn
             PROVE  IInv'
    OBVIOUS
<1>1. TypeOK /\ Counted /\ Placed /\ Reported /\ Closing
    BY DEF IInv
<1>2. accepted \in Conn /\ handler[accepted] = "none"
    BY <1>1 DEF Placed, Spawn
<1>3. handler' = [handler EXCEPT ![accepted] = "decode"] /\ handler \in [Conn -> HandlerPC]
    BY <1>1 DEF TypeOK, Spawn
<1>4. TypeOK'
    <2>1. handler' \in [Conn -> HandlerPC]
        BY <1>3 DEF HandlerPC
    <2> QED
        BY <1>1, <2>1 DEF TypeOK, Spawn
<1>5. Counted'
    <2>1. Live' = Live \cup {accepted} /\ accepted \notin Live
        BY <1>2, <1>3 DEF Live
    <2>2. IsFiniteSet(Live') /\ Cardinality(Live') = Cardinality(Live) + 1
        BY <1>1, <2>1, FS_AddElement DEF Counted
    <2> QED
        BY <1>1, <2>2, LimitsAssumption DEF Counted, SlotsMatchHandlers, Spawn, TypeOK
<1>6. Placed'
    <2>1. \A k \in Conn : /\ InQueue(k)' <=> InQueue(k)
                          /\ NotDialled(k)' <=> NotDialled(k)
                          /\ k # accepted => handler'[k] = handler[k]
        BY <1>3 DEF InQueue, NotDialled, Spawn
    <2> QED
        BY <1>1, <1>2, <2>1, ConnFacts DEF Placed, Spawn
<1>7. Reported'
    BY <1>1, <1>2, <1>3 DEF Reported, ConnOf, Spawn
<1>8. Closing'
    BY <1>1 DEF Closing, ClosedMeansQuiet, Spawn
<1> QED
    BY <1>4, <1>5, <1>6, <1>7, <1>8 DEF IInv

-----------------------------------------------------------------------------
(* A handler goroutine *)

\* A handler that goes on, and lives on, changes neither the counts nor the
\* places of connections.
LEMMA HandlerMoves ==
    ASSUME NEW k \in Conn, IInv, handler[k] \in {"decode", "running", "reply"},
           NEW to \in {"running", "reply", "release"},
           handler' = [handler EXCEPT ![k] = to],
           UNCHANGED <<listening, queue, loop, accepted, sem, wg, client, closer>>
    PROVE  handler' \in [Conn -> HandlerPC] /\ Counted' /\ Placed' /\ Closing'
<1>1. TypeOK /\ Counted /\ Placed /\ Closing
    BY DEF IInv
<1>2. handler' \in [Conn -> HandlerPC] /\ handler \in [Conn -> HandlerPC]
    BY <1>1 DEF TypeOK, HandlerPC
<1>3. Live' = Live
    BY <1>2 DEF Live
<1>4. Counted' /\ Closing'
    BY <1>1, <1>3 DEF Counted, SlotsMatchHandlers, Closing, ClosedMeansQuiet
<1>5. Placed'
    <2>1. \A q \in Conn : /\ InQueue(q)' <=> InQueue(q)
                          /\ NotDialled(q)' <=> NotDialled(q)
                          /\ handler[q] = "none" => handler'[q] = "none"
        BY <1>2 DEF InQueue, NotDialled
    <2> QED
        BY <1>1, <2>1 DEF Placed
<1> QED
    BY <1>2, <1>4, <1>5

LEMMA DecodeFailsIInv ==
    ASSUME NEW k \in Conn, IInv, DecodeFails(k)
    PROVE  IInv'
<1>1. TypeOK /\ Reported
    BY DEF IInv
<1>2. /\ handler[k] = "decode" /\ handler' = [handler EXCEPT ![k] = "reply"]
      /\ result' = [result EXCEPT ![k] = "rejected"]
      /\ UNCHANGED <<listening, queue, loop, accepted, sem, wg, wire, client, closer>>
    BY DEF DecodeFails, Step, At
<1>3. handler' \in [Conn -> HandlerPC] /\ Counted' /\ Placed' /\ Closing'
    BY <1>2, HandlerMoves
<1>4. TypeOK'
    <2>1. result' \in [Conn -> Result]
        BY <1>1, <1>2 DEF TypeOK, Result
    <2> QED
        BY <1>1, <1>2, <1>3, <2>1 DEF TypeOK
<1>5. Reported'
    BY <1>1, <1>2 DEF Reported, TypeOK, ConnOf
<1> QED
    BY <1>3, <1>4, <1>5 DEF IInv

LEMMA DecodeSucceedsIInv ==
    ASSUME NEW k \in Conn, IInv, DecodeSucceeds(k)
    PROVE  IInv'
<1>1. TypeOK /\ Reported
    BY DEF IInv
<1>2. /\ handler[k] = "decode" /\ handler' = [handler EXCEPT ![k] = "running"]
      /\ UNCHANGED <<listening, queue, loop, accepted, sem, wg, result, wire, client, closer>>
    BY DEF DecodeSucceeds, Step, At
<1>3. handler' \in [Conn -> HandlerPC] /\ Counted' /\ Placed' /\ Closing'
    BY <1>2, HandlerMoves
<1>4. TypeOK'
    BY <1>1, <1>2, <1>3 DEF TypeOK
<1>5. Reported'
    BY <1>1, <1>2 DEF Reported, TypeOK, ConnOf
<1> QED
    BY <1>3, <1>4, <1>5 DEF IInv

LEMMA HandlerReturnsIInv ==
    ASSUME NEW k \in Conn, IInv, HandlerReturns(k)
    PROVE  IInv'
<1>1. TypeOK /\ Reported
    BY DEF IInv
<1>2. PICK r \in {"ok", "error"} : result' = [result EXCEPT ![k] = r]
    BY DEF HandlerReturns
<1>3. /\ handler[k] = "running" /\ handler' = [handler EXCEPT ![k] = "reply"]
      /\ UNCHANGED <<listening, queue, loop, accepted, sem, wg, wire, client, closer>>
    BY DEF HandlerReturns, Step, At
<1>4. handler' \in [Conn -> HandlerPC] /\ Counted' /\ Placed' /\ Closing'
    BY <1>3, HandlerMoves
<1>5. TypeOK'
    <2>1. result' \in [Conn -> Result]
        BY <1>1, <1>2 DEF TypeOK, Result
    <2> QED
        BY <1>1, <1>3, <1>4, <2>1 DEF TypeOK
<1>6. Reported'
    BY <1>1, <1>2, <1>3 DEF Reported, TypeOK, ConnOf
<1> QED
    BY <1>4, <1>5, <1>6 DEF IInv

\* The response that is written is the handler's.
LEMMA ReplyIInv ==
    ASSUME NEW k \in Conn, IInv, Reply(k)
    PROVE  IInv'
<1>1. TypeOK /\ Reported
    BY DEF IInv
<1>2. /\ handler[k] = "reply" /\ handler' = [handler EXCEPT ![k] = "release"]
      /\ UNCHANGED <<listening, queue, loop, accepted, sem, wg, result, client, closer>>
    BY DEF Reply, Step, At
<1>3. PICK w \in Wire : /\ wire' = [wire EXCEPT ![k] = w]
                        /\ w.response = "ok" => result[k] = "ok"
    <2>1. wire[k] \in Wire /\ Gone \in Wire /\ Gone.response = "none"
        BY <1>1 DEF TypeOK, Wire, Gone, Fresh
    <2>2. CASE Left(k)
        BY <2>1, <2>2 DEF Reply
    <2>3. CASE ~Left(k)
        <3>1. PICK response \in {Response(k), "none"} :
                 wire' = [wire EXCEPT ![k].response = response, ![k].hungup = TRUE]
            BY <2>3 DEF Reply
        <3> DEFINE w == [wire[k] EXCEPT !.response = response, !.hungup = TRUE]
        <3>2. response \in {"none", "ok", "error"} /\ (response = "ok" => result[k] = "ok")
            BY DEF Response
        <3>3. w \in Wire /\ w.response = response
            BY <2>1, <3>2 DEF Wire
        <3>4. wire' = [wire EXCEPT ![k] = w]
            BY <3>1, <1>1 DEF TypeOK, Wire
        <3> QED
            BY <3>2, <3>3, <3>4
    <2> QED
        BY <2>2, <2>3
<1>4. handler' \in [Conn -> HandlerPC] /\ Counted' /\ Placed' /\ Closing'
    BY <1>2, HandlerMoves
<1>5. TypeOK'
    <2>1. wire' \in [Conn -> Wire]
        BY <1>1, <1>3 DEF TypeOK
    <2> QED
        BY <1>1, <1>2, <1>4, <2>1 DEF TypeOK
<1>6. Reported'
    BY <1>1, <1>2, <1>3 DEF Reported, TypeOK, ConnOf
<1> QED
    BY <1>4, <1>5, <1>6 DEF IInv

LEMMA ReleaseIInv ==
    ASSUME NEW k \in Conn, IInv, Release(k)
    PROVE  IInv'
<1>1. TypeOK /\ Counted /\ Placed /\ Reported /\ Closing
    BY DEF IInv
<1>2. /\ handler[k] = "release" /\ handler' = [handler EXCEPT ![k] = "done"]
      /\ sem' = sem - 1 /\ wg' = wg - 1
      /\ UNCHANGED <<listening, queue, loop, accepted, result, wire, client, closer>>
    BY DEF Release, Step, At
<1>3. handler' \in [Conn -> HandlerPC] /\ handler \in [Conn -> HandlerPC]
    BY <1>1, <1>2 DEF TypeOK, HandlerPC
<1>4. Live' = Live \ {k} /\ k \in Live
    BY <1>2, <1>3 DEF Live
<1>5. /\ IsFiniteSet(Live') /\ Cardinality(Live') = Cardinality(Live) - 1
      /\ Cardinality(Live) \in Nat /\ Cardinality(Live) # 0
    BY <1>1, <1>4, FS_RemoveElement, FS_CardinalityType, FS_EmptySet DEF Counted
<1>6. Counted' /\ sem' \in Nat /\ wg' \in Nat
    BY <1>1, <1>2, <1>5, LimitsAssumption DEF Counted, SlotsMatchHandlers, TypeOK
<1>7. TypeOK'
    BY <1>1, <1>2, <1>3, <1>6 DEF TypeOK
<1>8. Placed'
    <2>1. \A q \in Conn : /\ InQueue(q)' <=> InQueue(q)
                          /\ NotDialled(q)' <=> NotDialled(q)
                          /\ handler[q] = "none" => handler'[q] = "none"
        BY <1>2, <1>3 DEF InQueue, NotDialled
    <2> QED
        BY <1>1, <1>2, <2>1 DEF Placed
<1>9. Reported'
    BY <1>1, <1>2, <1>3 DEF Reported, ConnOf
<1>10. Closing'
    BY <1>1, <1>2, <1>4 DEF Closing, ClosedMeansQuiet
<1> QED
    BY <1>6, <1>7, <1>8, <1>9, <1>10 DEF IInv

-----------------------------------------------------------------------------
(* Close *)

LEMMA CloseListenerIInv ==
    ASSUME NEW x \in Closers, IInv, CloseListener(x)
    PROVE  IInv'
<1>1. TypeOK /\ Counted /\ Placed /\ Reported /\ Closing
    BY DEF IInv
<1>2. /\ closer[x] = "idle" /\ closer' = [closer EXCEPT ![x] = "waiting"]
      /\ listening' = FALSE /\ queue' = <<>>
      /\ wire' = [k \in Conn |-> IF InQueue(k) THEN [wire[k] EXCEPT !.hungup = TRUE] ELSE wire[k]]
      /\ UNCHANGED <<loop, accepted, sem, wg, handler, result, client>>
    BY DEF CloseListener, InQueue
<1>3. \A k \in Conn : wire'[k] \in Wire /\ wire'[k].response = wire[k].response
    BY <1>1, <1>2 DEF TypeOK, Wire
<1>4. TypeOK'
    <2>1. listening' \in BOOLEAN
        BY <1>2, Zenon
    <2>2. wire' \in [Conn -> Wire]
        BY <1>2, <1>3
    <2>3. queue' \in Seq(Conn)
        BY <1>2, EmptySeq
    <2> QED
        BY <1>1, <1>2, <2>1, <2>2, <2>3 DEF TypeOK
<1>5. Counted'
    BY <1>1, <1>2 DEF Counted, SlotsMatchHandlers, Live
<1>6. Placed'
    <2>1. \A k \in Conn : ~InQueue(k)' /\ (NotDialled(k)' <=> NotDialled(k))
        BY <1>2, EmptySeq DEF InQueue, NotDialled
    <2> QED
        BY <1>1, <1>2, <2>1, EmptySeq DEF Placed
<1>7. Reported'
    BY <1>1, <1>2, <1>3 DEF Reported, ConnOf
<1>8. Closing'
    BY <1>1, <1>2 DEF Closing, ClosedMeansQuiet, Live, TypeOK
<1> QED
    BY <1>4, <1>5, <1>6, <1>7, <1>8 DEF IInv

LEMMA WaitGroupZero ==
    ASSUME TypeOK, Counted, wg = 0
    PROVE  loop = "exited" /\ Live = {}
<1>1. sem \in Nat /\ IsFiniteSet(Live) /\ sem = Cardinality(Live)
    BY DEF TypeOK, Counted, SlotsMatchHandlers
<1>2. loop = "exited" /\ sem = 0
    BY <1>1 DEF Counted
<1> QED
    BY <1>1, <1>2, FS_EmptySet

LEMMA CloseReturnsIInv ==
    ASSUME NEW x \in Closers, IInv, CloseReturns(x)
    PROVE  IInv'
<1>1. TypeOK /\ Counted /\ Placed /\ Reported /\ Closing
    BY DEF IInv
<1>2. /\ closer[x] = "waiting" /\ wg = 0 /\ closer' = [closer EXCEPT ![x] = "returned"]
      /\ UNCHANGED <<listening, queue, loop, accepted, sem, wg, handler, result, wire, client>>
    BY DEF CloseReturns, serverVars
<1>3. loop = "exited" /\ Live = {}
    BY <1>1, <1>2, WaitGroupZero
<1>4. TypeOK'
    BY <1>1, <1>2 DEF TypeOK
<1>5. Counted' /\ Placed' /\ Reported'
    BY <1>1, <1>2 DEF Counted, SlotsMatchHandlers, Live, Placed, InQueue, NotDialled, Reported, ConnOf
<1>6. Closing'
    BY <1>1, <1>2, <1>3 DEF Closing, ClosedMeansQuiet, Live, TypeOK
<1> QED
    BY <1>4, <1>5, <1>6 DEF IInv

-----------------------------------------------------------------------------
(* SendKeys *)

ClientState == [pc : ClientPC, attempt : 1..retryMaxAttempts]

\* A step of a client that dials nothing: it stays on its attempt or goes on to
\* the next, and reports success only for a request that was typed.
LEMMA ClientMoves ==
    ASSUME NEW c \in Clients, IInv,
           NEW r \in ClientState, client' = [client EXCEPT ![c] = r],
           r.attempt = client[c].attempt + (IF r.pc = "dial" THEN 1 ELSE 0),
           r.pc = "ok" => wire[ConnOf(c)].response = "ok",
           wire' \in [Conn -> Wire],
           \A k \in Conn : wire'[k].response = "ok" => wire[k].response = "ok",
           UNCHANGED <<listening, serverVars, result, closer>>
    PROVE  IInv'
<1>1. TypeOK /\ Counted /\ Placed /\ Reported /\ Closing
    BY DEF IInv
<1>2. client \in [Clients -> ClientState] /\ client' \in [Clients -> ClientState]
    BY <1>1 DEF TypeOK, ClientState
<1>3. UNCHANGED <<listening, queue, loop, accepted, sem, wg, handler, result, closer>>
    BY DEF serverVars
<1>4. TypeOK'
    BY <1>1, <1>2, <1>3 DEF TypeOK, ClientState
<1>5. Counted' /\ Closing'
    BY <1>1, <1>3 DEF Counted, SlotsMatchHandlers, Live, Closing, ClosedMeansQuiet
<1>6. Placed'
    <2>1. \A k \in Conn : NotDialled(k)' => NotDialled(k)
        <3>1. SUFFICES ASSUME NEW k \in Conn, NotDialled(k)'
                       PROVE  NotDialled(k)
            OBVIOUS
        <3>2. k[1] \in Clients /\ k[2] \in 1..retryMaxAttempts
            BY ConnFacts
        <3>3. CASE k[1] # c
            BY <1>2, <3>1, <3>2, <3>3 DEF NotDialled
        <3>4. CASE k[1] = c
            <4>1. client'[k[1]] = r /\ client[c].attempt \in Nat
                BY <1>2, <3>4 DEF ClientState
            <4> QED
                BY <3>1, <3>2, <3>4, <4>1, LimitsAssumption DEF NotDialled, ClientState
        <3> QED
            BY <3>3, <3>4
    <2>2. \A k \in Conn : InQueue(k)' <=> InQueue(k)
        BY <1>3 DEF InQueue
    <2> QED
        BY <1>1, <1>3, <2>1, <2>2 DEF Placed
<1>7. Reported'
    <2>1. ASSUME NEW d \in Clients, client'[d].pc = "ok"
          PROVE  /\ handler'[ConnOf(d)'] \in {"release", "done"}
                 /\ result'[ConnOf(d)'] = "ok"
        <3>1. CASE d # c
            <4>1. client'[d] = client[d]
                BY <1>2, <3>1
            <4> QED
                BY <1>1, <1>3, <2>1, <4>1 DEF Reported, ConnOf
        <3>2. CASE d = c
            <4>1. client'[d] = r /\ r.pc = "ok" /\ r.attempt = client[c].attempt
                BY <1>2, <2>1, <3>2 DEF ClientState
            <4>2. ConnOf(d)' = ConnOf(c) /\ ConnOf(c) \in Conn
                BY <1>2, <3>2, <4>1, ConnFacts DEF ConnOf, ClientState
            <4> QED
                BY <1>1, <1>3, <4>1, <4>2 DEF Reported
        <3> QED
            BY <3>1, <3>2
    <2> QED
        BY <1>1, <1>3, <2>1 DEF Reported
<1> QED
    BY <1>4, <1>5, <1>6, <1>7 DEF IInv

LEMMA RetryFacts ==
    ASSUME NEW c \in Clients, TypeOK, Retry(c)
    PROVE  \E r \in ClientState :
              /\ client' = [client EXCEPT ![c] = r]
              /\ r.attempt = client[c].attempt + (IF r.pc = "dial" THEN 1 ELSE 0)
              /\ r.pc # "ok"
<1>1. client[c] \in ClientState /\ client[c].attempt \in 1..retryMaxAttempts
    BY DEF TypeOK, ClientState
<1>2. CASE client[c].attempt < retryMaxAttempts
    <2> DEFINE r == [pc |-> "dial", attempt |-> client[c].attempt + 1]
    <2>1. r \in ClientState
        BY <1>1, <1>2, LimitsAssumption DEF ClientState, ClientPC
    <2>2. client' = [client EXCEPT ![c] = r]
        BY <1>2 DEF Retry
    <2> QED
        BY <2>1, <2>2
<1>3. CASE ~(client[c].attempt < retryMaxAttempts)
    <2> DEFINE r == [pc |-> "failed", attempt |-> client[c].attempt]
    <2>1. r \in ClientState
        BY <1>1 DEF ClientState, ClientPC
    <2>2. client' = [client EXCEPT ![c] = r]
        BY <1>3 DEF Retry
    <2>3. client[c].attempt + 0 = client[c].attempt
        BY <1>1
    <2> QED
        BY <2>1, <2>2, <2>3
<1> QED
    BY <1>2, <1>3

LEMMA LeaveFacts ==
    ASSUME NEW c \in Clients, TypeOK, Leave(c) \/ UNCHANGED wire
    PROVE  /\ wire' \in [Conn -> Wire]
           /\ \A k \in Conn : wire'[k].response = "ok" => wire[k].response = "ok"
<1>1. wire \in [Conn -> Wire] /\ Gone \in Wire /\ Gone.response = "none"
    BY DEF TypeOK, Wire, Gone, Fresh
<1>2. wire' = wire \/ wire' = [wire EXCEPT ![ConnOf(c)] = Gone]
    BY DEF Leave
<1> QED
    BY <1>1, <1>2

\* The steps that end an attempt with an error.
LEMMA RetryIInv ==
    ASSUME NEW c \in Clients, IInv, Retry(c), Leave(c) \/ UNCHANGED wire,
           UNCHANGED <<listening, serverVars, result, closer>>
    PROVE  IInv'
<1>1. TypeOK
    BY DEF IInv
<1>2. PICK r \in ClientState :
              /\ client' = [client EXCEPT ![c] = r]
              /\ r.attempt = client[c].attempt + (IF r.pc = "dial" THEN 1 ELSE 0)
              /\ r.pc # "ok"
    BY <1>1, RetryFacts
<1>3. /\ wire' \in [Conn -> Wire]
      /\ \A k \in Conn : wire'[k].response = "ok" => wire[k].response = "ok"
    BY <1>1, LeaveFacts
<1> QED
    BY <1>2, <1>3, ClientMoves

LEMMA WriteRequestIInv ==
    ASSUME NEW c \in Clients, IInv, WriteRequest(c)
    PROVE  IInv'
<1>1. TypeOK
    BY DEF IInv
<1> DEFINE r == [client[c] EXCEPT !.pc = "read"]
           k == ConnOf(c)
<1>2. client[c] \in ClientState /\ k \in Conn
    BY <1>1, ConnFacts DEF TypeOK, ClientState, ConnOf
<1>3. /\ r \in ClientState /\ client' = [client EXCEPT ![c] = r] /\ r.pc = "read"
      /\ r.attempt = client[c].attempt + (IF r.pc = "dial" THEN 1 ELSE 0)
    BY <1>1, <1>2 DEF ClientState, ClientPC, WriteRequest, TypeOK
<1>4. /\ wire' \in [Conn -> Wire]
      /\ \A q \in Conn : wire'[q].response = "ok" => wire[q].response = "ok"
    BY <1>1, <1>2 DEF WriteRequest, TypeOK, Wire
<1>5. UNCHANGED <<listening, serverVars, result, closer>>
    BY DEF WriteRequest
<1> QED
    BY <1>3, <1>4, <1>5, ClientMoves

LEMMA ReadResponseIInv ==
    ASSUME NEW c \in Clients, IInv, ReadResponse(c)
    PROVE  IInv'
<1>1. TypeOK /\ Leave(c) /\ UNCHANGED <<listening, serverVars, result, closer>>
    BY DEF IInv, ReadResponse
<1>2. CASE Retry(c)
    BY <1>1, <1>2, RetryIInv
<1>3. CASE wire[ConnOf(c)].response = "ok" /\ client' = [client EXCEPT ![c].pc = "ok"]
    <2> DEFINE r == [client[c] EXCEPT !.pc = "ok"]
    <2>1. /\ r \in ClientState /\ client' = [client EXCEPT ![c] = r]
          /\ r.attempt = client[c].attempt + (IF r.pc = "dial" THEN 1 ELSE 0)
        BY <1>1, <1>3 DEF ClientState, ClientPC, TypeOK
    <2>2. /\ wire' \in [Conn -> Wire]
          /\ \A k \in Conn : wire'[k].response = "ok" => wire[k].response = "ok"
        BY <1>1, LeaveFacts
    <2> QED
        BY <1>1, <1>3, <2>1, <2>2, ClientMoves
<1> QED
    BY <1>2, <1>3 DEF ReadResponse

LEMMA DialIInv ==
    ASSUME NEW c \in Clients, IInv, Dial(c)
    PROVE  IInv'
<1>1. TypeOK /\ Counted /\ Placed /\ Reported /\ Closing
    BY DEF IInv
<1> DEFINE k == ConnOf(c)
<1>2. /\ client \in [Clients -> ClientState] /\ client[c].pc = "dial"
      /\ client' = [client EXCEPT ![c].pc = "write"]
      /\ queue' = Append(queue, k)
      /\ UNCHANGED <<listening, loop, accepted, sem, wg, handler, result, wire, closer>>
    BY <1>1 DEF TypeOK, ClientState, Dial
<1>3. k \in Conn /\ NotDialled(k) /\ k = <<c, client[c].attempt>>
    BY <1>2, ConnFacts DEF ConnOf, ClientState, NotDialled
<1>4. PICK n \in Nat : n = Len(queue)
    BY <1>1, LenProperties DEF TypeOK
<1>5. /\ queue' \in Seq(Conn) /\ Len(queue') = n + 1 /\ queue'[n + 1] = k
      /\ \A i \in 1..n : queue'[i] = queue[i]
    BY <1>1, <1>2, <1>3, <1>4, AppendProperties DEF TypeOK
<1>6. client' \in [Clients -> ClientState]
    BY <1>2 DEF ClientState, ClientPC
<1>7. TypeOK'
    BY <1>1, <1>2, <1>5, <1>6 DEF TypeOK, ClientState
<1>8. Counted' /\ Closing'
    BY <1>1, <1>2 DEF Counted, SlotsMatchHandlers, Live, Closing, ClosedMeansQuiet
<1>9. Placed'
    <2>1. \A q \in Conn : InQueue(q)' => InQueue(q) \/ q = k
        BY <1>4, <1>5 DEF InQueue
    <2>2. \A q \in Conn : NotDialled(q)' => NotDialled(q) /\ q # k
        BY <1>2, <1>3, <1>6, ConnFacts DEF NotDialled, ClientState
    <2>3. \A i, j \in 1..Len(queue') : queue'[i] = queue'[j] => i = j
        <3>1. ~InQueue(k)
            BY <1>1, <1>3 DEF Placed
        <3>2. \A i \in 1..n : queue[i] # k
            BY <1>4, <3>1 DEF InQueue
        <3> QED
            BY <1>1, <1>4, <1>5, <3>2 DEF Placed
    <2> QED
        BY <1>1, <1>2, <1>3, <2>1, <2>2, <2>3 DEF Placed
<1>10. Reported'
    <2>1. \A d \in Clients : client'[d].pc = "ok" => client'[d] = client[d]
        BY <1>2, <1>6 DEF ClientState
    <2> QED
        BY <1>1, <1>2, <2>1 DEF Reported, ConnOf
<1> QED
    BY <1>7, <1>8, <1>9, <1>10 DEF IInv

LEMMA SendKeysIInv ==
    ASSUME NEW c \in Clients, IInv, SendKeys(c)
    PROVE  IInv'
<1>1. CASE DialFails(c) \/ HungUp(c) \/ ClientDeadline(c)
    BY <1>1, RetryIInv DEF DialFails, HungUp, ClientDeadline
<1> QED
    BY <1>1, DialIInv, WriteRequestIInv, ReadResponseIInv DEF SendKeys

-----------------------------------------------------------------------------
(* The invariants *)

LEMMA NextIInv == IInv /\ [Next]_vars => IInv'
<1> SUFFICES ASSUME IInv, [Next]_vars
             PROVE  IInv'
    OBVIOUS
<1>1. CASE Accept \/ AcceptClosed \/ AcceptFails \/ Spawn
    BY <1>1, AcceptIInv, LoopReturnsIInv, SpawnIInv
<1>2. CASE \E k \in Conn : HandleConn(k)
    BY <1>2, DecodeFailsIInv, DecodeSucceedsIInv, HandlerReturnsIInv, ReplyIInv, ReleaseIInv
       DEF HandleConn
<1>3. CASE \E x \in Closers : CloseListener(x) \/ CloseReturns(x)
    BY <1>3, CloseListenerIInv, CloseReturnsIInv
<1>4. CASE \E c \in Clients : SendKeys(c)
    BY <1>4, SendKeysIInv
<1>5. CASE UNCHANGED vars
    BY <1>5
       DEF vars, serverVars, IInv, TypeOK, Counted, SlotsMatchHandlers, Live, Placed, InQueue,
           NotDialled, Reported, ConnOf, Closing, ClosedMeansQuiet
<1> QED
    BY <1>1, <1>2, <1>3, <1>4, <1>5 DEF Next

LEMMA IInvAlways == Spec => []IInv
<1>1. Init => IInv
    BY InitIInv
<1>2. IInv /\ [Next]_vars => IInv'
    BY NextIInv
<1> QED
    BY <1>1, <1>2, PTL DEF Spec

\* The state of server and clients keeps its types; in particular the WaitGroup
\* never goes below zero, which would panic.
THEOREM TypeCorrect == Spec => []TypeOK
<1>1. IInv => TypeOK
    BY DEF IInv
<1> QED
    BY <1>1, IInvAlways, PTL

\* No path through handleConn loses a slot of the semaphore or gives one back
\* twice, and at most maxConcurrent handlers live.
THEOREM SlotsStayMatched == Spec => []SlotsMatchHandlers
<1>1. IInv => SlotsMatchHandlers
    BY DEF IInv, Counted
<1> QED
    BY <1>1, IInvAlways, PTL

\* When any Close has returned, the accept loop and all handlers have ended and
\* none starts again.
THEOREM ClosedServerIsQuiet == Spec => []ClosedMeansQuiet
<1>1. IInv => ClosedMeansQuiet
    BY DEF IInv, Closing
<1> QED
    BY <1>1, IInvAlways, PTL

\* SendKeys returns nil only if the handler function wrote this attempt's keys.
THEOREM SuccessWasTyped == Spec => []SuccessMeansTyped
<1>1. IInv => SuccessMeansTyped
    BY DEF IInv, Reported, SuccessMeansTyped
<1> QED
    BY <1>1, IInvAlways, PTL

-----------------------------------------------------------------------------
(* AgentServer implements HandlerService *)

Returned == \E x \in Closers : closer[x] = "returned"
Phase    == IF Returned THEN "closed" ELSE IF listening THEN "open" ELSE "closing"
Running  == {k \in Conn : handler[k] = "running"}
Handled  == {k \in Conn : handler[k] = "running" \/ result[k] \in {"ok", "error"}}

ServiceStep == Service!ServiceNext \/ UNCHANGED <<Phase, Running, Handled>>

\* Steps after which handler functions and Close are where they were.
LEMMA SameService ==
    ASSUME UNCHANGED <<listening, closer>>, Running' = Running, Handled' = Handled
    PROVE  ServiceStep
BY DEF ServiceStep, Phase, Returned

LEMMA CallStep ==
    ASSUME NEW k \in Conn, IInv, DecodeSucceeds(k)
    PROVE  Service!CallHandler(k)
<1>1. TypeOK /\ Counted /\ Reported /\ Closing
    BY DEF IInv
<1>2. /\ handler[k] = "decode" /\ handler' = [handler EXCEPT ![k] = "running"]
      /\ handler \in [Conn -> HandlerPC]
      /\ UNCHANGED <<listening, closer, result>>
    BY <1>1 DEF DecodeSucceeds, Step, At, TypeOK
<1>3. k \in Live /\ Running \subseteq Live \ {k}
    BY <1>2 DEF Live, Running
<1>4. ~Returned
    BY <1>1, <1>3 DEF Closing, ClosedMeansQuiet, Returned
<1>5. result[k] = "none"
    BY <1>1, <1>2 DEF Reported
<1>6. Cardinality(Running) < maxConcurrent
    <2>1. /\ IsFiniteSet(Live \ {k}) /\ Cardinality(Live \ {k}) = Cardinality(Live) - 1
          /\ Cardinality(Live) \in Nat /\ Cardinality(Live) <= maxConcurrent
        BY <1>1, <1>3, FS_RemoveElement, FS_CardinalityType DEF Counted, SlotsMatchHandlers
    <2>2. IsFiniteSet(Running) /\ Cardinality(Running) <= Cardinality(Live \ {k})
        BY <1>3, <2>1, FS_Subset
    <2>3. Cardinality(Running) \in Nat
        BY <2>2, FS_CardinalityType
    <2> QED
        BY <2>1, <2>2, <2>3, LimitsAssumption
<1>7. Phase # "closed" /\ Phase' = Phase
    BY <1>2, <1>4 DEF Phase, Returned
<1>8. k \notin Handled /\ Running' = Running \cup {k} /\ Handled' = Handled \cup {k}
    BY <1>2, <1>5 DEF Running, Handled
<1>9. Service!CallHandler(k) =
         (/\ Phase # "closed"
          /\ k \notin Handled
          /\ Cardinality(Running) < maxConcurrent
          /\ Running' = Running \cup {k}
          /\ Handled' = Handled \cup {k}
          /\ Phase' = Phase)
    BY DEF Service!CallHandler, Service!Cardinality, Cardinality, Phase, Returned, Running, Handled
<1> QED
    BY <1>6, <1>7, <1>8, <1>9

LEMMA ReturnStep ==
    ASSUME NEW k \in Conn, IInv, HandlerReturns(k)
    PROVE  Service!HandlerReturns(k)
<1>1. TypeOK
    BY DEF IInv
<1>2. /\ handler[k] = "running" /\ handler' = [handler EXCEPT ![k] = "reply"]
      /\ \E r \in {"ok", "error"} : result' = [result EXCEPT ![k] = r]
      /\ handler \in [Conn -> HandlerPC] /\ result \in [Conn -> Result]
      /\ UNCHANGED <<listening, closer>>
    BY <1>1 DEF HandlerReturns, Step, At, TypeOK
<1>3. k \in Running /\ Running' = Running \ {k} /\ Handled' = Handled
    BY <1>2 DEF Running, Handled
<1>4. Phase' = Phase
    BY <1>2 DEF Phase, Returned
<1> QED
    BY <1>3, <1>4 DEF Service!HandlerReturns, Phase, Returned, Running, Handled

LEMMA CloseListenerStep ==
    ASSUME NEW x \in Closers, IInv, CloseListener(x)
    PROVE  ServiceStep
<1>1. /\ closer[x] = "idle" /\ closer' = [closer EXCEPT ![x] = "waiting"]
      /\ closer \in [Closers -> {"idle", "waiting", "returned"}]
      /\ ~listening' /\ UNCHANGED <<handler, result>>
    BY DEF CloseListener, IInv, TypeOK
<1>2. (Returned' <=> Returned) /\ Running' = Running /\ Handled' = Handled
    BY <1>1 DEF Returned, Running, Handled
<1>3. CASE Returned \/ ~listening
    BY <1>1, <1>2, <1>3 DEF ServiceStep, Phase
<1>4. CASE ~Returned /\ listening
    <2>1. Phase = "open" /\ Phase' = "closing"
        BY <1>1, <1>2, <1>4 DEF Phase
    <2>2. Service!CloseListener
        BY <1>2, <2>1 DEF Service!CloseListener, Phase, Returned, Running, Handled
    <2> QED
        BY <2>2 DEF ServiceStep, Service!ServiceNext
<1> QED
    BY <1>3, <1>4

LEMMA CloseReturnsStep ==
    ASSUME NEW x \in Closers, IInv, CloseReturns(x)
    PROVE  ServiceStep
<1>1. TypeOK /\ Counted /\ Closing
    BY DEF IInv
<1>2. /\ closer[x] = "waiting" /\ closer' = [closer EXCEPT ![x] = "returned"]
      /\ closer \in [Closers -> {"idle", "waiting", "returned"}] /\ wg = 0
      /\ UNCHANGED <<listening, handler, result>>
    BY <1>1 DEF CloseReturns, serverVars, TypeOK
<1>3. Returned' /\ ~listening /\ Running' = Running /\ Handled' = Handled
    BY <1>1, <1>2 DEF Returned, Running, Handled, Closing
<1>4. Running = {}
    <2>1. Live = {}
        BY <1>1, <1>2, WaitGroupZero
    <2> QED
        BY <2>1 DEF Live, Running
<1>5. CASE Returned
    BY <1>3, <1>5 DEF ServiceStep, Phase
<1>6. CASE ~Returned
    <2>1. Phase = "closing" /\ Phase' = "closed"
        BY <1>3, <1>6 DEF Phase
    <2>2. Service!CloseReturns
        BY <1>3, <1>4, <2>1 DEF Service!CloseReturns, Phase, Returned, Running, Handled
    <2> QED
        BY <2>2 DEF ServiceStep, Service!ServiceNext
<1> QED
    BY <1>5, <1>6

\* The handler steps that are inside handleConn but outside the handler function.
LEMMA QuietHandlerStep ==
    ASSUME NEW k \in Conn, IInv, DecodeFails(k) \/ Reply(k) \/ Release(k)
    PROVE  ServiceStep
<1>1. TypeOK /\ Reported
    BY DEF IInv
<1>2. PICK to \in {"reply", "release", "done"} :
         /\ handler[k] \in {"decode", "reply", "release"}
         /\ handler' = [handler EXCEPT ![k] = to]
         /\ UNCHANGED <<listening, closer>>
    BY DEF DecodeFails, Reply, Release, Step, At
<1>3. handler \in [Conn -> HandlerPC] /\ result \in [Conn -> Result]
    BY <1>1 DEF TypeOK
<1>4. Running' = Running
    BY <1>2, <1>3 DEF Running
<1>5. Handled' = Handled
    <2>1. CASE DecodeFails(k)
        <3>1. handler[k] = "decode" /\ result' = [result EXCEPT ![k] = "rejected"]
            BY <2>1 DEF DecodeFails, Step, At
        <3>2. result[k] = "none"
            BY <1>1, <3>1 DEF Reported
        <3> QED
            BY <1>2, <1>3, <3>1, <3>2 DEF Handled
    <2>2. CASE UNCHANGED result
        BY <1>2, <1>3, <2>2 DEF Handled
    <2> QED
        BY <2>1, <2>2 DEF Reply, Release
<1> QED
    BY <1>2, <1>4, <1>5, SameService

LEMMA SpawnStep == IInv /\ Spawn => ServiceStep
<1> SUFFICES ASSUME IInv, Spawn
             PROVE  ServiceStep
    OBVIOUS
<1>1. /\ accepted \in Conn /\ handler[accepted] = "none" /\ handler \in [Conn -> HandlerPC]
      /\ handler' = [handler EXCEPT ![accepted] = "decode"]
      /\ UNCHANGED <<listening, closer, result>>
    BY DEF IInv, Placed, TypeOK, Spawn
<1>2. Running' = Running /\ Handled' = Handled
    BY <1>1 DEF Running, Handled
<1> QED
    BY <1>1, <1>2, SameService

LEMMA NextServiceStep == IInv /\ [Next]_vars => ServiceStep
<1> SUFFICES ASSUME IInv, [Next]_vars
             PROVE  ServiceStep
    OBVIOUS
<1>1. ASSUME UNCHANGED <<listening, closer, handler, result>>
      PROVE  ServiceStep
    BY <1>1, SameService DEF Running, Handled
<1>2. CASE Accept \/ AcceptClosed \/ AcceptFails \/ UNCHANGED vars
    BY <1>1, <1>2 DEF Accept, AcceptClosed, AcceptFails, LoopReturns, vars, serverVars
<1>3. CASE \E c \in Clients : SendKeys(c)
    BY <1>1, <1>3
       DEF SendKeys, Dial, DialFails, WriteRequest, HungUp, ReadResponse, ClientDeadline, serverVars
<1>4. CASE \E k \in Conn : HandleConn(k)
    BY <1>4, CallStep, ReturnStep, QuietHandlerStep
       DEF HandleConn, ServiceStep, Service!ServiceNext
<1>5. CASE Spawn
    BY <1>5, SpawnStep
<1>6. CASE \E x \in Closers : CloseListener(x) \/ CloseReturns(x)
    BY <1>6, CloseListenerStep, CloseReturnsStep
<1> QED
    BY <1>2, <1>3, <1>4, <1>5, <1>6 DEF Next

\* The server of protocol.go does what its owner relies on: at most one call of
\* the handler function for each connection, at most maxConcurrent at once,
\* and none running or starting once Close has returned.
THEOREM ServerImplementsService == Spec => ImplementsService
<1>1. Init => Service!ServiceInit
    BY DEF Init, Service!ServiceInit
<1>2. IInv /\ [Next]_vars => [Service!ServiceNext]_(Service!serviceVars)
    BY NextServiceStep DEF ServiceStep, Service!serviceVars, Phase, Returned, Running, Handled
<1> QED
    BY <1>1, <1>2, IInvAlways, PTL DEF Spec, ImplementsService, Service!ServiceSpec

===============================================================================
