---------------------------- MODULE EventLoopProofs ----------------------------
(***************************************************************************)
(* Proofs of EventLoop's safety properties, for any set of messages and    *)
(* any capacity of pty and queue.                                          *)
(*                                                                         *)
(* What the agent holds depends on where it is, and in the middle of the   *)
(* loop on whether the write it is in was for stdin or for a message.      *)
(* IInv states that for every place.                                       *)
(***************************************************************************)
EXTENDS EventLoop, SequenceTheorems, TLAPS

-----------------------------------------------------------------------------
(* The inductive invariant *)

\* The agent has a connection: it reads a message from it, types it or closes it.
WithClient == \/ pc \in {"header", "payload", "closeClient"}
              \/ pc = "write" /\ next = "closeClient"

\* The agent has still to look at the events of the socket.
BeforeSocket == \/ pc \in {"stdin", "master", "socket"}
                \/ pc = "write" /\ next = "master"

InLoop == pc = "poll" \/ WithClient \/ BeforeSocket

\* What the agent holds at each place.
HeldStages ==
    /\ pc = "spawn" => held = {"master", "slave"}
    /\ pc = "listen" => held = {"master"}
    /\ pc \in {"nonblock", "tty"} => held = {"master", "socket", "path"}
    /\ InLoop \/ pc = "restore" => held \ {"raw", "client"} = {"master", "socket", "path"}
    /\ pc \in {"poll", "restore"} \/ BeforeSocket => "client" \notin held
    /\ pc = "unlink" => held = {"master", "socket", "path"}
    /\ pc = "closeSocket" => held = {"master", "socket"}
    /\ pc = "closePty" => held = {"master"}
    /\ pc \in {"open", "waitpid", "returned"} => held = {}
    /\ pc = "raised" => held \in {{}, {"slave"}, {"path"}}

ChildStages ==
    /\ pc \in {"open", "spawn"} => child = "none"
    /\ pc \notin {"open", "spawn", "returned", "raised"} => child \in {"running", "exited"}
    /\ pc = "returned" => child = "reaped"

\* A message is current exactly while there is a connection; it is read on and
\* typed only if it fits and is complete.
CurrentStages ==
    /\ pc = "write" => next \in {"master", "closeClient"}
    /\ WithClient <=> current # NoMsg
    /\ pc = "payload" => current \in Fits
    /\ pc = "write" /\ next = "closeClient" => current \in Fits /\ sender[current] = "whole"

\* A connection that poll has reported is still there when the loop comes to it.
AcceptReady == BeforeSocket /\ "IN" \in revents.socket => queue # <<>>

IInv == /\ TypeOK
        /\ HeldStages
        /\ ChildStages
        /\ CurrentStages
        /\ AcceptReady
        /\ OnlyWholeMessagesTyped

-----------------------------------------------------------------------------

LEMMA InitIInv == Init => IInv
<1> SUFFICES ASSUME Init
             PROVE  IInv
    OBVIOUS
<1>1. {stdin_open, eof, printing} \subseteq BOOLEAN
    BY Zenon DEF Init
<1>2. /\ queue \in Seq(Msg)
      /\ revents \in [stdin : SUBSET Event, master : SUBSET Event, socket : SUBSET Event]
    BY EmptySeq DEF Init, NoEvents
<1>3. TypeOK
    BY <1>1, <1>2, RoomAssumption DEF Init, TypeOK, PC, SenderPC
<1> QED
    BY <1>3, MsgAssumption
       DEF Init, IInv, HeldStages, ChildStages, CurrentStages, AcceptReady,
           OnlyWholeMessagesTyped, InLoop, WithClient, BeforeSocket

\* Agent::new.
LEMMA NewIInv == IInv /\ (PtyOpen \/ PtySpawn \/ SockListen \/ SetNonblocking \/ TtySetup) => IInv'
<1> SUFFICES ASSUME IInv, PtyOpen \/ PtySpawn \/ SockListen \/ SetNonblocking \/ TtySetup
             PROVE  IInv'
    OBVIOUS
<1> USE RoomAssumption, MsgAssumption
<1> USE DEF IInv, TypeOK, PC, Resource, HeldStages, ChildStages, CurrentStages, AcceptReady,
            OnlyWholeMessagesTyped, InLoop, WithClient, BeforeSocket
<1>1. CASE PtyOpen
    BY <1>1 DEF PtyOpen, Move, io
<1>2. CASE PtySpawn
    BY <1>2 DEF PtySpawn, Move, io
<1>3. CASE SockListen
    BY <1>3 DEF SockListen, Move, io
<1>4. CASE SetNonblocking
    <2>1. queue' = queue \/ queue' = <<>>
        BY <1>4 DEF SetNonblocking, DropQueue
    <2>2. queue \in Seq(Msg) /\ <<>> \in Seq(Msg)
        BY EmptySeq
    <2>3. queue' \in Seq(Msg)
        BY <2>1, <2>2
    <2> QED
        BY <1>4, <2>3 DEF SetNonblocking, Move, DropQueue, io
<1>5. CASE TtySetup
    BY <1>5 DEF TtySetup, Move, io
<1> QED
    BY <1>1, <1>2, <1>3, <1>4, <1>5

\* One round of poll_once.
LEMMA LoopIInv == IInv /\ (Poll \/ Stdin \/ Write \/ Master \/ Socket \/ ReadHeader \/ ReadPayload \/ CloseClient \/ PollFails) => IInv'
<1> SUFFICES ASSUME IInv, Poll \/ Stdin \/ Write \/ Master \/ Socket \/ ReadHeader \/ ReadPayload \/ CloseClient \/ PollFails
             PROVE  IInv'
    OBVIOUS
<1> USE RoomAssumption, MsgAssumption
<1> USE DEF IInv, TypeOK, PC, Resource, HeldStages, ChildStages, CurrentStages, AcceptReady,
            OnlyWholeMessagesTyped, InLoop, WithClient, BeforeSocket
<1>1. CASE Poll
    <2>1. /\ revents' \in [stdin : SUBSET Event, master : SUBSET Event, socket : SUBSET Event]
          /\ "IN" \in revents'.socket => queue # <<>>
        BY <1>1 DEF Poll, StdinEvents, MasterEvents, SocketEvents, Event
    <2> QED
        BY <1>1, <2>1 DEF Poll, io, sockets
<1>2. CASE Stdin
    <2>1. stdin_open' \in BOOLEAN
        BY <1>2, Zenon DEF Stdin
    <2> QED
        BY <1>2, <2>1 DEF Stdin, sockets
<1>3. CASE Write
    BY <1>3 DEF Write, io, sockets
<1>4. CASE Master
    BY <1>4 DEF Master, io, sockets
<1>5. CASE Socket
    <2>1. CASE UNCHANGED <<current, queue, held>> /\ pc' = "poll"
        BY <1>5, <2>1 DEF Socket, io
    <2>2. CASE "IN" \in revents.socket /\ current' = Head(queue)
        <3>1. queue # <<>> /\ queue \in Seq(Msg)
            BY <1>5, <2>2 DEF Socket
        <3>2. Head(queue) \in Msg /\ Tail(queue) \in Seq(Msg)
            BY <3>1, HeadTailProperties
        <3> QED
            BY <1>5, <2>2, <3>2 DEF Socket, io
    <2> QED
        BY <1>5, <2>1, <2>2 DEF Socket
<1>6. CASE ReadHeader
    BY <1>6 DEF ReadHeader, io, sockets, HeaderReady
<1>7. CASE ReadPayload
    BY <1>7 DEF ReadPayload, io, sockets
<1>8. CASE CloseClient
    BY <1>8 DEF CloseClient, io, sockets
<1>9. CASE PollFails
    BY <1>9 DEF PollFails, Move, io
<1> QED
    BY <1>1, <1>2, <1>3, <1>4, <1>5, <1>6, <1>7, <1>8, <1>9

\* cleanup and the end of run.
LEMMA CleanupIInv == IInv /\ (TtyRestore \/ SockUnlink \/ SockClose \/ PtyClose \/ WaitPid) => IInv'
<1> SUFFICES ASSUME IInv, TtyRestore \/ SockUnlink \/ SockClose \/ PtyClose \/ WaitPid
             PROVE  IInv'
    OBVIOUS
<1> USE RoomAssumption, MsgAssumption
<1> USE DEF IInv, TypeOK, PC, Resource, HeldStages, ChildStages, CurrentStages, AcceptReady,
            OnlyWholeMessagesTyped, InLoop, WithClient, BeforeSocket
<1>1. CASE TtyRestore
    BY <1>1 DEF TtyRestore, Move, io
<1>2. CASE SockUnlink
    BY <1>2 DEF SockUnlink, Move, io
<1>3. CASE SockClose
    <2>1. queue' = queue \/ queue' = <<>>
        BY <1>3 DEF SockClose, DropQueue
    <2>2. queue \in Seq(Msg) /\ <<>> \in Seq(Msg)
        BY EmptySeq
    <2>3. queue' \in Seq(Msg)
        BY <2>1, <2>2
    <2> QED
        BY <1>3, <2>3 DEF SockClose, Move, DropQueue, io
<1>4. CASE PtyClose
    BY <1>4 DEF PtyClose, Move, io
<1>5. CASE WaitPid
    BY <1>5 DEF WaitPid, Move, io
<1> QED
    BY <1>1, <1>2, <1>3, <1>4, <1>5

\* The user and the child.
LEMMA ChildIInv == IInv /\ (Type \/ ChildReads \/ ChildPrints \/ ChildExits) => IInv'
<1> SUFFICES ASSUME IInv, Type \/ ChildReads \/ ChildPrints \/ ChildExits
             PROVE  IInv'
    OBVIOUS
<1> USE RoomAssumption, MsgAssumption
<1> USE DEF IInv, TypeOK, PC, Resource, HeldStages, ChildStages, CurrentStages, AcceptReady,
            OnlyWholeMessagesTyped, InLoop, WithClient, BeforeSocket
<1>1. CASE Type
    <2>1. eof' \in BOOLEAN
        BY <1>1, Zenon DEF Type
    <2> QED
        BY <1>1, <2>1 DEF Type, sockets
<1>2. CASE ChildReads
    BY <1>2 DEF ChildReads, ChildStep, sockets
<1>3. CASE ChildPrints
    <2>1. printing' \in BOOLEAN
        BY <1>3, Zenon DEF ChildPrints, ChildStep
    <2> QED
        BY <1>3, <2>1 DEF ChildPrints, ChildStep, sockets
<1>4. CASE ChildExits
    <2>1. printing' \in BOOLEAN
        BY <1>4, Zenon DEF ChildExits, ChildStep
    <2> QED
        BY <1>4, <2>1 DEF ChildExits, ChildStep, sockets
<1> QED
    BY <1>1, <1>2, <1>3, <1>4

\* The senders.
LEMMA SenderIInv ==
    ASSUME NEW m \in Msg, IInv, Connect(m) \/ WriteHeader(m) \/ WritePayload(m) \/ Leave(m)
    PROVE  IInv'
<1> USE RoomAssumption, MsgAssumption
<1> USE DEF IInv, TypeOK, PC, Resource, HeldStages, ChildStages, CurrentStages, AcceptReady,
            OnlyWholeMessagesTyped, InLoop, WithClient, BeforeSocket
<1>1. CASE Connect(m)
    <2>1. queue' \in Seq(Msg) /\ queue' # <<>>
        BY <1>1, AppendProperties DEF Connect
    <2> QED
        BY <1>1, <2>1 DEF Connect, Sends, SenderPC, io
<1>2. CASE WriteHeader(m) \/ WritePayload(m)
    <2>1. PICK to \in {"header", "whole"} :
             sender[m] # "whole" /\ sender' = [sender EXCEPT ![m] = to]
        BY <1>2 DEF WriteHeader, WritePayload, Sends
    <2>2. /\ sender' \in [Msg -> SenderPC]
          /\ \A q \in Msg : sender[q] = "whole" => sender'[q] = "whole"
        BY <2>1 DEF SenderPC
    <2>3. UNCHANGED <<pc, held, child, stdin_open, revents, current, next, io, queue, left, closed,
                      delivered>>
        BY <1>2 DEF WriteHeader, WritePayload, Sends
    <2> QED
        BY <2>2, <2>3 DEF io
<1>3. CASE Leave(m)
    BY <1>3 DEF Leave, io
<1> QED
    BY <1>1, <1>2, <1>3

LEMMA NextIInv == IInv /\ [Next]_vars => IInv'
<1> SUFFICES ASSUME IInv, [Next]_vars
             PROVE  IInv'
    OBVIOUS
<1>1. CASE Next
    BY <1>1, NewIInv, LoopIInv, CleanupIInv, ChildIInv, SenderIInv
       DEF Next, AgentStep, New, Loop, Cleanup
<1>2. CASE UNCHANGED vars
    BY <1>2
       DEF vars, io, sockets, IInv, TypeOK, HeldStages, ChildStages, CurrentStages, AcceptReady,
           OnlyWholeMessagesTyped, InLoop, WithClient, BeforeSocket
<1> QED
    BY <1>1, <1>2

LEMMA IInvAlways == Spec => []IInv
<1>1. Init => IInv
    BY InitIInv
<1>2. IInv /\ [Next]_vars => IInv'
    BY NextIInv
<1> QED
    BY <1>1, <1>2, PTL DEF Spec

-----------------------------------------------------------------------------
(* The theorems *)

\* The agent's state keeps its types; in particular accept is called only when a
\* connection waits and no buffer is overrun.
THEOREM TypeCorrect == Spec => []TypeOK
<1>1. IInv => TypeOK
    BY DEF IInv
<1> QED
    BY <1>1, IInvAlways, PTL

\* read_socket_message hands over only complete messages of an allowed length.
THEOREM TypedMessagesAreWhole == Spec => []OnlyWholeMessagesTyped
<1>1. IInv => OnlyWholeMessagesTyped
    BY DEF IInv
<1> QED
    BY <1>1, IInvAlways, PTL

\* However reading a message ended, its connection is closed before the next
\* poll.
THEOREM ClientsAreClosed == Spec => []ClientAlwaysClosed
<1>1. IInv => ClientAlwaysClosed
    BY DEF IInv, HeldStages, CurrentStages, WithClient, ClientAlwaysClosed
<1> QED
    BY <1>1, IInvAlways, PTL

\* The terminal is out of raw mode before run waits for the child and on every
\* way out of the agent.
THEOREM TerminalIsRestored == Spec => []TerminalRestored
<1>1. IInv => TerminalRestored
    BY DEF IInv, HeldStages, TerminalRestored
<1> QED
    BY <1>1, IInvAlways, PTL

\* run returns with every descriptor, the socket's path and the terminal's mode
\* given back, and the child waited for.
THEOREM EverythingIsReleased == Spec => []RunReleasesAll
<1>1. IInv => RunReleasesAll
    BY DEF IInv, HeldStages, ChildStages, RunReleasesAll
<1> QED
    BY <1>1, IInvAlways, PTL

================================================================================
