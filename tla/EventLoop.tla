------------------------------- MODULE EventLoop -------------------------------
(***************************************************************************)
(* The single-threaded agent of poc3 (lib/agent/agent.mbt): Agent::new,    *)
(* the event loop run / poll_once, the length-prefixed messages of its     *)
(* socket, and cleanup.                                                    *)
(*                                                                         *)
(* The loop handles one poll's events from a snapshot of revents, which    *)
(* may be out of date when it gets to them, and every write to the master  *)
(* blocks the whole loop.  Descriptors and other things to be given back   *)
(* are members of the set held.  Chunks of text are counted; one read      *)
(* takes one chunk.                                                        *)
(*                                                                         *)
(* The user, the child, the pty and the processes that send messages are   *)
(* the environment.                                                        *)
(***************************************************************************)
EXTENDS Naturals, Sequences

CONSTANTS Msg,       \* messages, each sent on a connection of its own
          Fits,      \* those whose length is within 1..max_len
          PtyRoom,   \* chunks each direction of the pty holds
          MaxTyped,  \* bound: chunks typed and not yet read
          Backlog    \* connections the kernel queues

NoMsg == "none"

ASSUME MsgAssumption == NoMsg \notin Msg

ASSUME RoomAssumption ==
    /\ PtyRoom \in Nat \ {0}
    /\ MaxTyped \in Nat
    /\ Backlog \in Nat \ {0}
    /\ Fits \subseteq Msg

VARIABLES
    pc,          \* where the agent is
    held,        \* resources the agent holds
    child,       \* "none", "running", "exited" or "reaped"
    stdin_open,  \* self.stdin_open
    revents,     \* the result of the last poll, for its three descriptors
    current,     \* the message on the accepted connection
    next,        \* where the loop goes on after the write it is in
    typed, eof,  \* what can be read from stdin
    inbuf,       \* chunks written to the master that the child has not read
    outbuf,      \* chunks of output not read from the master
    printing,    \* the child is inside a write to its terminal
    queue,       \* connections waiting for accept
    sender,      \* how far each message's sender has come
    left,        \* messages whose sender has closed its end
    closed,      \* messages whose connection the agent has closed
    delivered    \* messages written to the master

io      == <<typed, eof, inbuf, outbuf, printing>>
sockets == <<queue, sender, left, closed>>
vars == <<pc, held, child, stdin_open, revents, current, next, io, sockets, delivered>>

-----------------------------------------------------------------------------

PC == {"open", "spawn", "listen", "nonblock", "tty", "poll", "stdin", "master", "socket",
       "header", "payload", "write", "closeClient", "restore", "unlink", "closeSocket",
       "closePty", "waitpid", "returned", "raised"}

Resource == {"master", "slave", "socket", "path", "client", "raw"}

\* Not connected yet, connected, having written the header, or everything.
SenderPC == {"idle", "connected", "header", "whole"}

NoEvents == [stdin |-> {}, master |-> {}, socket |-> {}]
Event    == {"IN", "HUP"}

SlaveOpen == child = "running" \/ "slave" \in held

Init ==
    /\ pc = "open"
    /\ held = {}
    /\ child = "none"
    /\ stdin_open = TRUE
    /\ revents = NoEvents
    /\ current = NoMsg
    /\ next = "poll"
    /\ typed = 0 /\ eof = FALSE
    /\ inbuf = 0 /\ outbuf = 0
    /\ printing = FALSE
    /\ queue = <<>>
    /\ sender = [m \in Msg |-> "idle"]
    /\ left = {}
    /\ closed = {}
    /\ delivered = {}

-----------------------------------------------------------------------------
(* Agent::new *)

\* Go on to `to` with the resources hs, and nothing else changed.
Move(to, hs) ==
    /\ pc' = to
    /\ held' = hs
    /\ UNCHANGED <<stdin_open, revents, current, next, io, sender, left, delivered>>

\* Closing the listening socket resets the connections in its queue.
DropQueue ==
    /\ queue' = <<>>
    /\ closed' = closed \cup {m \in Msg : \E i \in 1..Len(queue) : queue[i] = m}

PtyOpen ==
    /\ pc = "open"
    /\ \/ Move("spawn", {"master", "slave"})
       \/ Move("raised", {})
    /\ UNCHANGED <<child, queue, closed>>

\* pty_spawn closes the slave when it succeeds; when it fails pty_close closes
\* the master only.
PtySpawn ==
    /\ pc = "spawn"
    /\ \/ Move("listen", held \ {"slave"}) /\ child' = "running"
       \/ Move("raised", held \ {"master"}) /\ UNCHANGED child
    /\ UNCHANGED <<queue, closed>>

\* sock_listen may fail before or after bind has made the path.
SockListen ==
    /\ pc = "listen"
    /\ \/ Move("nonblock", held \cup {"socket", "path"})
       \/ \E bound \in {{}, {"path"}} : Move("raised", (held \ {"master"}) \cup bound)
    /\ UNCHANGED <<child, queue, closed>>

SetNonblocking ==
    /\ pc = "nonblock"
    /\ \/ Move("tty", held) /\ UNCHANGED <<queue, closed>>
       \/ Move("raised", held \ {"socket", "path", "master"}) /\ DropQueue
    /\ UNCHANGED child

\* stdin is no terminal, or its mode cannot be saved, or it is made raw.
TtySetup ==
    /\ pc = "tty"
    /\ \E hs \in {held, held \cup {"raw"}} : Move("poll", hs)
    /\ UNCHANGED <<child, queue, closed>>

-----------------------------------------------------------------------------
(* poll_once *)

StdinEvents  == IF ~stdin_open THEN {}
                ELSE (IF typed > 0 \/ eof THEN {"IN"} ELSE {})
                         \cup (IF eof THEN {"HUP"} ELSE {})
MasterEvents == (IF outbuf > 0 THEN {"IN"} ELSE {})
                    \cup (IF ~SlaveOpen THEN {"HUP"} ELSE {})
SocketEvents == IF queue # <<>> THEN {"IN"} ELSE {}

\* io_poll blocks until something is ready.
Poll ==
    LET ready == [stdin |-> StdinEvents, master |-> MasterEvents, socket |-> SocketEvents]
    IN /\ pc = "poll"
       /\ ready # NoEvents
       /\ revents' = ready
       /\ pc' = "stdin"
       /\ UNCHANGED <<held, child, stdin_open, current, next, io, sockets, delivered>>

\* io_poll fails: the loop ends.
PollFails ==
    /\ pc = "poll"
    /\ Move("restore", held)
    /\ UNCHANGED <<child, queue, closed>>

\* Lines 151-168: a chunk goes to the master (a blocking write), the end of
\* stdin or a hang-up closes it.
Stdin ==
    LET reads == "IN" \in revents.stdin /\ typed > 0
    IN /\ pc = "stdin"
       /\ typed' = IF reads THEN typed - 1 ELSE typed
       /\ stdin_open' = (stdin_open /\ "HUP" \notin revents.stdin
                                    /\ ("IN" \in revents.stdin => reads))
       /\ pc' = IF reads THEN "write" ELSE "master"
       /\ next' = "master"
       /\ UNCHANGED <<held, child, revents, current, eof, inbuf, outbuf, printing, sockets,
                      delivered>>

\* io_write to the master: it waits while the pty is full, and fails, which is
\* ignored, when nobody holds the slave.
Write ==
    /\ pc = "write"
    /\ \/ /\ inbuf < PtyRoom
          /\ inbuf' = inbuf + 1
          /\ delivered' = IF current = NoMsg THEN delivered ELSE delivered \cup {current}
       \/ /\ ~SlaveOpen
          /\ UNCHANGED <<inbuf, delivered>>
    /\ pc' = next
    /\ UNCHANGED <<held, child, stdin_open, revents, current, next, typed, eof, outbuf,
                   printing, sockets>>

\* Lines 170-181: one chunk of output goes to stdout; a hang-up ends the loop,
\* whatever else the pty still holds.
Master ==
    /\ pc = "master"
    /\ outbuf' = IF "IN" \in revents.master /\ outbuf > 0 THEN outbuf - 1 ELSE outbuf
    /\ pc' = IF "HUP" \in revents.master THEN "restore" ELSE "socket"
    /\ UNCHANGED <<held, child, stdin_open, revents, current, next, typed, eof, inbuf,
                   printing, sockets, delivered>>

\* sock_accept, which may fail.
Socket ==
    /\ pc = "socket"
    /\ \/ /\ "IN" \in revents.socket
          /\ current' = Head(queue)
          /\ queue' = Tail(queue)
          /\ held' = held \cup {"client"}
          /\ pc' = "header"
       \/ /\ pc' = "poll"
          /\ UNCHANGED <<current, queue, held>>
    /\ UNCHANGED <<child, stdin_open, revents, next, io, sender, left, closed, delivered>>

\* A poll of the connection reports data and no hang-up.
HeaderReady == sender[current] \in {"header", "whole"} /\ current \notin left

\* Mutant of ReadHeader: no timeout, the loop waits for the header.
ReadHeaderNoTimeout ==
    /\ pc = "header"
    /\ HeaderReady \/ current \in left
    /\ pc' = IF HeaderReady /\ current \in Fits THEN "payload" ELSE "closeClient"
    /\ UNCHANGED <<held, child, stdin_open, revents, current, next, io, sockets, delivered>>

\* read_socket_message up to line 258: without a header within timeout_ms, with
\* a sender that has closed, or with a length out of bounds there is no message.
ReadHeader ==
    /\ pc = "header"
    /\ pc' = IF HeaderReady /\ current \in Fits THEN "payload" ELSE "closeClient"
    /\ UNCHANGED <<held, child, stdin_open, revents, current, next, io, sockets, delivered>>

\* Mutant of ReadPayload: a short read is not noticed.
ReadPayloadUnchecked ==
    /\ pc = "payload"
    /\ pc' = "write"
    /\ next' = "closeClient"
    /\ UNCHANGED <<held, child, stdin_open, revents, current, io, sockets, delivered>>

\* Lines 259-265: one read that does not wait; bytes of a sender that has closed
\* since are still there.
ReadPayload ==
    /\ pc = "payload"
    /\ pc' = IF sender[current] = "whole" THEN "write" ELSE "closeClient"
    /\ next' = "closeClient"
    /\ UNCHANGED <<held, child, stdin_open, revents, current, io, sockets, delivered>>

\* Mutant of CloseClient: the connection is closed after a message only.
CloseClientAfterMessage ==
    /\ pc = "closeClient"
    /\ pc' = "poll"
    /\ held' = IF current \in delivered THEN held \ {"client"} ELSE held
    /\ closed' = closed \cup {current}
    /\ current' = NoMsg
    /\ UNCHANGED <<child, stdin_open, revents, next, io, queue, sender, left, delivered>>

CloseClient ==
    /\ pc = "closeClient"
    /\ pc' = "poll"
    /\ held' = held \ {"client"}
    /\ closed' = closed \cup {current}
    /\ current' = NoMsg
    /\ UNCHANGED <<child, stdin_open, revents, next, io, queue, sender, left, delivered>>

-----------------------------------------------------------------------------
(* cleanup and the end of run *)

\* Mutant of TtyRestore: the mode is restored only once the child has exited.
TtyRestoreAfterExit ==
    /\ pc = "restore"
    /\ Move("unlink", IF child = "running" THEN held ELSE held \ {"raw"})
    /\ UNCHANGED <<child, queue, closed>>

TtyRestore ==
    /\ pc = "restore"
    /\ Move("unlink", held \ {"raw"})
    /\ UNCHANGED <<child, queue, closed>>

SockUnlink ==
    /\ pc = "unlink"
    /\ Move("closeSocket", held \ {"path"})
    /\ UNCHANGED <<child, queue, closed>>

SockClose ==
    /\ pc = "closeSocket"
    /\ Move("closePty", held \ {"socket"})
    /\ DropQueue
    /\ UNCHANGED child

PtyClose ==
    /\ pc = "closePty"
    /\ Move("waitpid", held \ {"master"})
    /\ UNCHANGED <<child, queue, closed>>

\* Mutant of WaitPid: WNOHANG.
WaitPidNoHang ==
    /\ pc = "waitpid"
    /\ child' = IF child = "exited" THEN "reaped" ELSE child
    /\ Move("returned", held)
    /\ UNCHANGED <<queue, closed>>

WaitPid ==
    /\ pc = "waitpid"
    /\ child = "exited"
    /\ child' = "reaped"
    /\ Move("returned", held)
    /\ UNCHANGED <<queue, closed>>

-----------------------------------------------------------------------------
(* The environment, while the agent is there *)

Alive == pc \notin {"returned", "raised"}

Type ==
    /\ Alive
    /\ ~eof
    /\ \/ typed < MaxTyped /\ typed' = typed + 1 /\ UNCHANGED eof
       \/ eof' = TRUE /\ UNCHANGED typed
    /\ UNCHANGED <<pc, held, child, stdin_open, revents, current, next, inbuf, outbuf,
                   printing, sockets, delivered>>

ChildStep(change) ==
    /\ child = "running"
    /\ change
    /\ UNCHANGED <<pc, held, stdin_open, revents, current, next, typed, eof, sockets, delivered>>

ChildReads == ChildStep(/\ ~printing
                        /\ inbuf > 0
                        /\ inbuf' = inbuf - 1
                        /\ UNCHANGED <<child, outbuf, printing>>)

\* The child writes to its terminal, and waits while that is full.
ChildPrints == ChildStep(\/ /\ ~printing
                            /\ printing' = TRUE
                            /\ UNCHANGED <<child, inbuf, outbuf>>
                         \/ /\ printing /\ outbuf < PtyRoom
                            /\ printing' = FALSE
                            /\ outbuf' = outbuf + 1
                            /\ UNCHANGED <<child, inbuf>>)

\* On its own, or because its terminal is gone.
ChildExits == ChildStep(/\ child' = "exited"
                        /\ printing' = FALSE
                        /\ UNCHANGED <<inbuf, outbuf>>)

Sends(m, from, to) ==
    /\ Alive
    /\ sender[m] = from
    /\ m \notin left \cup closed
    /\ sender' = [sender EXCEPT ![m] = to]
    /\ UNCHANGED <<pc, held, child, stdin_open, revents, current, next, io, left, closed, delivered>>

Connect(m) ==
    /\ Sends(m, "idle", "connected")
    /\ "path" \in held /\ "socket" \in held
    /\ Len(queue) < Backlog
    /\ queue' = Append(queue, m)

\* write_socket_message: the header, then the payload.
WriteHeader(m)  == Sends(m, "connected", "header") /\ UNCHANGED queue
WritePayload(m) == Sends(m, "header", "whole") /\ UNCHANGED queue

\* A sender closes its end when it has written everything, or dies.
Leave(m) ==
    /\ Alive
    /\ sender[m] # "idle" /\ m \notin left
    /\ left' = left \cup {m}
    /\ UNCHANGED <<pc, held, child, stdin_open, revents, current, next, io, queue, sender,
                   closed, delivered>>

-----------------------------------------------------------------------------

New     == PtyOpen \/ PtySpawn \/ SockListen \/ SetNonblocking \/ TtySetup
Loop    == Poll \/ Stdin \/ Write \/ Master \/ Socket \/ ReadHeader \/ ReadPayload \/ CloseClient
Cleanup == TtyRestore \/ SockUnlink \/ SockClose \/ PtyClose \/ WaitPid
AgentStep == New \/ Loop \/ Cleanup

Next == \/ AgentStep
        \/ PollFails
        \/ Type
        \/ ChildReads
        \/ ChildPrints
        \/ ChildExits
        \/ \E m \in Msg : Connect(m) \/ WriteHeader(m) \/ WritePayload(m) \/ Leave(m)

\* The agent runs when it can, and poll's timeout passes.  Nothing is assumed of
\* the user and the senders.
Spec == Init /\ [][Next]_vars /\ WF_vars(AgentStep)

\* As Spec, with a child that goes on printing and reading when it can and
\* senders that go on writing.
SpecLively == /\ Spec
              /\ WF_vars(ChildReads)
              /\ WF_vars(ChildPrints)
              /\ \A m \in Msg : WF_vars(WriteHeader(m)) /\ WF_vars(WritePayload(m))

-----------------------------------------------------------------------------
(* Properties *)

TypeOK ==
    /\ pc \in PC
    /\ held \subseteq Resource
    /\ child \in {"none", "running", "exited", "reaped"}
    /\ stdin_open \in BOOLEAN
    /\ revents \in [stdin : SUBSET Event, master : SUBSET Event, socket : SUBSET Event]
    /\ current \in Msg \cup {NoMsg}
    /\ next \in PC
    /\ typed \in 0..MaxTyped
    /\ eof \in BOOLEAN
    /\ inbuf \in 0..PtyRoom
    /\ outbuf \in 0..PtyRoom
    /\ printing \in BOOLEAN
    /\ queue \in Seq(Msg)
    /\ sender \in [Msg -> SenderPC]
    /\ left \subseteq Msg
    /\ closed \subseteq Msg
    /\ delivered \subseteq Msg

\* Nothing but a complete message of an allowed length is typed, however its
\* two writes and its sender's exit fall between the agent's reads.
OnlyWholeMessagesTyped ==
    delivered \subseteq {m \in Fits : sender[m] = "whole"}

\* Between two rounds of the loop no connection is left open, whichever way
\* reading its message ended.
ClientAlwaysClosed == pc = "poll" => "client" \notin held /\ current = NoMsg

\* The user's terminal is out of raw mode when run waits for the child, and
\* whenever the agent has ended, by a result or by an error.
TerminalRestored == pc \in {"waitpid", "returned", "raised"} => "raw" \notin held

\* When run returns it has given everything back and waited for the child.  An
\* Agent::new that fails half-way leaves one thing at most: the slave when the
\* child could not be spawned, or the path when listen failed after bind.
RunReleasesAll ==
    /\ pc = "returned" => held = {} /\ child = "reaped"
    /\ pc = "raised" => held \in {{}, {"slave"}, {"path"}}

\* The child's exit ends the agent, even with an idle user, a sender that
\* connected and says nothing, or a write that was waiting for the child.
ChildExitEndsAgent == child = "exited" ~> ~Alive

\* A read that finds no data "can be retried": a message whose header the agent
\* has read is typed, if its sender stays and the child runs.
HeaderLeadsToMessage ==
    \A m \in Msg : pc = "payload" /\ current = m ~>
                      m \in delivered \/ m \in left \/ child # "running"

================================================================================
