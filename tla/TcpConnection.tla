--------------------------- MODULE TcpConnection ----------------------------
(***************************************************************************)
(* net/TcpConnection with what TcpServer does for it: one accepted         *)
(* connection, its io loop, the server's base loop and a peer.             *)
(*                                                                         *)
(* The server creates the connection in the base loop and establishes,     *)
(* closes and destroys it through functors that travel between the two     *)
(* loops (module EventLoop: each loop runs its functors once, in order).   *)
(* The user's callbacks run in the io loop and may send and shut down;     *)
(* one other thread may call shutdown().  That thread keeps its shared     *)
(* pointer until the functor it queued has run, and does not call send(),  *)
(* which aborts the process outside the io loop while connected.           *)
(***************************************************************************)
EXTENDS Naturals, Sequences

CONSTANTS
    MaxSent,    \* bound: bytes the user sends
    SockBuf     \* bound: bytes the kernel's send buffer holds

ASSUME MaxSentAssumption == MaxSent \in Nat
ASSUME SockBufAssumption == SockBuf \in Nat \ {0}

VARIABLES
    sameLoop,   \* whether getNextLoop() gave the connection the base loop
    state,      \* state_
    mapped,     \* connections_ of the server has the connection
    ioTasks,    \* functors queued in the io loop
    baseTasks,  \* functors queued in the base loop, when it is another one
    events,     \* channel_->events_
    index,      \* channel_->index_
    output,     \* outputBuffer_, as the numbers of its bytes
    sent,       \* history: number of bytes given to send()
    wire,       \* history: bytes accepted by ::write(), in order
    inflight,   \* how many of them the kernel still holds
    writeShut,  \* shutdown(SHUT_WR) was called
    peer,       \* what the peer has done to its side
    completing, \* handleWrite() is calling writeCompleteCallback_
    caller,     \* where the other thread is in shutdown()
    closes,     \* history: calls of handleClose()
    ups,        \* history: connectionCallback_ calls with the connection up
    downs       \* history: and with the connection down

vars == <<sameLoop, state, mapped, ioTasks, baseTasks, events, index, output, sent, wire, inflight,
          writeShut, peer, completing, caller, closes, ups, downs>>

channel == <<events, index>>
data == <<output, sent, wire, inflight>>
history == <<closes, ups, downs>>

Min(a, b) == IF a <= b THEN a ELSE b
Drop(s, n) == SubSeq(s, n + 1, Len(s))
Take(s, n) == SubSeq(s, 1, n)

(* newConnection(): the connection is in the map and connectEstablished() is on *)
(* its way to the io loop.  With the base loop as io loop runInLoop() calls it  *)
(* at once; it comes first there, too.                                          *)
Init ==
    /\ sameLoop \in BOOLEAN
    /\ state = "kConnecting" /\ mapped = TRUE
    /\ ioTasks = <<"connectEstablished">> /\ baseTasks = <<>>
    /\ events = {} /\ index = "kNew"
    /\ output = <<>> /\ sent = 0 /\ wire = <<>> /\ inflight = 0
    /\ writeShut = FALSE /\ peer = "open"
    /\ completing = FALSE /\ caller = "none"
    /\ closes = 0 /\ ups = 0 /\ downs = 0

----------------------------------------------------------------------------
(* Channel::update() through EventLoop to EPoller::updateChannel(): a channel   *)
(* that is not in the epoll set is added whatever its events, one that is there *)
(* is deleted when it has none.                                                 *)
UpdateChannel(ev) ==
    /\ events' = ev
    /\ index' = IF index = "kAdded" /\ ev = {} THEN "kDeleted" ELSE "kAdded"

isWriting == "write" \in events
CanWrite == ~writeShut /\ peer # "reset"
Room == SockBuf - inflight
Bytes(n) == [i \in 1..n |-> sent + i]

(* ::write() of s: what fits, or nothing with an error.  Afterwards rest is     *)
(* what outputBuffer_ holds.                                                    *)
WriteBytes(s, n, rest) ==
    /\ wire' = wire \o Take(s, n)
    /\ inflight' = inflight + n
    /\ output' = rest

(* User code runs in the io loop between functors and events, and inside        *)
(* writeCompleteCallback_; never once the connection is down.                   *)
InCallback == ups = 1 /\ downs = 0

(* Mutant: a message goes to the socket even when older bytes are buffered. *)
WrittenAtOnceAlways(n) == IF CanWrite THEN Min(n, Room) ELSE 0

(* How much of a new message sendInLoop() hands to the kernel directly: nothing *)
(* when older bytes wait or the write fails.                                    *)
WrittenAtOnce(n) ==
    IF ~isWriting /\ output = <<>> /\ CanWrite THEN Min(n, Room) ELSE 0

(* Mutant: the writable event is only asked for after a partial write. *)
SendWithoutEvent(n) ==
    /\ InCallback /\ sent + n <= MaxSent
    /\ sent' = sent + n
    /\ LET w == WrittenAtOnce(n)
       IN /\ WriteBytes(Bytes(n), w, output \o Drop(Bytes(n), w))
          /\ IF w > 0 /\ w < n /\ ~isWriting THEN UpdateChannel(events \cup {"write"})
             ELSE UNCHANGED channel
    /\ UNCHANGED <<sameLoop, state, mapped, ioTasks, baseTasks, writeShut, peer, completing, caller,
                   history>>

(* send() from the io loop, in any state: sendInLoop() writes at once if it     *)
(* can, buffers the rest and asks for the writable event.                       *)
Send(n) ==
    /\ InCallback /\ sent + n <= MaxSent
    /\ sent' = sent + n
    /\ LET w == WrittenAtOnce(n)
       IN /\ WriteBytes(Bytes(n), w, output \o Drop(Bytes(n), w))
          /\ IF w < n /\ ~isWriting THEN UpdateChannel(events \cup {"write"})
             ELSE UNCHANGED channel
    /\ UNCHANGED <<sameLoop, state, mapped, ioTasks, baseTasks, writeShut, peer, completing, caller,
                   history>>

(* Mutant: the write side is shut down whatever is still buffered. *)
ShutdownAtOnce == writeShut' = TRUE

(* shutdownInLoop(): only when no write is pending. *)
ShutdownInLoop == writeShut' = (writeShut \/ ~isWriting)

(* shutdown() from the io loop. *)
Shutdown ==
    /\ InCallback /\ state = "kConnected"
    /\ state' = "kDisconnecting"
    /\ ShutdownInLoop
    /\ UNCHANGED <<sameLoop, mapped, ioTasks, baseTasks, channel, data, peer, completing, caller,
                   history>>

(* shutdown() from another thread: it reads state_, writes it and queues the    *)
(* functor, with the io loop running in between.                                *)
ShutdownRead ==
    /\ caller = "none" /\ state = "kConnected"
    /\ caller' = "read"
    /\ UNCHANGED <<sameLoop, state, mapped, ioTasks, baseTasks, channel, data, writeShut, peer,
                   completing, history>>

ShutdownSet ==
    /\ caller = "read"
    /\ caller' = "set"
    /\ state' = "kDisconnecting"
    /\ UNCHANGED <<sameLoop, mapped, ioTasks, baseTasks, channel, data, writeShut, peer, completing,
                   history>>

ShutdownQueue ==
    /\ caller = "set"
    /\ caller' = "queued"
    /\ ioTasks' = Append(ioTasks, "shutdownInLoop")
    /\ UNCHANGED <<sameLoop, state, mapped, baseTasks, channel, data, writeShut, peer, completing,
                   history>>

----------------------------------------------------------------------------
(* Events of the socket, handled by the io loop *)

Polled(event) == index = "kAdded" /\ event \in events /\ ~completing

(* Mutant: the connection is taken from the map and that is all. *)
RemoveFromMap ==
    /\ mapped' = FALSE
    /\ UNCHANGED ioTasks

(* removeConnectionInLoop() queues connectDestroyed() in the io loop. *)
RemoveConnection ==
    /\ mapped' = FALSE
    /\ ioTasks' = Append(ioTasks, "connectDestroyed")

(* closeCallback_ is the server's removeConnection(), run in the base loop. *)
TellServer ==
    IF sameLoop THEN RemoveConnection /\ UNCHANGED baseTasks
    ELSE /\ baseTasks' = Append(baseTasks, "removeConnectionInLoop")
         /\ UNCHANGED <<mapped, ioTasks>>

(* Mutant: handleClose() leaves the channel's events as they are. *)
HandleCloseStillPolled ==
    /\ closes' = closes + 1
    /\ UNCHANGED channel
    /\ TellServer

(* handleClose() stops all events and tells the server. *)
HandleClose ==
    /\ closes' = closes + 1
    /\ UpdateChannel({})
    /\ TellServer

(* handleRead() finds the end of the stream (after a reset, once the error has  *)
(* been read and logged).  Data that arrives goes to inputBuffer_ and the user, *)
(* which may then Send and Shutdown.                                            *)
HandleRead ==
    /\ Polled("read") /\ peer # "open"
    /\ HandleClose
    /\ UNCHANGED <<sameLoop, state, data, writeShut, peer, completing, caller, ups, downs>>

(* handleWrite(): the socket takes some of outputBuffer_.  When it is empty the *)
(* event is switched off, writeCompleteCallback_ is called, and then a          *)
(* shutdown() that was waiting for the buffer is done.  (When ::write() fails   *)
(* nothing changes, and the event comes again at once.)                         *)
HandleWrite ==
    /\ Polled("write") /\ CanWrite /\ Room > 0
    /\ LET w == Min(Len(output), Room)
       IN /\ WriteBytes(output, w, Drop(output, w))
          /\ IF w = Len(output) THEN /\ UpdateChannel(events \ {"write"})
                                     /\ completing' = TRUE
             ELSE UNCHANGED <<channel, completing>>
    /\ UNCHANGED <<sameLoop, state, mapped, ioTasks, baseTasks, sent, writeShut, peer, caller,
                   history>>

(* Mutant: a shutdown() that waited for the buffer is forgotten. *)
WriteCompletedOnly ==
    /\ completing
    /\ completing' = FALSE
    /\ UNCHANGED <<sameLoop, writeShut, state, mapped, ioTasks, baseTasks, channel, data, peer,
                   caller, history>>

WriteCompleted ==
    /\ completing
    /\ completing' = FALSE
    /\ IF state = "kDisconnecting" THEN ShutdownInLoop ELSE UNCHANGED writeShut
    /\ UNCHANGED <<sameLoop, state, mapped, ioTasks, baseTasks, channel, data, peer, caller,
                   history>>

----------------------------------------------------------------------------
(* Functors *)

TakeIoTask(name) ==
    /\ ~completing
    /\ ioTasks # <<>> /\ Head(ioTasks) = name
    /\ ioTasks' = Tail(ioTasks)

ConnectEstablished ==
    /\ TakeIoTask("connectEstablished")
    /\ state' = "kConnected"
    /\ UpdateChannel(events \cup {"read"})
    /\ ups' = ups + 1
    /\ UNCHANGED <<sameLoop, mapped, baseTasks, data, writeShut, peer, completing, caller, closes,
                   downs>>

RunShutdownInLoop ==
    /\ TakeIoTask("shutdownInLoop")
    /\ ShutdownInLoop
    /\ UNCHANGED <<sameLoop, state, mapped, baseTasks, channel, data, peer, completing, caller,
                   history>>

RemoveConnectionInLoop ==
    /\ baseTasks # <<>>
    /\ baseTasks' = Tail(baseTasks)
    /\ RemoveConnection
    /\ UNCHANGED <<sameLoop, state, channel, data, writeShut, peer, completing, caller, history>>

(* connectDestroyed(): disableAllEvents() and, after the callback,              *)
(* removeChannel(), which leaves the channel out of epoll in any case.          *)
ConnectDestroyed ==
    /\ TakeIoTask("connectDestroyed")
    /\ state' = "kDisconnected"
    /\ downs' = downs + 1
    /\ events' = {} /\ index' = "kNew"
    /\ UNCHANGED <<sameLoop, mapped, baseTasks, data, writeShut, peer, completing, caller, closes,
                   ups>>

----------------------------------------------------------------------------
(* The peer *)

PeerDrains ==
    /\ inflight > 0 /\ peer # "reset"
    /\ inflight' = inflight - 1
    /\ UNCHANGED <<sameLoop, state, mapped, ioTasks, baseTasks, channel, output, sent, wire,
                   writeShut, peer, completing, caller, history>>

PeerCloses ==
    /\ peer = "open"
    /\ peer' \in {"closed", "reset"}
    /\ UNCHANGED <<sameLoop, state, mapped, ioTasks, baseTasks, channel, data, writeShut, completing,
                   caller, history>>

Next ==
    \/ \E n \in 1..MaxSent : Send(n)
    \/ Shutdown \/ ShutdownRead \/ ShutdownSet \/ ShutdownQueue
    \/ HandleRead \/ HandleWrite \/ WriteCompleted
    \/ ConnectEstablished \/ RunShutdownInLoop
    \/ RemoveConnectionInLoop \/ ConnectDestroyed
    \/ PeerDrains \/ PeerCloses

Spec == Init /\ [][Next]_vars

(* Both loops keep running their functors and the events poll reports, the      *)
(* other thread finishes its call, and a peer that has neither closed nor reset *)
(* keeps reading.  Nobody has to send, shut down or close.                      *)
Fairness ==
    /\ WF_vars(HandleRead) /\ WF_vars(HandleWrite) /\ WF_vars(WriteCompleted)
    /\ WF_vars(ConnectEstablished) /\ WF_vars(RunShutdownInLoop)
    /\ WF_vars(RemoveConnectionInLoop) /\ WF_vars(ConnectDestroyed)
    /\ WF_vars(ShutdownSet) /\ WF_vars(ShutdownQueue)
    /\ WF_vars(PeerDrains)

LiveSpec == Spec /\ Fairness

----------------------------------------------------------------------------
(* Properties *)

(* Every variable has its type. *)
TypeOK ==
    /\ state \in {"kConnecting", "kConnected", "kDisconnecting", "kDisconnected"}
    /\ sameLoop \in BOOLEAN /\ mapped \in BOOLEAN
    /\ writeShut \in BOOLEAN /\ completing \in BOOLEAN
    /\ ioTasks \in Seq({"connectEstablished", "connectDestroyed", "shutdownInLoop"})
    /\ baseTasks \in Seq({"removeConnectionInLoop"})
    /\ events \subseteq {"read", "write"}
    /\ index \in {"kNew", "kAdded", "kDeleted"}
    /\ output \in Seq(Nat) /\ wire \in Seq(Nat)
    /\ sent \in 0..MaxSent /\ inflight \in 0..SockBuf
    /\ peer \in {"open", "closed", "reset"}
    /\ caller \in {"none", "read", "set", "queued"}
    /\ closes \in Nat /\ ups \in Nat /\ downs \in Nat

(* The bytes on the wire and the bytes in outputBuffer_ are together exactly    *)
(* the bytes sent, in order, whatever mixture of direct, partial, failed and    *)
(* buffered writes produced them (TcpConnection.cc 61-94, 121-150).             *)
BytesInOrder == wire \o output = [i \in 1..sent |-> i]

(* Until the peer's end of stream is handled, bytes that wait in outputBuffer_  *)
(* have the writable event enabled: they are never stranded, and the event is   *)
(* never left on for an empty buffer (TcpConnection.cc 88-93, 129-130).         *)
NoStrandedBytes == closes = 0 => (isWriting <=> output # <<>>)

(* shutdown() never cuts off what was sent before it (TcpConnection.cc 135-137, *)
(* 180-186): when the write side is shut with bytes still buffered, these were  *)
(* sent after it, or the peer's end of stream had stopped all writing before.   *)
NoTruncation ==
    [][writeShut' /\ ~writeShut => output = <<>> \/ closes > 0]_vars

(* The server hears of the end once and the user hears of one beginning and one *)
(* end: the assertions on state_ (TcpConnection.cc 99, 157, 192) and on the map *)
(* (TcpServer.cc 89) hold however functors of the two loops, the peer and       *)
(* shutdown() of another thread interleave.                                     *)
OneLifecycle ==
    /\ closes <= 1 /\ ups <= 1 /\ downs <= closes
    /\ Polled("read") => state \in {"kConnected", "kDisconnecting"}
    /\ baseTasks # <<>> => mapped /\ Len(baseTasks) = 1
    /\ ioTasks # <<>> /\ Head(ioTasks) = "connectEstablished" =>
          state = "kConnecting" /\ ups = 0
    /\ ioTasks # <<>> /\ Head(ioTasks) = "connectDestroyed" =>
          state \in {"kConnected", "kDisconnecting"} /\ ~mapped /\ downs = 0

(* When the peer has closed, the connection is established, taken from the      *)
(* server's map and destroyed.                                                  *)
EventuallyDestroyed == (peer # "open") ~> (downs = 1 /\ ~mapped)

(* A shutdown() reaches the socket, after the buffer has drained, unless the    *)
(* peer ends the connection first.                                              *)
ShutdownHappens == (state = "kDisconnecting") ~> (writeShut \/ peer # "open")
=============================================================================
