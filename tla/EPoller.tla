------------------------------ MODULE EPoller -------------------------------
(***************************************************************************)
(* reactor/Channel and reactor/EPoller in one io loop, driven by the two   *)
(* owners that create and destroy Channels while the loop runs:            *)
(* TcpConnection, whose Channel dies with it, and Connector, which gives   *)
(* up its Channel but may pass the file descriptor on to a TcpConnection.  *)
(*                                                                         *)
(* The kernel keeps a raw Channel pointer for every descriptor in the      *)
(* epoll set, the poller keeps one in channels_, and the loop walks over a *)
(* list of them whose callbacks change all of this.                        *)
(***************************************************************************)
EXTENDS Naturals

CONSTANTS
    Channels,   \* bound: Channel objects ever created
    Fds,        \* bound: descriptors, reused after close()
    NoChannel,  \* the null pointer
    NoFd        \* the descriptor of a Channel not yet created

ASSUME NoChannelAssumption == NoChannel \notin Channels
ASSUME NoFdAssumption == NoFd \notin Fds

Events == {"read", "write"}

VARIABLES
    life,       \* what the owner of a Channel has done with it
    fdOf,       \* fd_
    events,     \* events_
    revents,    \* revents_, set by poll; forgotten once handled
    index,      \* index_
    channels,   \* EPoller::channels_
    epoll,      \* the kernel's epoll set: data.ptr of each descriptor
    interest,   \* and the events it waits for
    open,       \* open descriptors
    failed,     \* history: an epoll_ctl() call has failed
    phase,      \* where EventLoop::loop() is
    active,     \* activeChannels_ that are still to be handled
    current,    \* the Channel whose handleEvent() runs
    pending,    \* Channels with a functor in pendingFunctors_
    batch       \* Channels with a functor in the batch being run

vars == <<life, fdOf, events, revents, index, channels, epoll, interest, open, failed, phase, active,
          current, pending, batch>>

registry == <<events, index, channels, epoll, interest, failed>>
loopState == <<phase, active, current, revents>>

(*  life of a connection: none, new, up, closing, down, dead  *)
(*  life of a connector's Channel: none, connecting, removed, dead  *)
Lives == {"none", "new", "up", "closing", "down", "connecting", "removed", "dead"}

Init ==
    /\ life = [c \in Channels |-> "none"]
    /\ fdOf = [c \in Channels |-> NoFd]
    /\ events = [c \in Channels |-> {}]
    /\ revents = [c \in Channels |-> {}]
    /\ index = [c \in Channels |-> "kNew"]
    /\ channels = [f \in Fds |-> NoChannel]
    /\ epoll = [f \in Fds |-> NoChannel]
    /\ interest = [f \in Fds |-> {}]
    /\ open = {} /\ failed = FALSE
    /\ phase = "poll" /\ active = {} /\ current = NoChannel
    /\ pending = {} /\ batch = {}

----------------------------------------------------------------------------
(* Channel and EPoller *)

(* epoll_ctl(): ADD fails on a descriptor that is in the set, MOD and DEL fail  *)
(* on one that is not.                                                          *)
CtlFails(c, adding) == failed' = (failed \/ (adding <=> epoll[fdOf[c]] # NoChannel))

(* Mutant: a channel whose index is kDeleted is modified, not added again. *)
UpdateChannelModified(c, ev) ==
    /\ events' = [events EXCEPT ![c] = ev]
    /\ index' = [index EXCEPT ![c] = IF index[c] # "kNew" /\ ev = {} THEN "kDeleted" ELSE "kAdded"]
    /\ channels' = IF index[c] = "kNew" THEN [channels EXCEPT ![fdOf[c]] = c] ELSE channels
    /\ epoll' = [epoll EXCEPT ![fdOf[c]] = IF index'[c] = "kAdded" THEN c ELSE NoChannel]
    /\ interest' = [interest EXCEPT ![fdOf[c]] = ev]
    /\ CtlFails(c, index[c] = "kNew")

(* Mutant: the kernel is not told of a change of events. *)
UpdateChannelLocally(c, ev) ==
    /\ events' = [events EXCEPT ![c] = ev]
    /\ index' = [index EXCEPT ![c] = IF index[c] = "kAdded" /\ ev = {} THEN "kDeleted" ELSE "kAdded"]
    /\ channels' = IF index[c] = "kNew" THEN [channels EXCEPT ![fdOf[c]] = c] ELSE channels
    /\ epoll' = [epoll EXCEPT ![fdOf[c]] = IF index'[c] = "kAdded" THEN c ELSE NoChannel]
    /\ interest' = IF index[c] = "kAdded" THEN interest ELSE [interest EXCEPT ![fdOf[c]] = ev]
    /\ CtlFails(c, index[c] # "kAdded")

(* updateChannel(): a channel that is not in the epoll set is added, whatever   *)
(* its events; one that is there is taken out when it has no events left.       *)
UpdateChannel(c, ev) ==
    /\ events' = [events EXCEPT ![c] = ev]
    /\ index' = [index EXCEPT ![c] = IF index[c] = "kAdded" /\ ev = {} THEN "kDeleted" ELSE "kAdded"]
    /\ channels' = IF index[c] = "kNew" THEN [channels EXCEPT ![fdOf[c]] = c] ELSE channels
    /\ epoll' = [epoll EXCEPT ![fdOf[c]] = IF index'[c] = "kAdded" THEN c ELSE NoChannel]
    /\ interest' = [interest EXCEPT ![fdOf[c]] = ev]
    /\ CtlFails(c, index[c] # "kAdded")

(* disableAllEvents() and removeChannel(), as both owners call them: the first  *)
(* deletes the channel from the epoll set, or, if it is not there, adds it with *)
(* no events for the second to delete.                                          *)
DisableAndRemove(c) ==
    /\ events' = [events EXCEPT ![c] = {}]
    /\ index' = [index EXCEPT ![c] = "kNew"]
    /\ channels' = [channels EXCEPT ![fdOf[c]] = NoChannel]
    /\ epoll' = [epoll EXCEPT ![fdOf[c]] = NoChannel]
    /\ interest' = [interest EXCEPT ![fdOf[c]] = {}]
    /\ CtlFails(c, index[c] # "kAdded")

(* poll() and fillActiveChannels(): any of the channels in the epoll set, each  *)
(* with some of the events it waits for or an error.                            *)
Poll ==
    /\ phase = "poll"
    /\ phase' = "handling"
    /\ \E fs \in SUBSET {f \in Fds : epoll[f] # NoChannel} :
          /\ active' = {epoll[f] : f \in fs}
          /\ revents' \in [Channels -> SUBSET (Events \cup {"error"})]
          /\ \A f \in fs : /\ revents'[epoll[f]] # {}
                           /\ revents'[epoll[f]] \subseteq interest[f] \cup {"error"}
          /\ \A c \in Channels : c \notin active' => revents'[c] = {}
    /\ UNCHANGED <<life, fdOf, registry, open, current, pending, batch>>

HandleEvent(c) ==
    /\ phase = "handling" /\ current = NoChannel /\ c \in active
    /\ active' = active \ {c}
    /\ current' = c
    /\ UNCHANGED <<life, fdOf, registry, revents, open, phase, pending, batch>>

HandlerReturns ==
    /\ phase = "handling" /\ current # NoChannel
    /\ current' = NoChannel
    /\ revents' = [revents EXCEPT ![current] = {}]
    /\ UNCHANGED <<life, fdOf, registry, open, phase, active, pending, batch>>

(* doPendingFunctors() begins, and ends. *)
TakeFunctors ==
    /\ phase = "handling" /\ current = NoChannel /\ active = {}
    /\ phase' = "functors"
    /\ batch' = pending
    /\ pending' = {}
    /\ UNCHANGED <<life, fdOf, registry, revents, open, active, current>>

FunctorsDone ==
    /\ phase = "functors" /\ batch = {}
    /\ phase' = "poll"
    /\ UNCHANGED <<life, fdOf, registry, revents, open, active, current, pending, batch>>

----------------------------------------------------------------------------
(* TcpConnection *)

InLoop == current # NoChannel \/ phase = "functors"

(* newConnection(): a descriptor has been accepted, by this loop or another. *)
NewConnection(c, f) ==
    /\ life[c] = "none" /\ f \notin open
    /\ life' = [life EXCEPT ![c] = "new"]
    /\ fdOf' = [fdOf EXCEPT ![c] = f]
    /\ open' = open \cup {f}
    /\ pending' = pending \cup {c}
    /\ UNCHANGED <<registry, loopState, batch>>

ConnectEstablished(c) ==
    /\ phase = "functors" /\ c \in batch /\ life[c] = "new"
    /\ batch' = batch \ {c}
    /\ life' = [life EXCEPT ![c] = "up"]
    /\ UpdateChannel(c, events[c] \cup {"read"})
    /\ UNCHANGED <<fdOf, open, loopState, pending>>

(* send() to any connection the user has not yet been told is down. *)
EnableWriting(c) ==
    /\ InLoop /\ life[c] \in {"up", "closing"} /\ "write" \notin events[c]
    /\ UpdateChannel(c, events[c] \cup {"write"})
    /\ UNCHANGED <<life, fdOf, open, loopState, pending, batch>>

(* handleWrite() has written everything. *)
DisableWriting(c) ==
    /\ current = c /\ "write" \in revents[c]
    /\ life[c] \in {"up", "closing"} /\ "write" \in events[c]
    /\ UpdateChannel(c, events[c] \ {"write"})
    /\ UNCHANGED <<life, fdOf, open, loopState, pending, batch>>

HandleClose(c) ==
    /\ current = c /\ "read" \in revents[c] /\ life[c] = "up"
    /\ life' = [life EXCEPT ![c] = "closing"]
    /\ UpdateChannel(c, {})
    /\ UNCHANGED <<fdOf, open, loopState, pending, batch>>

(* removeConnectionInLoop(), in this loop or the server's, queues the functor. *)
RemoveConnection(c) ==
    /\ life[c] = "closing" /\ c \notin pending \cup batch
    /\ pending' = pending \cup {c}
    /\ UNCHANGED <<life, fdOf, registry, open, loopState, batch>>

ConnectDestroyed(c) ==
    /\ phase = "functors" /\ c \in batch /\ life[c] = "closing"
    /\ batch' = batch \ {c}
    /\ life' = [life EXCEPT ![c] = "down"]
    /\ DisableAndRemove(c)
    /\ UNCHANGED <<fdOf, open, loopState, pending>>

(* The last shared pointer goes, once the batch that holds one is destroyed: a  *)
(* connection closes its descriptor, which also leaves the epoll set.           *)
Destroy(c) ==
    /\ phase # "functors" /\ life[c] = "down"
    /\ life' = [life EXCEPT ![c] = "dead"]
    /\ open' = open \ {fdOf[c]}
    /\ epoll' = [epoll EXCEPT ![fdOf[c]] = NoChannel]
    /\ UNCHANGED <<fdOf, events, index, channels, interest, failed, loopState, pending, batch>>

----------------------------------------------------------------------------
(* Connector *)

(* connect() and connecting(), from a functor or a timer. *)
Connecting(c, f) ==
    /\ phase # "poll" /\ life[c] = "none" /\ f \notin open
    /\ life' = [life EXCEPT ![c] = "connecting"]
    /\ fdOf' = [fdOf EXCEPT ![c] = f]
    /\ open' = open \cup {f}
    /\ events' = [events EXCEPT ![c] = {"write"}]
    /\ index' = [index EXCEPT ![c] = "kAdded"]
    /\ channels' = [channels EXCEPT ![f] = c]
    /\ epoll' = [epoll EXCEPT ![f] = c]
    /\ interest' = [interest EXCEPT ![f] = {"write"}]
    /\ failed' = (failed \/ epoll[f] # NoChannel)
    /\ UNCHANGED <<loopState, pending, batch>>

(* Mutant: the Channel is reset at once, inside its own handleEvent(). *)
ResetAtOnce(c, l) ==
    /\ life' = [l EXCEPT ![c] = "dead"]
    /\ UNCHANGED pending

(* removeAndResetChannel() queues resetChannel(). *)
ResetLater(c, l) ==
    /\ life' = [l EXCEPT ![c] = "removed"]
    /\ pending' = pending \cup {c}

(* handleError(), or handleWrite() with an error or after stop(). *)
ConnectFailed(c) ==
    /\ current = c /\ life[c] = "connecting" /\ revents[c] \cap {"write", "error"} # {}
    /\ DisableAndRemove(c)
    /\ ResetLater(c, life)
    /\ open' = open \ {fdOf[c]}
    /\ UNCHANGED <<fdOf, loopState, batch>>

(* handleWrite() with a connected socket: newConnectionCallback_ makes it a     *)
(* TcpConnection d with a Channel of its own on the same descriptor and         *)
(* establishes that at once.                                                    *)
Connected(c, d) ==
    /\ current = c /\ life[c] = "connecting" /\ "write" \in revents[c] /\ life[d] = "none"
    /\ ResetLater(c, [life EXCEPT ![d] = "up"])
    /\ fdOf' = [fdOf EXCEPT ![d] = fdOf[c]]
    /\ events' = [events EXCEPT ![c] = {}, ![d] = {"read"}]
    /\ index' = [index EXCEPT ![c] = "kNew", ![d] = "kAdded"]
    /\ channels' = [channels EXCEPT ![fdOf[c]] = d]
    /\ epoll' = [epoll EXCEPT ![fdOf[c]] = d]
    /\ interest' = [interest EXCEPT ![fdOf[c]] = {"read"}]
    /\ CtlFails(c, index[c] # "kAdded")
    /\ UNCHANGED <<open, loopState, batch>>

ResetChannel(c) ==
    /\ phase = "functors" /\ c \in batch /\ life[c] = "removed"
    /\ batch' = batch \ {c}
    /\ life' = [life EXCEPT ![c] = "dead"]
    /\ UNCHANGED <<fdOf, registry, open, loopState, pending>>

Next ==
    \/ Poll \/ HandlerReturns \/ TakeFunctors \/ FunctorsDone
    \/ \E c \in Channels :
          \/ HandleEvent(c)
          \/ ConnectEstablished(c) \/ EnableWriting(c) \/ DisableWriting(c) \/ HandleClose(c)
          \/ RemoveConnection(c) \/ ConnectDestroyed(c) \/ Destroy(c)
          \/ ConnectFailed(c) \/ ResetChannel(c)
          \/ \E f \in Fds : NewConnection(c, f) \/ Connecting(c, f)
          \/ \E d \in Channels : Connected(c, d)

Spec == Init /\ [][Next]_vars

----------------------------------------------------------------------------
(* Properties *)

(* Every variable has its type. *)
TypeOK ==
    /\ life \in [Channels -> Lives]
    /\ fdOf \in [Channels -> Fds \cup {NoFd}]
    /\ events \in [Channels -> SUBSET Events]
    /\ revents \in [Channels -> SUBSET (Events \cup {"error"})]
    /\ index \in [Channels -> {"kNew", "kAdded", "kDeleted"}]
    /\ channels \in [Fds -> Channels \cup {NoChannel}]
    /\ epoll \in [Fds -> Channels \cup {NoChannel}]
    /\ interest \in [Fds -> SUBSET Events]
    /\ open \subseteq Fds /\ failed \in BOOLEAN
    /\ phase \in {"poll", "handling", "functors"}
    /\ active \subseteq Channels /\ current \in Channels \cup {NoChannel}
    /\ pending \subseteq Channels /\ batch \subseteq Channels

(* index_ means what the comments of updateChannel() and removeChannel() say    *)
(* (EPoller.cc 96-100, 125-128): kNew, not in channels_; kDeleted, in channels_ *)
(* but not in the epoll set; kAdded, in both.  It survives descriptors that are *)
(* closed, reused, or passed from a Connector to a TcpConnection.               *)
IndexMeaning ==
    \A c \in Channels : fdOf[c] # NoFd =>
        /\ index[c] = "kNew" <=> channels[fdOf[c]] # c
        /\ index[c] = "kAdded" <=> epoll[fdOf[c]] = c

(* The kernel waits for exactly the events a Channel has enabled                *)
(* (EPoller.cc 133-140).                                                        *)
KernelAgrees ==
    \A c \in Channels : index[c] = "kAdded" => interest[fdOf[c]] = events[c]

(* Every Channel pointer that may still be followed points to a Channel that    *)
(* exists: data.ptr in the epoll set, channels_, the rest of activeChannels_    *)
(* and the Channel in whose handleEvent() the loop is (EPoller.cc 82,           *)
(* EventLoop.cc 139-141).                                                       *)
NoDangling ==
    LET Exists(c) == c = NoChannel \/ life[c] \notin {"none", "dead"}
    IN /\ \A f \in Fds : Exists(epoll[f]) /\ Exists(channels[f])
       /\ \A c \in active \cup {current} : Exists(c)

(* A Channel whose event has been fetched and not yet handled is never removed  *)
(* from the poller by the handlers that come before it: removeChannel() does    *)
(* not take it out of activeChannels_ (EPoller.cc 116-130).                     *)
ActiveRegistered == \A c \in active : index[c] # "kNew"

(* epoll_ctl() never fails (EPoller.cc 140-149): a failing ADD or MOD would     *)
(* abort the process.                                                           *)
CtlNeverFails == ~failed
=============================================================================
