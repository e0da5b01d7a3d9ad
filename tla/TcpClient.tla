----------------------------- MODULE TcpClient ------------------------------
(***************************************************************************)
(* net/TcpClient and its net/Connector in one loop: connect() starts an    *)
(* attempt, a failed attempt is retried by a timer, a closed connection is *)
(* replaced by a new one if the client wants that, stop() and disconnect() *)
(* end it.  connect() is called once: state_ stays kConnected after the    *)
(* first connection, and a second call would fail the assertion of         *)
(* startInLoop().                                                          *)
(*                                                                         *)
(* The loop fetches events, handles them and runs the functors queued      *)
(* until then (module EventLoop).  A retry timer set by an iteration is    *)
(* not due in the same one: an iteration takes less than                   *)
(* kInitRetryDelayMs.  cancel() finds a timer only if it is the first      *)
(* Timer of the process (module TimerQueue).  The client outlives its      *)
(* loop's work: its destructor is not modelled.                            *)
(***************************************************************************)
EXTENDS Naturals, Sequences, FiniteSets

VARIABLES
    userThread, \* the thread that calls disconnect() and stop(): "loop" or "other"
    state,      \* Connector::state_
    trying,     \* Connector::connect_
    channel,    \* Connector::channel_: none, live, or removed and not yet reset
    timer,      \* the pending retry timer: none, the process's first or a later one
    timerId,    \* Connector::timerId_, likewise
    fresh,      \* no Timer has been created in the process yet
    wanted,     \* TcpClient::connect_
    retry,      \* TcpClient::retry_
    connection, \* TcpClient::connection_ is set
    open,       \* open sockets of the connector and of its connections
    functors,   \* pendingFunctors_ of the loop
    batch,      \* those doPendingFunctors() runs
    phase,      \* where the loop is
    fetched,    \* events the loop has still to handle
    started,    \* connect() was called
    stopping,   \* where stop() is
    gaveUp,     \* history: ::connect() failed with an error that is not retried
    aborted     \* history: an assertion failed

attempt == <<state, channel, timer, timerId, fresh, open, gaveUp, aborted>>
client == <<trying, wanted, connection>>
loop == <<functors, batch, phase, fetched>>
user == <<userThread, retry, started, stopping>>
vars == <<attempt, client, loop, user>>

Init ==
    /\ state = "kDisconnected" /\ trying = FALSE /\ channel = "none"
    /\ timer = "none" /\ timerId = "none" /\ fresh \in BOOLEAN
    /\ wanted = TRUE /\ retry \in BOOLEAN /\ connection = FALSE /\ open = 0
    /\ functors = <<>> /\ batch = <<>> /\ phase = "poll" /\ fetched = {}
    /\ userThread \in {"loop", "other"} /\ started = FALSE /\ stopping = "no" /\ gaveUp = FALSE /\ aborted = FALSE

----------------------------------------------------------------------------
(* Connector *)

(* Mutant: no further attempt is timed. *)
RetryNever ==
    /\ state' = "kDisconnected"
    /\ UNCHANGED <<timer, timerId, fresh, gaveUp, aborted>>

(* retry(), apart from its close(): a timer will call startInLoop().            *)
Retry ==
    /\ state' = "kDisconnected"
    /\ timerId' = IF trying' THEN IF fresh THEN "first" ELSE "later" ELSE timerId
    /\ timer' = IF trying' THEN timerId' ELSE "none"
    /\ fresh' = (fresh /\ ~trying')
    /\ UNCHANGED <<gaveUp, aborted>>

(* connecting(): the socket gets a channel that waits until it is writable. *)
Connecting ==
    /\ state' = "kConnecting"
    /\ channel' = "live"
    /\ aborted' = (aborted \/ channel # "none")
    /\ open' = open + 1
    /\ timer' = "none"
    /\ UNCHANGED <<timerId, fresh, gaveUp>>

(* connect(), by what ::connect() returns: in progress, an error that is        *)
(* retried, or one that is not.  In the last two the socket is closed again.    *)
Connect ==
    \/ Connecting
    \/ Retry /\ UNCHANGED <<channel, open>>
    \/ /\ gaveUp' = TRUE
       /\ state' = "kDisconnected"
       /\ timer' = "none"
       /\ UNCHANGED <<channel, timerId, fresh, open, aborted>>

(* startInLoop(), with state_ being s.  trying' is connect_ at this time, and   *)
(* the timer that called it is gone.                                            *)
StartInLoop(s) ==
    \/ s = "kDisconnected" /\ trying' /\ Connect
    \/ /\ s = "kDisconnected" => ~trying'
       /\ aborted' = (aborted \/ s # "kDisconnected")
       /\ state' = s
       /\ timer' = "none"
       /\ UNCHANGED <<channel, timerId, fresh, open, gaveUp>>

(* TimerQueue::cancel(). *)
Cancel(id) == timer' = IF id = "first" /\ timer = "first" THEN "none" ELSE timer

----------------------------------------------------------------------------
(* The user *)

(* TcpClient::connect() and Connector::start() in another thread.  In the       *)
(* loop's own, startInLoop() runs at once: the case that nothing intervenes.    *)
UserConnect ==
    /\ ~started
    /\ started' = TRUE
    /\ wanted' = TRUE
    /\ trying' = TRUE
    /\ functors' = Append(functors, "startInLoop")
    /\ UNCHANGED <<attempt, connection, batch, phase, fetched, userThread, retry, stopping>>

(* Where the user's code runs: in callbacks and functors of the loop, or        *)
(* anywhere between two steps of the loop.                                      *)
InUserThread == userThread = "other" \/ phase \in {"events", "functors"}

(* TcpClient::disconnect(): its shutdown() of the connection makes the peer     *)
(* close, which it may do at any time anyway.                                   *)
Disconnect ==
    /\ started /\ wanted /\ stopping = "no" /\ InUserThread
    /\ wanted' = FALSE
    /\ UNCHANGED <<attempt, trying, connection, loop, user>>

(* TcpClient::stop() and Connector::stop() in the loop. *)
StopInLoop ==
    /\ userThread = "loop" /\ started /\ stopping = "no" /\ InUserThread
    /\ wanted' = FALSE
    /\ trying' = FALSE
    /\ Cancel(timerId)
    /\ stopping' = "stopped"
    /\ UNCHANGED <<state, channel, timerId, fresh, open, gaveUp, aborted, connection, loop,
                   userThread, retry, started>>

(* The same in another thread, one assignment at a time; the cancellation is    *)
(* queued for the loop.                                                         *)
StopClient ==
    /\ userThread = "other" /\ started /\ stopping = "no"
    /\ stopping' = "client"
    /\ wanted' = FALSE
    /\ UNCHANGED <<attempt, trying, connection, loop, userThread, retry, started>>

StopConnector ==
    /\ stopping = "client"
    /\ stopping' = "connector"
    /\ trying' = FALSE
    /\ UNCHANGED <<attempt, wanted, connection, loop, userThread, retry, started>>

StopQueue ==
    /\ stopping = "connector"
    /\ stopping' = "stopped"
    /\ functors' = Append(functors, IF timerId = "first" THEN "cancelFirst" ELSE "cancel")
    /\ UNCHANGED <<attempt, client, batch, phase, fetched, userThread, retry, started>>

----------------------------------------------------------------------------
(* The loop *)

Ready == (IF timer # "none" THEN {"timer"} ELSE {})
            \cup (IF channel = "live" THEN {"channel"} ELSE {})
            \cup (IF connection THEN {"connection"} ELSE {})

(* poll(): some of what can become ready is. *)
Poll(ready) ==
    /\ phase = "poll" /\ ready \subseteq Ready
    /\ phase' = "events"
    /\ fetched' = ready
    /\ UNCHANGED <<attempt, client, functors, batch, user>>

EventsDone ==
    /\ phase = "events" /\ fetched = {}
    /\ phase' = "functors"
    /\ batch' = functors
    /\ functors' = <<>>
    /\ UNCHANGED <<attempt, client, fetched, user>>

FunctorsDone ==
    /\ phase = "functors" /\ batch = <<>>
    /\ phase' = "poll"
    /\ UNCHANGED <<attempt, client, functors, batch, fetched, user>>

Take(e) ==
    /\ phase = "events" /\ e \in fetched
    /\ fetched' = fetched \ {e}
    /\ UNCHANGED batch

(* The retry timer calls startInLoop(), unless it was cancelled meanwhile. *)
TimerFires ==
    /\ Take("timer")
    /\ UNCHANGED client
    /\ IF timer # "none" THEN StartInLoop(state) ELSE UNCHANGED attempt
    /\ UNCHANGED <<functors, phase, user>>

(* Mutant: the channel is still polled until the functor runs. *)
ResetLater ==
    /\ functors' = Append(functors, "resetChannel")
    /\ UNCHANGED channel

(* Mutant: the reset of the channel is forgotten. *)
RemoveOnly ==
    /\ channel' = "removed"
    /\ UNCHANGED functors

(* removeAndResetChannel(). *)
RemoveAndResetChannel ==
    /\ channel' = "removed"
    /\ functors' = Append(functors, "resetChannel")

(* Mutant: the socket goes to the client even after stop(). *)
NewConnectionAlways ==
    /\ state' = "kConnected"
    /\ connection' = TRUE
    /\ UNCHANGED <<timer, timerId, fresh, open, gaveUp, aborted>>

(* Mutant: a socket that is no longer wanted stays open. *)
NewConnectionLeak ==
    /\ state' = "kConnected"
    /\ connection' = trying
    /\ UNCHANGED <<timer, timerId, fresh, open, gaveUp, aborted>>

(* The rest of handleWrite() once the socket is connected: it goes to           *)
(* TcpClient::newConnection(), or is closed if stop() was called.               *)
NewConnection ==
    /\ state' = "kConnected"
    /\ connection' = trying
    /\ open' = IF trying THEN open ELSE open - 1
    /\ UNCHANGED <<timer, timerId, fresh, gaveUp, aborted>>

(* handleWrite(): the attempt succeeded, or the socket has an error or is       *)
(* connected to itself.                                                         *)
HandleWrite ==
    /\ Take("channel") /\ state = "kConnecting"
    /\ RemoveAndResetChannel
    /\ NewConnection
    /\ UNCHANGED <<trying, wanted, phase, user>>

HandleWriteFailed ==
    /\ Take("channel") /\ state = "kConnecting"
    /\ RemoveAndResetChannel
    /\ UNCHANGED <<client, phase, user>>
    /\ open' = open - 1
    /\ Retry

(* handleError(); the handleWrite() that Channel::handleEvent() may call next   *)
(* finds state_ to be kDisconnected and does nothing.                           *)
HandleError ==
    /\ Take("channel")
    /\ UNCHANGED <<client, phase, user>>
    /\ IF state = "kConnecting"
       THEN RemoveAndResetChannel /\ open' = open - 1 /\ Retry
       ELSE aborted' = TRUE /\ UNCHANGED <<state, channel, timer, timerId, fresh, open, gaveUp, functors>>

(* TcpConnection::handleClose() calls TcpClient::removeConnection().  If the    *)
(* client wants a new connection, Restart follows; another thread may run       *)
(* between the test and it.                                                     *)
RemoveConnection ==
    /\ Take("connection")
    /\ connection' = FALSE
    /\ functors' = Append(functors, "connectDestroyed")
    /\ phase' = IF retry /\ wanted THEN "restarting" ELSE "events"
    /\ UNCHANGED <<attempt, trying, wanted, user>>

(* Connector::restart(). *)
Restart ==
    /\ phase = "restarting"
    /\ phase' = "events"
    /\ trying' = TRUE
    /\ StartInLoop("kDisconnected")
    /\ UNCHANGED <<wanted, connection, functors, batch, fetched, user>>

RunFunctor(f) ==
    /\ phase = "functors" /\ batch # <<>> /\ Head(batch) = f
    /\ batch' = Tail(batch)
    /\ UNCHANGED <<client, functors, phase, fetched, user>>

RunStart == RunFunctor("startInLoop") /\ StartInLoop(state)

RunReset ==
    /\ RunFunctor("resetChannel")
    /\ channel' = "none"
    /\ UNCHANGED <<state, timer, timerId, fresh, open, gaveUp, aborted>>

(* connectDestroyed() drops the last reference, which closes the socket. *)
RunDestroyed ==
    /\ RunFunctor("connectDestroyed")
    /\ open' = open - 1
    /\ UNCHANGED <<state, channel, timer, timerId, fresh, gaveUp, aborted>>

RunCancel ==
    /\ \/ RunFunctor("cancelFirst") /\ Cancel("first")
       \/ RunFunctor("cancel") /\ Cancel("later")
    /\ UNCHANGED <<state, channel, timerId, fresh, open, gaveUp, aborted>>

----------------------------------------------------------------------------
Loop ==
    \/ \E ready \in SUBSET Ready : Poll(ready)
    \/ EventsDone \/ FunctorsDone
    \/ TimerFires \/ HandleWrite \/ HandleWriteFailed \/ HandleError
    \/ RemoveConnection \/ Restart
    \/ RunStart \/ RunReset \/ RunDestroyed \/ RunCancel

User == UserConnect \/ Disconnect \/ StopInLoop \/ StopClient \/ StopConnector \/ StopQueue

Next == ~aborted /\ (Loop \/ User)

Spec == Init /\ [][Next]_vars

(* The loop keeps running, epoll reports again and again what stays ready, and  *)
(* attempts that are made again and again succeed at last.                      *)
LiveSpec ==
    /\ Spec
    /\ WF_vars(~aborted /\ Loop)
    /\ \A e \in {"timer", "channel", "connection"} :
           SF_vars(~aborted /\ \E ready \in SUBSET Ready : e \in ready /\ Poll(ready))
    /\ SF_vars(~aborted /\ (TimerFires \/ RunStart \/ Restart) /\ state' = "kConnecting")
    /\ SF_vars(~aborted /\ HandleWrite)

----------------------------------------------------------------------------
Occurrences(q, f) == Cardinality({i \in DOMAIN q : q[i] = f})
Count(f) == Occurrences(functors, f) + Occurrences(batch, f)
One(b) == IF b THEN 1 ELSE 0

(* Who carries the client's one attempt: the functor that will start it, the    *)
(* retry timer, the channel that waits for the socket, the connection, or       *)
(* removeConnection() about to start over.                                      *)
Carriers == Count("startInLoop") + One(timer # "none") + One(channel = "live") + One(connection)
            + One(phase = "restarting")

(* However timers, the channel, the connection, stop() and the functors         *)
(* interleave, there is never more than one attempt under way: no two sockets   *)
(* compete for channel_ and connection_.                                        *)
OneAttempt == Carriers <= 1

(* No assertion of Connector.cc (startInLoop, connecting, handleError) fails.   *)
NoAbort == ~aborted

(* Every open socket belongs to the channel, to the connection or to a          *)
(* connection whose connectDestroyed() is queued: none is leaked or closed      *)
(* twice.                                                                       *)
NoSocketLeak == open = One(channel = "live") + One(connection) + Count("connectDestroyed")

(* After a stop() in the loop no attempt leads to a new connection, whatever    *)
(* was under way.  A stop() in another thread can be undone by restart(), which *)
(* sets connect_ without looking at it.                                         *)
StopIsFinal ==
    [][userThread = "loop" /\ stopping = "stopped" => (connection' => connection)]_vars

(* A client with retry that is neither stopped nor disconnected is connected    *)
(* again and again, if attempts can succeed.                                    *)
Reconnects ==
    started /\ retry ~> connection \/ ~wanted \/ gaveUp \/ stopping # "no"
=============================================================================
