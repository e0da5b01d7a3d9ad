----------------------------- MODULE EventLoop ------------------------------
(***************************************************************************)
(* reactor/EventLoop: one thread that polls file descriptors and runs      *)
(* functors, and any number of other threads that hand it functors         *)
(* (queueInLoop) or ask it to stop (quit).  The functor list is protected  *)
(* by mutex_, the wakeup of a blocked poll goes through an eventfd after   *)
(* the mutex is released, and quit_ is shared without any lock.            *)
(*                                                                         *)
(* A critical section is one step; everything a thread does between two    *)
(* critical sections or system calls is a step of its own.                 *)
(***************************************************************************)
EXTENDS Integers, Sequences

CONSTANTS
    LoopThread,     \* the thread that constructed the EventLoop: threadId_
    Others,         \* the threads that only call queueInLoop() and quit()
    MaxCalls,       \* bound: how many calls of the EventLoop each thread makes
    PollTimesOut    \* whether pollMs_ >= 0; a negative one blocks for ever

Threads == Others \cup {LoopThread}

ASSUME ThreadsAssumption == LoopThread \notin Others
ASSUME MaxCallsAssumption == MaxCalls \in [Threads -> Nat]
ASSUME TimeoutAssumption == PollTimesOut \in BOOLEAN

VARIABLES
    phase,          \* where the loop thread is in loop()
    looping,        \* looping_
    quit,           \* quit_
    doing,          \* doingPendingFunctors_
    pending,        \* pendingFunctors_
    functors,       \* the vector local to doPendingFunctors(), not yet run part
    active,         \* activeChannels_ that handleEvent() has not been called for
    wakeupCount,    \* the counter of the eventfd behind wakeupFd_
    op,             \* per thread: the EventLoop call it is in the middle of
    calls,          \* per thread: how many calls it has begun
    queued,         \* history: every functor pushed, in the order of the pushes
    ran             \* history: every functor run by doPendingFunctors()

vars == <<phase, looping, quit, doing, pending, functors, active, wakeupCount,
          op, calls, queued, ran>>

Phases == {"outside", "check", "poll", "events", "swap", "run"}

(* A functor is named by its caller and the number of the call.  It is       *)
(* "early" when the loop thread itself queued it while not inside loop().    *)
Functor ==
    UNION {[from : {t}, n : 1..MaxCalls[t], early : BOOLEAN] : t \in Threads}

(* The wakeup eventfd's channel, and all other channels taken together. *)
Channels == {"wakeup", "io"}

Init ==
    /\ phase = "outside"
    /\ looping = FALSE /\ quit = FALSE /\ doing = FALSE
    /\ pending = <<>> /\ functors = <<>> /\ active = {}
    /\ wakeupCount = 0
    /\ op = [t \in Threads |-> "none"]
    /\ calls = [t \in Threads |-> 0]
    /\ queued = <<>> /\ ran = <<>>

----------------------------------------------------------------------------
(* The calls a thread makes.  The loop thread makes them from user code: set-up *)
(* code outside loop(), an event callback, or a functor.                        *)

InUserCode(t) ==
    t = LoopThread => phase \in {"outside", "events", "run"}

Calling(t, what) ==
    /\ op[t] = "none"
    /\ InUserCode(t)
    /\ calls[t] < MaxCalls[t]
    /\ calls' = [calls EXCEPT ![t] = @ + 1]
    /\ op' = [op EXCEPT ![t] = what]

(* queueInLoop(), the critical section: push_back under mutex_.  runInLoop()  *)
(* is this call for every thread but the loop thread, for which it is a plain *)
(* call of the callback, user code like the rest of the phase.                *)
QueueInLoop(t) ==
    /\ Calling(t, "queue")
    /\ LET f == [from |-> t, n |-> calls[t] + 1,
                 early |-> t = LoopThread /\ phase = "outside"]
       IN /\ pending' = Append(pending, f)
          /\ queued' = Append(queued, f)
    /\ UNCHANGED <<phase, looping, quit, doing, functors, active, wakeupCount, ran>>

(* Mutant: quit() that never wakes the poll. *)
QuitSilently(t) ==
    /\ Calling(t, "none")
    /\ quit' = TRUE
    /\ UNCHANGED <<phase, looping, doing, pending, functors, active, wakeupCount,
                   queued, ran>>

(* quit(): the flag first; only another thread goes on to wakeup(). *)
Quit(t) ==
    /\ Calling(t, IF t = LoopThread THEN "none" ELSE "quit")
    /\ quit' = TRUE
    /\ UNCHANGED <<phase, looping, doing, pending, functors, active, wakeupCount,
                   queued, ran>>

(* Mutant: the test of doingPendingFunctors_ is forgotten. *)
WillWakeFromOutside(t) ==
    /\ op[t] # "none"
    /\ t # LoopThread

(* Whether the call t is in the middle of will write to the eventfd. *)
WillWake(t) ==
    /\ op[t] # "none"
    /\ t # LoopThread \/ doing

(* The end of queueInLoop() and quit(): wakeup() adds one to the eventfd, when *)
(* the caller is another thread or doPendingFunctors() is running.             *)
Wakeup(t) ==
    /\ op[t] # "none"
    /\ op' = [op EXCEPT ![t] = "none"]
    /\ wakeupCount' = IF WillWake(t) THEN wakeupCount + 1 ELSE wakeupCount
    /\ UNCHANGED <<phase, looping, quit, doing, pending, functors, active, calls,
                   queued, ran>>

----------------------------------------------------------------------------
(* The loop thread inside loop(). *)

LoopSteps(from, to) ==
    /\ op[LoopThread] = "none"
    /\ phase = from
    /\ phase' = to

(* loop() begins: looping_ is set and quit_ is cleared, whoever had set it. *)
EnterLoop ==
    /\ LoopSteps("outside", "check")
    /\ calls[LoopThread] < MaxCalls[LoopThread]
    /\ calls' = [calls EXCEPT ![LoopThread] = @ + 1]
    /\ looping' = TRUE
    /\ quit' = FALSE
    /\ UNCHANGED <<doing, pending, functors, active, wakeupCount, op, queued, ran>>

(* while (!quit_): one more iteration ... *)
Iterate ==
    /\ ~quit
    /\ LoopSteps("check", "poll")
    /\ UNCHANGED <<looping, quit, doing, pending, functors, active, wakeupCount, op,
                   calls, queued, ran>>

(* ... or loop() returns. *)
LeaveLoop ==
    /\ quit
    /\ LoopSteps("check", "outside")
    /\ looping' = FALSE
    /\ UNCHANGED <<quit, doing, pending, functors, active, wakeupCount, op, calls,
                   queued, ran>>

(* poll() returns the ready channels: the eventfd's exactly when its counter is *)
(* not zero, some other channel whenever the network or a timer says so.        *)
PollReady ==
    /\ LoopSteps("poll", "events")
    /\ active' \in (SUBSET Channels) \ {{}}
    /\ "wakeup" \in active' <=> wakeupCount > 0
    /\ UNCHANGED <<looping, quit, doing, pending, functors, wakeupCount, op, calls,
                   queued, ran>>

(* poll() returns nothing: pollMs_ has passed and no channel is ready. *)
PollTimeout ==
    /\ PollTimesOut
    /\ wakeupCount = 0
    /\ LoopSteps("poll", "events")
    /\ UNCHANGED <<looping, quit, doing, pending, functors, active, wakeupCount, op,
                   calls, queued, ran>>

(* handleWakeup(): reading an eventfd returns its counter and clears it. *)
HandleWakeup ==
    /\ "wakeup" \in active
    /\ LoopSteps("events", "events")
    /\ active' = active \ {"wakeup"}
    /\ wakeupCount' = 0
    /\ UNCHANGED <<looping, quit, doing, pending, functors, op, calls, queued, ran>>

(* handleEvent() of any other channel; what its callback does to the loop are *)
(* the loop thread's own calls above.                                         *)
HandleIo ==
    /\ "io" \in active
    /\ LoopSteps("events", "events")
    /\ active' = active \ {"io"}
    /\ UNCHANGED <<looping, quit, doing, pending, functors, wakeupCount, op, calls,
                   queued, ran>>

(* Mutant: doingPendingFunctors_ is not set. *)
BeginPendingUnmarked ==
    /\ active = {}
    /\ LoopSteps("events", "swap")
    /\ UNCHANGED <<looping, quit, doing, pending, functors, active, wakeupCount, op,
                   calls, queued, ran>>

(* doPendingFunctors() begins ... *)
BeginPending ==
    /\ active = {}
    /\ LoopSteps("events", "swap")
    /\ doing' = TRUE
    /\ UNCHANGED <<looping, quit, pending, functors, active, wakeupCount, op, calls,
                   queued, ran>>

(* ... takes the whole list under mutex_ ... *)
SwapFunctors ==
    /\ LoopSteps("swap", "run")
    /\ functors' = pending
    /\ pending' = functors
    /\ UNCHANGED <<looping, quit, doing, active, wakeupCount, op, calls, queued, ran>>

(* Mutant: the functors are run from the back. *)
RunLastFunctor ==
    /\ functors # <<>>
    /\ LoopSteps("run", "run")
    /\ functors' = SubSeq(functors, 1, Len(functors) - 1)
    /\ ran' = Append(ran, functors[Len(functors)])
    /\ UNCHANGED <<looping, quit, doing, pending, active, wakeupCount, op, calls,
                   queued>>

(* ... calls each functor with the mutex free ... *)
RunFunctor ==
    /\ functors # <<>>
    /\ LoopSteps("run", "run")
    /\ functors' = Tail(functors)
    /\ ran' = Append(ran, Head(functors))
    /\ UNCHANGED <<looping, quit, doing, pending, active, wakeupCount, op, calls,
                   queued>>

(* ... and ends. *)
EndPending ==
    /\ functors = <<>>
    /\ LoopSteps("run", "check")
    /\ doing' = FALSE
    /\ UNCHANGED <<looping, quit, pending, functors, active, wakeupCount, op, calls,
                   queued, ran>>

Next ==
    \/ \E t \in Threads : QueueInLoop(t) \/ Quit(t) \/ Wakeup(t)
    \/ EnterLoop \/ Iterate \/ LeaveLoop
    \/ PollReady \/ PollTimeout
    \/ HandleWakeup \/ HandleIo
    \/ BeginPending \/ SwapFunctors \/ RunFunctor \/ EndPending

Spec == Init /\ [][Next]_vars

(* What the scheduler and the kernel owe: a thread inside an EventLoop call     *)
(* finishes it, and the loop thread keeps taking its steps inside loop().  poll *)
(* has to return only when the eventfd is readable: its timeout may be for ever *)
(* (pollMs_ < 0), no other channel need ever become ready, and nobody has to    *)
(* call loop().                                                                 *)
LoopProgress ==
    \/ Iterate \/ LeaveLoop
    \/ (wakeupCount > 0 /\ PollReady)
    \/ HandleWakeup \/ HandleIo
    \/ BeginPending \/ SwapFunctors \/ RunFunctor \/ EndPending

Fairness ==
    /\ WF_vars(LoopProgress)
    /\ \A t \in Threads : WF_vars(Wakeup(t))

LiveSpec == Spec /\ Fairness

----------------------------------------------------------------------------
(* Properties *)

(* Every variable has its type. *)
TypeOK ==
    /\ phase \in Phases
    /\ looping \in BOOLEAN /\ quit \in BOOLEAN /\ doing \in BOOLEAN
    /\ pending \in Seq(Functor) /\ functors \in Seq(Functor)
    /\ queued \in Seq(Functor) /\ ran \in Seq(Functor)
    /\ active \in SUBSET Channels
    /\ wakeupCount \in Nat
    /\ op \in [Threads -> {"none", "queue", "quit"}]
    /\ calls \in [Threads -> Nat]

Attended(s) == \E i \in DOMAIN s : ~s[i].early

(* No wakeup is lost (EventLoop.cc 87-97, 165-200): when the loop thread is in  *)
(* poll and pendingFunctors_ holds a functor, other than one it queued itself   *)
(* before it entered loop(), the eventfd is readable or some thread between its *)
(* push and its write is about to make it so.                                   *)
NoLostWakeup ==
    phase = "poll" /\ Attended(pending) =>
        wakeupCount > 0 \/ \E t \in Threads : WillWake(t)

(* No request to stop is slept through (EventLoop.cc 121-151): a loop thread    *)
(* that is in poll with quit_ set has been, or is about to be, woken.           *)
NoLostQuit ==
    phase = "poll" /\ quit =>
        wakeupCount > 0 \/ \E t \in Others : op[t] = "quit"

(* Nothing queued is dropped, repeated or overtaken (EventLoop.cc 87-97,        *)
(* 185-200): what has run, what doPendingFunctors() still holds and what is in  *)
(* pendingFunctors_ are together the pushes of all threads in their order.      *)
RunOnceInOrder == queued = ran \o functors \o pending

(* The inductive invariant behind the three properties above: the flags follow  *)
(* the phase, the wakeup is already owed in every phase from which the loop     *)
(* reaches poll without taking the list again, and no functor ever gets the     *)
(* number of a later call of its thread.                                        *)
FlagsFollowPhase ==
    /\ doing <=> phase \in {"swap", "run"}
    /\ looping <=> phase # "outside"
    /\ functors # <<>> => phase = "run"
    /\ op[LoopThread] # "quit"
    /\ op[LoopThread] = "queue" => phase \in {"outside", "events", "run"}

WakeupOwed ==
    phase \in {"outside", "check", "poll", "run"} /\ Attended(pending) =>
        wakeupCount > 0 \/ \E t \in Threads : WillWake(t)

NumberedByCall == \A i \in DOMAIN queued : queued[i].n <= calls[queued[i].from]

LoopInv ==
    /\ TypeOK
    /\ FlagsFollowPhase
    /\ WakeupOwed
    /\ NoLostQuit
    /\ RunOnceInOrder
    /\ NumberedByCall

(* Every functor in the list of a running loop is run, or the loop returns.     *)
(* The functors that the loop thread queued before it called loop() are not     *)
(* meant: no wakeup() announces them, they wait for the next event or timeout.  *)
FunctorsRun ==
    \A t \in Threads : \A n \in 1..MaxCalls[t] :
        LET f == [from |-> t, n |-> n, early |-> FALSE]
        IN (looping /\ \E i \in DOMAIN pending : pending[i] = f)
              ~> (~looping \/ \E i \in DOMAIN ran : ran[i] = f)

(* quit() of any thread while loop() runs makes loop() return, even when poll   *)
(* never times out.                                                             *)
QuitStops == (looping /\ quit) ~> ~looping

(* The two vectors, the mutex and the eventfd implement one FIFO queue. *)
Queue == INSTANCE FunctorQueue WITH queue <- functors \o pending

RefinesFunctorQueue == Queue!Spec
=============================================================================
