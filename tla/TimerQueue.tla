----------------------------- MODULE TimerQueue -----------------------------
(***************************************************************************)
(* datetime/TimerQueue: the timers of one EventLoop.  Timers are heap      *)
(* objects kept in two sets, one ordered by expiration and one for         *)
(* cancel(); a single timerfd is armed for the earliest of them.  Any      *)
(* thread may add and cancel; what it asks for is done by the loop thread, *)
(* at once when it is the caller and as a queued functor otherwise (see    *)
(* module EventLoop for the queue).                                        *)
(*                                                                         *)
(* One unit of time is the 100 microseconds below which resetTimerfd()     *)
(* never goes.  TimeStamp::now() and the timerfd's clock run together.     *)
(***************************************************************************)
EXTENDS Naturals, Sequences, FiniteSets

CONSTANTS
    Addr,       \* bound: addresses operator new may return, ordered
    MaxTimers,  \* bound: Timer objects created
    MaxClock,   \* bound: the latest time
    MaxTasks,   \* bound: functors of other threads waiting for the loop
    Delays,     \* delays passed to runAt() / runAfter()
    Intervals   \* intervals passed to runEvery()

ASSUME AddrAssumption == Addr \subseteq Nat
ASSUME BoundsAssumption == MaxTimers \in Nat /\ MaxClock \in Nat \ {0} /\ MaxTasks \in Nat
ASSUME DelaysAssumption == Delays \subseteq Nat
ASSUME IntervalsAssumption == Intervals \subseteq Nat \ {0}

VARIABLES
    clock,              \* TimeStamp::now()
    heap,               \* the Timer object at each address, or Free
    created,            \* Timer::s_numCreated_
    timers,             \* timers_: pairs <<expiration, address>>
    activeTimers,       \* activeTimers_: pairs <<address, sequence>>
    cancelingTimers,    \* cancelingTimers_: pairs <<address, sequence>>
    calling,            \* callingExpiredTimers_
    expired,            \* handleRead()'s local vector
    toRun,              \* the part of it whose callbacks have not been called
    now,                \* handleRead()'s local time
    armed,              \* when the timerfd becomes readable, 0 when disarmed
    ready,              \* poll has put the timerfd's channel on the active list
    tasks,              \* addTimerInLoop / cancelInLoop functors of other threads
    ids,                \* history: the TimerIds handed out
    asked,              \* history: what was asked for each timer, by sequence
    runs,               \* history: how often each timer's callback was called
    cancelled           \* history: inserted timers cancelInLoop() was called for

vars == <<clock, heap, created, timers, activeTimers, cancelingTimers, calling,
          expired, toRun, now, armed, ready, tasks, ids, asked, runs, cancelled>>

Sequence == 0..(MaxTimers - 1)
Time == Nat
Free == [expiration |-> 0, interval |-> 0, sequence |-> MaxTimers]
Timer == [expiration : Time, interval : Time, sequence : Sequence]

(* A TimerId is the Timer's address and the number addTimer() puts in it; "of" *)
(* is the history of which Timer it was made for.                              *)
TimerId == [timer : Addr, sequence : Nat, of : Sequence]
Task == [kind : {"add", "cancel"}, id : TimerId]

Init ==
    /\ clock = 1
    /\ heap = [a \in Addr |-> Free]
    /\ created = 0
    /\ timers = {} /\ activeTimers = {} /\ cancelingTimers = {}
    /\ calling = FALSE /\ expired = {} /\ toRun = {} /\ now = 0
    /\ armed = 0 /\ ready = FALSE
    /\ tasks = <<>>
    /\ ids = {} /\ cancelled = {}
    /\ asked = [s \in Sequence |-> [born |-> 0, when |-> 0, interval |-> 0]]
    /\ runs = [s \in Sequence |-> 0]

----------------------------------------------------------------------------
(* Orders and small helpers *)

Entry(a) == <<heap[a].expiration, a>>
ActiveTimer(a) == <<a, heap[a].sequence>>

(* std::set<std::pair<TimeStamp, Timer*>> orders by time, then by address. *)
Before(e, f) == e[1] < f[1] \/ (e[1] = f[1] /\ e[2] < f[2])
Earliest(set) == CHOOSE e \in set : \A f \in set \ {e} : Before(e, f)

(* resetTimerfd(): never less than one unit from now. *)
ResetTimerfd(when) == IF when > clock THEN when ELSE clock + 1

(* The timers whose addTimerInLoop() is still queued. *)
Queued == {tasks[i].id.of : i \in {j \in DOMAIN tasks : tasks[j].kind = "add"}}
Waiting == {tasks[i].id.timer : i \in {j \in DOMAIN tasks : tasks[j].kind = "add"}}

(* User code runs in the loop thread outside handleRead() or in a callback. *)
InUserCode == calling => toRun # expired

----------------------------------------------------------------------------
(* The operations as the loop thread performs them *)

(* new Timer(cb, when, interval), and the TimerId addTimer() returns: its       *)
(* sequence is the default 0 of TimerId's constructor, not the Timer's own.     *)
NewTimer(a, r) ==
    /\ created < MaxTimers
    /\ heap[a] = Free
    /\ created' = created + 1
    /\ heap' = [heap EXCEPT ![a] = [expiration |-> r.when, interval |-> r.interval,
                                    sequence |-> created]]
    /\ asked' = [asked EXCEPT ![created] =
                    [born |-> clock, when |-> r.when, interval |-> r.interval]]
    /\ ids' = ids \cup {[timer |-> a, sequence |-> 0, of |-> created]}

(* addTimerInLoop(): insert() in both sets, and the timerfd is armed when the  *)
(* new timer is earlier than every other.                                      *)
AddTimerInLoop(a, t) ==
    /\ timers' = timers \cup {<<t.expiration, a>>}
    /\ activeTimers' = activeTimers \cup {<<a, t.sequence>>}
    /\ armed' = IF timers = {} \/ t.expiration < Earliest(timers)[1]
                THEN ResetTimerfd(t.expiration) ELSE armed

(* Mutant: the Timer is deleted but stays in timers_. *)
DiscardHalf(entry) ==
    /\ activeTimers' = activeTimers \ {entry}
    /\ heap' = [heap EXCEPT ![entry[1]] = Free]
    /\ UNCHANGED <<timers, cancelingTimers>>

(* Mutant: the Timer leaves both sets and is never deleted. *)
DiscardLeaking(entry) ==
    /\ timers' = timers \ {Entry(entry[1])}
    /\ activeTimers' = activeTimers \ {entry}
    /\ UNCHANGED <<heap, cancelingTimers>>

(* cancelInLoop() of an active timer: it leaves both sets and is deleted.  The *)
(* timerfd stays armed.                                                        *)
Discard(entry) ==
    /\ timers' = timers \ {Entry(entry[1])}
    /\ activeTimers' = activeTimers \ {entry}
    /\ heap' = [heap EXCEPT ![entry[1]] = Free]
    /\ UNCHANGED cancelingTimers

(* Mutant: only active timers can be cancelled. *)
DeferNothing(entry) == UNCHANGED <<timers, activeTimers, heap, cancelingTimers>>

(* cancelInLoop() of any other id: remembered for reset() while callbacks are  *)
(* being called, and ignored otherwise.                                        *)
Defer(entry) ==
    /\ cancelingTimers' = IF calling THEN cancelingTimers \cup {entry}
                          ELSE cancelingTimers
    /\ UNCHANGED <<timers, activeTimers, heap>>

CancelInLoop(id) ==
    LET entry == <<id.timer, id.sequence>>
    IN /\ IF entry \in activeTimers THEN Discard(entry) ELSE Defer(entry)
       /\ cancelled' = cancelled \cup ({id.of} \ Queued)

----------------------------------------------------------------------------
(* Calls from the loop thread take effect at once. *)

(* What runAt(), runAfter() and runEvery() ask for. *)
Requests == {[when |-> clock + d, interval |-> 0] : d \in Delays}
                \cup {[when |-> clock + i, interval |-> i] : i \in Intervals}

AddTimer(a, r) ==
    /\ InUserCode
    /\ NewTimer(a, r)
    /\ AddTimerInLoop(a, heap'[a])
    /\ UNCHANGED <<clock, cancelingTimers, calling, expired, toRun, now, ready, tasks,
                   runs, cancelled>>

Cancel(id) ==
    /\ InUserCode
    /\ CancelInLoop(id)
    /\ UNCHANGED <<clock, created, calling, expired, toRun, now, armed, ready, tasks, ids,
                   asked, runs>>

(* Another thread creates the Timer itself, but only queues what is to be done  *)
(* with it.                                                                     *)
AddTimerElsewhere(a, r) ==
    /\ Len(tasks) < MaxTasks
    /\ NewTimer(a, r)
    /\ tasks' = Append(tasks, [kind |-> "add",
                               id |-> [timer |-> a, sequence |-> 0, of |-> created]])
    /\ UNCHANGED <<clock, timers, activeTimers, cancelingTimers, calling, expired, toRun,
                   now, armed, ready, runs, cancelled>>

CancelElsewhere(id) ==
    /\ Len(tasks) < MaxTasks
    /\ tasks' = Append(tasks, [kind |-> "cancel", id |-> id])
    /\ UNCHANGED <<clock, heap, created, timers, activeTimers, cancelingTimers, calling,
                   expired, toRun, now, armed, ready, ids, asked, runs, cancelled>>

(* doPendingFunctors() gets to a queued operation, after all active channels. *)
RunTask ==
    /\ tasks # <<>> /\ ~calling /\ ~ready
    /\ tasks' = Tail(tasks)
    /\ LET task == Head(tasks)
       IN \/ /\ task.kind = "add"
             /\ AddTimerInLoop(task.id.timer, heap[task.id.timer])
             /\ UNCHANGED <<heap, cancelingTimers, cancelled>>
          \/ /\ task.kind = "cancel"
             /\ CancelInLoop(task.id)
             /\ UNCHANGED armed
    /\ UNCHANGED <<clock, created, calling, expired, toRun, now, ready, ids, asked, runs>>

----------------------------------------------------------------------------
(* Time, poll and handleRead() *)

Tick ==
    /\ clock < MaxClock
    /\ clock' = clock + 1
    /\ UNCHANGED <<heap, created, timers, activeTimers, cancelingTimers, calling, expired,
                   toRun, now, armed, ready, tasks, ids, asked, runs, cancelled>>

Readable == armed # 0 /\ armed <= clock

(* poll returns with the timerfd readable. *)
Poll ==
    /\ Readable /\ ~ready /\ ~calling
    /\ ready' = TRUE
    /\ UNCHANGED <<clock, heap, created, timers, activeTimers, cancelingTimers, calling,
                   expired, toRun, now, armed, tasks, ids, asked, runs, cancelled>>

(* Mutant: the comparison with now takes timers that are still one unit away. *)
ExpiredTooSoon == {e \in timers : e[1] <= clock + 1}

(* getExpired(): every timer whose time has come. *)
GetExpired == {e \in timers : e[1] <= clock}

(* handleRead() begins: the timerfd is read, which disarms it when it was       *)
(* readable (a callback called since poll may have armed it again), and what    *)
(* has expired leaves both sets.                                                *)
HandleRead ==
    /\ ready /\ ~calling
    /\ ready' = FALSE
    /\ now' = clock
    /\ armed' = IF Readable THEN 0 ELSE armed
    /\ expired' = GetExpired
    /\ toRun' = GetExpired
    /\ timers' = timers \ GetExpired
    /\ activeTimers' = activeTimers \ {ActiveTimer(e[2]) : e \in GetExpired}
    /\ calling' = TRUE
    /\ cancelingTimers' = {}
    /\ UNCHANGED <<clock, heap, created, tasks, ids, asked, runs, cancelled>>

(* Timer::run() of the next expired timer. *)
RunTimer ==
    /\ calling /\ toRun # {}
    /\ LET e == Earliest(toRun)
       IN /\ toRun' = toRun \ {e}
          /\ runs' = [runs EXCEPT ![heap[e[2]].sequence] = @ + 1]
    /\ UNCHANGED <<clock, heap, created, timers, activeTimers, cancelingTimers, calling,
                   expired, now, armed, ready, tasks, ids, asked, cancelled>>

(* reset() keeps a repeating timer that was not cancelled meanwhile ... *)
Repeats(a) == heap[a].interval > 0 /\ ActiveTimer(a) \notin cancelingTimers

(* Mutant: reset() forgets to arm the timerfd. *)
RearmNever(set) == armed

(* ... arms the timerfd for the earliest timer, if there is one ... *)
Rearm(set) == IF set = {} THEN armed ELSE ResetTimerfd(Earliest(set)[1])

(* ... and does so after it has put the kept timers back, for one interval from *)
(* handleRead()'s time, and deleted the others.                                 *)
Reset ==
    /\ calling /\ toRun = {}
    /\ calling' = FALSE
    /\ LET done == {e[2] : e \in expired}
           kept == {a \in done : Repeats(a)}
           next(a) == now + heap[a].interval
       IN /\ heap' = [a \in Addr |-> IF a \in kept
                                     THEN [heap[a] EXCEPT !.expiration = next(a)]
                                     ELSE IF a \in done THEN Free ELSE heap[a]]
          /\ timers' = timers \cup {<<next(a), a>> : a \in kept}
          /\ activeTimers' = activeTimers \cup {ActiveTimer(a) : a \in kept}
    /\ armed' = Rearm(timers')
    /\ expired' = {}
    /\ UNCHANGED <<clock, created, cancelingTimers, toRun, now, ready, tasks, ids, asked,
                   runs, cancelled>>

Next ==
    \/ \E a \in Addr, r \in Requests : AddTimer(a, r) \/ AddTimerElsewhere(a, r)
    \/ \E id \in ids : Cancel(id) \/ CancelElsewhere(id)
    \/ RunTask
    \/ Tick \/ Poll \/ HandleRead \/ RunTimer \/ Reset

Spec == Init /\ [][Next]_vars

----------------------------------------------------------------------------
(* Properties *)

Scheduled == {e[2] : e \in timers}
Running == {e[2] : e \in expired}

(* Every variable has its type. *)
TypeOK ==
    /\ clock \in 1..MaxClock /\ now \in 0..MaxClock /\ armed \in Nat
    /\ heap \in [Addr -> Timer \cup {Free}]
    /\ created \in 0..MaxTimers
    /\ timers \subseteq Time \X Addr
    /\ activeTimers \subseteq Addr \X Sequence
    /\ cancelingTimers \subseteq Addr \X Nat
    /\ calling \in BOOLEAN /\ ready \in BOOLEAN
    /\ expired \subseteq Time \X Addr /\ toRun \subseteq expired
    /\ tasks \in Seq(Task)
    /\ asked \in [Sequence -> [born : Time, when : Time, interval : Time]]
    /\ ids \subseteq TimerId /\ cancelled \subseteq Sequence
    /\ runs \in [Sequence -> Nat]

(* The two sets describe the same live timers, each under its own expiration    *)
(* and sequence: the assertions of TimerQueue.cc 40, 46, 82 and 88 hold and     *)
(* nothing in either set, nor in the vector being called, has been deleted.     *)
SetsAgree ==
    /\ timers = {Entry(a) : a \in Scheduled}
    /\ activeTimers = {ActiveTimer(a) : a \in Scheduled}
    /\ \A a \in Scheduled \cup Running \cup Waiting : heap[a] # Free

(* Every Timer object has exactly one place that will delete it: the functor    *)
(* that will insert it, timers_, or the vector handleRead() is working on       *)
(* (TimerQueue.cc 55-68, 94-141).  Nothing leaks and nothing is freed twice.    *)
OneOwner ==
    /\ {a \in Addr : heap[a] # Free} = Waiting \cup Scheduled \cup Running
    /\ Waiting \cap Scheduled = {} /\ Waiting \cap Running = {}
    /\ Scheduled \cap Running = {}
    /\ Cardinality(timers) = Cardinality(Scheduled)

(* While no callback is being called the timerfd is armed, and in time for the  *)
(* earliest timer, or one unit from now if that is already due, or its channel  *)
(* is on the active list (TimerQueue.cc 62-68, 143-149; Timer.cc 12-25).        *)
ArmedInTime ==
    timers # {} /\ ~calling =>
        ready \/ (armed # 0 /\ armed <= ResetTimerfd(Earliest(timers)[1]))

(* No callback is called before its time, a one-shot timer's is called at most  *)
(* once, and a repeating timer's at most once per interval since it was asked   *)
(* for, however late the loop gets to it (TimerQueue.cc 111-141).               *)
NeverEarly ==
    \A s \in Sequence : runs[s] > 0 =>
        /\ clock >= asked[s].when
        /\ IF asked[s].interval = 0 THEN runs[s] = 1
           ELSE asked[s].born + runs[s] * asked[s].interval <= clock

Gone(s) == \A a \in Addr : heap[a].sequence # s

(* cancel() deletes the process's first Timer, whose number is the 0 that       *)
(* addTimer() puts in every TimerId, as soon as no callback is being called     *)
(* (TimerQueue.cc 37-53, 131-141), wherever the timer is when it is cancelled,  *)
(* its own callback and another timer's included.  It misses every other Timer. *)
FirstTimerCancelled == ~calling /\ 0 \in cancelled => Gone(0)
=============================================================================
