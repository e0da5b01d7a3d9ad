-------------------------- MODULE TimerQueueProofs --------------------------
(***************************************************************************)
(* Proofs about TimerQueue, for any number of timers, addresses and queued *)
(* functors and for all delays and intervals.                              *)
(***************************************************************************)
EXTENDS TimerQueue, SequenceTheorems, FiniteSetTheorems, WellFoundedInduction, TLAPS

(* A timer in timers_ or in handleRead()'s vector is there under the expiration *)
(* of its object.                                                               *)
Entries ==
    /\ \A e \in timers : e[1] = heap[e[2]].expiration
    /\ \A e \in expired : e[1] = heap[e[2]].expiration

(* activeTimers_ names the same timers as timers_. *)
Actives == activeTimers = {ActiveTimer(a) : a \in Scheduled}

(* Each live object belongs to a functor, to timers_ or to handleRead(). *)
Owners ==
    /\ \A a \in Addr : heap[a] # Free <=> a \in Waiting \cup Scheduled \cup Running
    /\ Waiting \cap Scheduled = {} /\ Waiting \cap Running = {}
    /\ Scheduled \cap Running = {}

(* Sequence numbers identify live objects. *)
Numbers ==
    /\ \A a \in Addr : heap[a] # Free => heap[a].sequence < created
    /\ \A a, b \in Addr : heap[a] # Free /\ heap[a].sequence = heap[b].sequence => a = b

(* A TimerId tells where the timer it was made for is, while it lives. *)
Ids ==
    \A id \in ids : /\ id.sequence = 0 /\ id.of < created
                    /\ \A a \in Addr : heap[a].sequence = id.of => a = id.timer

(* No two functors insert the same timer, and each one's timer is there. *)
Adds == {i \in DOMAIN tasks : tasks[i].kind = "add"}
Functors ==
    /\ \A i \in DOMAIN tasks : tasks[i].id \in ids
    /\ \A i \in Adds : heap[tasks[i].id.timer].sequence = tasks[i].id.of
    /\ \A i, j \in Adds : tasks[i].id.timer = tasks[j].id.timer => i = j

(* What handleRead() works on had expired when it looked at the clock. *)
Expiring ==
    /\ now <= clock
    /\ \A e \in expired : e[1] <= now
    /\ ~calling => expired = {}

Structure == TypeOK /\ Entries /\ Actives /\ Owners /\ Numbers /\ Ids /\ Functors /\ Expiring

(* The timerfd is in time for every timer, not only for the earliest. *)
ArmedForAll ==
    ~calling => \A e \in timers : ready \/ (armed # 0 /\ armed <= ResetTimerfd(e[1]))

(* The calls of the callback of the timer at a, including the one that is to    *)
(* come for the expiration the object has.                                      *)
Calls(a) ==
    runs[heap[a].sequence] + (IF a \in Running /\ Entry(a) \notin toRun THEN 0 ELSE 1)

(* Timer t, its m-th call being the one for the expiration it has, is what was  *)
(* asked for in r.                                                              *)
Fits(t, r, m) ==
    /\ t.interval = r.interval /\ r.when <= t.expiration
    /\ r.interval = 0 => m = 1
    /\ r.interval > 0 => r.born + m * r.interval <= t.expiration

(* Every live timer is what was asked for, and numbers not given out yet have   *)
(* no history.                                                                  *)
Paced ==
    /\ \A s \in Sequence : s >= created => runs[s] = 0
    /\ \A a \in Addr : heap[a] # Free => Fits(heap[a], asked[heap[a].sequence], Calls(a))

(* The first timer, once cancelled, is gone or about to be dropped by reset(). *)
FirstDropped ==
    /\ 0 \in cancelled => created > 0
    /\ 0 \in cancelled =>
          \A a \in Addr : heap[a].sequence = 0 => a \in Running /\ <<a, 0>> \in cancelingTimers

IInv == Structure /\ ArmedForAll /\ Paced /\ NeverEarly /\ FirstDropped

----------------------------------------------------------------------------
(* The operators *)

(* A set of naturals that is not empty has a least element. *)
LEMMA LeastElement ==
    ASSUME NEW T, T \subseteq Nat, T # {}
    PROVE  \E x \in T : \A y \in T : x <= y
<1> DEFINE less == {ss \in Nat \X Nat : ss[1] < ss[2]}
<1>1. IsWellFoundedOn(less, Nat)
  BY NatLessThanWellFounded DEF OpToRel
<1> HIDE DEF less
<1>2. PICK x \in T : \A y \in T : ~(<<y, x>> \in less)
  BY <1>1, WFMin, Zenon
<1>3. \A y \in T : ~(y < x)
  BY <1>2 DEF less
<1> QED
  BY <1>3

(* std::set's order on pairs of time and address is total, so a set of timers   *)
(* that is not empty has a first one, and no other is before it.                *)
LEMMA EarliestFacts ==
    ASSUME NEW set, set \subseteq Time \X Addr, set # {}
    PROVE  /\ Earliest(set) \in set
           /\ \A f \in set : Earliest(set)[1] <= f[1]
<1>1. \A f \in set : f = <<f[1], f[2]>> /\ f[1] \in Nat /\ f[2] \in Nat
  <2> SUFFICES ASSUME NEW f \in set PROVE f = <<f[1], f[2]>> /\ f[1] \in Nat /\ f[2] \in Nat
    OBVIOUS
  <2>1. f \in Nat \X Addr
    BY DEF Time
  <2>2. f = <<f[1], f[2]>> /\ f[1] \in Nat /\ f[2] \in Addr
    BY <2>1
  <2> QED
    BY <2>2, AddrAssumption
<1> DEFINE times == {f[1] : f \in set}
<1>2. PICK t \in times : \A u \in times : t <= u
  <2>1. times \in SUBSET Nat /\ times # {}
    BY <1>1
  <2> QED
    BY <2>1, LeastElement
<1> DEFINE addrs == {f[2] : f \in {g \in set : g[1] = t}}
<1>3. PICK a \in addrs : \A b \in addrs : a <= b
  <2>1. addrs \in SUBSET Nat /\ addrs # {}
    BY <1>1, <1>2
  <2> QED
    BY <2>1, LeastElement
<1>4. PICK e \in set : e[1] = t /\ e[2] = a
  BY <1>3
<1>5. ASSUME NEW f \in set \ {e} PROVE Before(e, f)
  <2>1. t <= f[1] /\ t \in Nat /\ f[1] \in Nat /\ a \in Nat /\ f[2] \in Nat
    BY <1>1, <1>2, <1>4
  <2>2. f[1] = t => a <= f[2] /\ f[2] # a
    BY <1>1, <1>3, <1>4
  <2> QED
    BY <1>4, <2>1, <2>2 DEF Before
<1> HIDE DEF times, addrs
<1>6. /\ Earliest(set) \in set
      /\ \A f \in set \ {Earliest(set)} : Before(Earliest(set), f)
  BY <1>5 DEF Earliest
<1> HIDE DEF Earliest
<1>7. ASSUME NEW f \in set PROVE Earliest(set)[1] <= f[1]
  BY <1>1, <1>6 DEF Before
<1> QED
  BY <1>6, <1>7

(* An address holds a Timer or nothing, and its number tells which. *)
LEMMA HeapFacts ==
    ASSUME TypeOK, NEW a \in Addr
    PROVE  /\ heap[a].expiration \in Nat /\ heap[a].interval \in Nat
           /\ heap[a].sequence \in Nat /\ heap[a].sequence <= MaxTimers
           /\ heap[a] # Free <=> heap[a].sequence # MaxTimers
           /\ heap[a] # Free => heap[a] \in Timer /\ heap[a].sequence \in Sequence
<1>1. heap[a] \in Timer \cup {Free}
  BY DEF TypeOK
<1>2. CASE heap[a] = Free
  BY <1>2, BoundsAssumption DEF Free
<1>3. CASE heap[a] \in Timer
  <2>1. heap[a].sequence \in 0..(MaxTimers - 1)
    BY <1>3 DEF Timer, Sequence
  <2>2. heap[a].sequence # MaxTimers /\ heap[a].sequence \in Nat /\ heap[a].sequence <= MaxTimers
    BY <2>1, BoundsAssumption
  <2>3. heap[a] # Free
    BY <2>2 DEF Free
  <2> QED
    BY <1>3, <2>1, <2>2, <2>3 DEF Timer, Time, Sequence
<1> QED
  BY <1>1, <1>2, <1>3

(* What the two ways to ask for a timer give (EventLoop.cc runAt, runEvery). *)
LEMMA RequestFacts ==
    ASSUME TypeOK, NEW r \in Requests
    PROVE  /\ r.when \in Nat /\ r.interval \in Nat /\ r.when >= clock
           /\ r.interval > 0 => r.when = clock + r.interval
<1>1. clock \in Nat
  BY DEF TypeOK
<1>2. CASE \E d \in Delays : r = [when |-> clock + d, interval |-> 0]
  BY <1>1, <1>2, DelaysAssumption
<1>3. CASE \E i \in Intervals : r = [when |-> clock + i, interval |-> i]
  BY <1>1, <1>3, IntervalsAssumption
<1> QED
  BY <1>2, <1>3 DEF Requests

(* Membership in the sets of addresses, one address at a time. *)
LEMMA OwnerFacts ==
    ASSUME TypeOK, Entries, NEW a
    PROVE  /\ a \in Scheduled <=> a \in Addr /\ <<heap[a].expiration, a>> \in timers
           /\ a \in Running <=> a \in Addr /\ <<heap[a].expiration, a>> \in expired
<1>1. \A e \in timers \cup expired : e = <<e[1], e[2]>> /\ e[2] \in Addr
  BY DEF TypeOK
<1>2. a \in Scheduled => a \in Addr /\ <<heap[a].expiration, a>> \in timers
  BY <1>1 DEF Scheduled, Entries
<1>3. a \in Running => a \in Addr /\ <<heap[a].expiration, a>> \in expired
  BY <1>1 DEF Running, Entries
<1>4. <<heap[a].expiration, a>>[2] = a
  OBVIOUS
<1>5. <<heap[a].expiration, a>> \in timers => a \in Scheduled
  BY <1>4 DEF Scheduled
<1>6. <<heap[a].expiration, a>> \in expired => a \in Running
  BY <1>4 DEF Running
<1> QED
  BY <1>2, <1>3, <1>5, <1>6

(* The timers that wait have addresses. *)
LEMMA WaitingFacts ==
    ASSUME TypeOK
    PROVE  Waiting \subseteq Addr
<1>1. \A i \in DOMAIN tasks : tasks[i] \in Task
  BY ElementOfSeq, LenProperties DEF TypeOK
<1>2. \A i \in DOMAIN tasks : tasks[i].id.timer \in Addr
  BY <1>1 DEF Task, TimerId
<1> QED
  BY <1>2 DEF Waiting

(* A functor that is queued adds its timer to those that wait. *)
LEMMA QueueTask ==
    ASSUME TypeOK, NEW t \in Task, tasks' = Append(tasks, t)
    PROVE  /\ tasks' \in Seq(Task) /\ Len(tasks') = Len(tasks) + 1
           /\ DOMAIN tasks' = 1..(Len(tasks) + 1) /\ DOMAIN tasks = 1..Len(tasks)
           /\ \A i \in DOMAIN tasks : tasks'[i] = tasks[i]
           /\ tasks'[Len(tasks) + 1] = t
           /\ Waiting' = Waiting \cup (IF t.kind = "add" THEN {t.id.timer} ELSE {})
<1>1. tasks \in Seq(Task) /\ Len(tasks) \in Nat
  BY LenProperties DEF TypeOK
<1>2. /\ tasks' \in Seq(Task) /\ Len(tasks') = Len(tasks) + 1
      /\ DOMAIN tasks' = 1..(Len(tasks) + 1) /\ DOMAIN tasks = 1..Len(tasks)
      /\ \A i \in DOMAIN tasks : tasks'[i] = tasks[i]
      /\ tasks'[Len(tasks) + 1] = t
  BY <1>1, AppendProperties, LenProperties
<1>3. Waiting' = Waiting \cup (IF t.kind = "add" THEN {t.id.timer} ELSE {})
  <2>1. ASSUME NEW a \in Waiting' PROVE a \in Waiting \/ (t.kind = "add" /\ a = t.id.timer)
    <3>1. PICK i \in DOMAIN tasks' : tasks'[i].kind = "add" /\ a = tasks'[i].id.timer
      BY <2>1 DEF Waiting
    <3>2. i \in DOMAIN tasks \/ i = Len(tasks) + 1
      BY <1>1, <1>2
    <3> QED
      BY <1>2, <3>1, <3>2 DEF Waiting
  <2>2. ASSUME NEW a \in Waiting PROVE a \in Waiting'
    <3>1. PICK i \in DOMAIN tasks : tasks[i].kind = "add" /\ a = tasks[i].id.timer
      BY <2>2 DEF Waiting
    <3>2. i \in DOMAIN tasks'
      BY <1>1, <1>2
    <3> QED
      BY <1>2, <3>1, <3>2 DEF Waiting
  <2>3. t.kind = "add" => t.id.timer \in Waiting'
    <3>1. Len(tasks) + 1 \in DOMAIN tasks'
      BY <1>1, <1>2
    <3> QED
      BY <1>2, <3>1 DEF Waiting
  <2> QED
    BY <2>1, <2>2, <2>3
<1> QED
  BY <1>2, <1>3

(* The first functor leaves the queue, and its timer those that wait: no other  *)
(* functor is for the same timer.                                               *)
LEMMA TakeTask ==
    ASSUME TypeOK, Functors, tasks # <<>>, tasks' = Tail(tasks)
    PROVE  /\ Head(tasks) = tasks[1] /\ 1 \in DOMAIN tasks /\ Head(tasks) \in Task
           /\ tasks' \in Seq(Task)
           /\ \A i \in DOMAIN tasks' : i + 1 \in DOMAIN tasks /\ tasks'[i] = tasks[i + 1]
           /\ Waiting' = Waiting \ (IF Head(tasks).kind = "add" THEN {Head(tasks).id.timer} ELSE {})
<1>1. tasks \in Seq(Task) /\ Len(tasks) \in Nat \ {0}
  BY EmptySeq DEF TypeOK
<1>2. /\ Head(tasks) = tasks[1] /\ 1 \in DOMAIN tasks /\ Head(tasks) \in Task
      /\ tasks' \in Seq(Task) /\ Len(tasks') = Len(tasks) - 1
      /\ DOMAIN tasks = 1..Len(tasks) /\ DOMAIN tasks' = 1..(Len(tasks) - 1)
      /\ \A i \in DOMAIN tasks' : tasks'[i] = tasks[i + 1]
  BY <1>1, HeadTailProperties, LenProperties
<1>3. \A i \in DOMAIN tasks' : i + 1 \in DOMAIN tasks
  BY <1>1, <1>2
<1> DEFINE h == Head(tasks)
           gone == IF h.kind = "add" THEN {h.id.timer} ELSE {}
<1>4. ASSUME NEW a \in Waiting' PROVE a \in Waiting \ gone
  <2>1. PICK i \in DOMAIN tasks' : tasks'[i].kind = "add" /\ a = tasks'[i].id.timer
    BY <1>4 DEF Waiting
  <2>2. i + 1 \in Adds /\ a = tasks[i + 1].id.timer
    BY <1>2, <1>3, <2>1 DEF Adds
  <2>3. a \in Waiting
    BY <2>2 DEF Waiting, Adds
  <2>4. ASSUME h.kind = "add", h.id.timer = a PROVE FALSE
    <3>1. 1 \in Adds /\ tasks[1].id.timer = tasks[i + 1].id.timer
      BY <1>2, <2>2, <2>4 DEF Adds
    <3>2. i + 1 # 1
      BY <1>2
    <3> QED
      BY <2>2, <3>1, <3>2 DEF Functors
  <2> QED
    BY <2>3, <2>4
<1>5. ASSUME NEW a \in Waiting \ gone PROVE a \in Waiting'
  <2>1. PICK i \in DOMAIN tasks : tasks[i].kind = "add" /\ a = tasks[i].id.timer
    BY <1>5 DEF Waiting
  <2>2. i # 1
    BY <1>2, <1>5, <2>1
  <2>3. i - 1 \in DOMAIN tasks' /\ tasks'[i - 1] = tasks[i]
    BY <1>1, <1>2, <2>2
  <2> QED
    BY <2>1, <2>3 DEF Waiting
<1> QED
  BY <1>2, <1>3, <1>4, <1>5
----------------------------------------------------------------------------
(* The structure: who owns which timer *)

(* operator new gives an address nobody owns, and the new timer a number nobody *)
(* has (Timer.h s_numCreated_).                                                 *)
LEMMA NewTimerFacts ==
    ASSUME Structure, NEW a \in Addr, NEW r \in Requests, NewTimer(a, r)
    PROVE  /\ a \notin Waiting /\ a \notin Scheduled /\ a \notin Running
           /\ heap'[a] = [expiration |-> r.when, interval |-> r.interval, sequence |-> created]
           /\ heap'[a] # Free /\ created \in Sequence
           /\ \A b \in Addr \ {a} : heap'[b] = heap[b]
           /\ heap' \in [Addr -> Timer \cup {Free}] /\ created' \in 0..MaxTimers
           /\ asked' \in [Sequence -> [born : Time, when : Time, interval : Time]]
           /\ ids' \subseteq TimerId
           /\ Numbers' /\ Ids'
<1> USE DEF Structure
<1>1. /\ created \in Nat /\ created < MaxTimers /\ MaxTimers \in Nat
      /\ heap[a] = Free /\ created' = created + 1
  BY BoundsAssumption DEF NewTimer, TypeOK
<1>2. created \in Sequence
  BY <1>1 DEF Sequence
<1>3. a \notin Waiting /\ a \notin Scheduled /\ a \notin Running
  BY <1>1 DEF Owners
<1> DEFINE t == [expiration |-> r.when, interval |-> r.interval, sequence |-> created]
<1>4. t \in Timer /\ t # Free
  <2>1. t \in Timer
    BY <1>2, RequestFacts DEF Timer, Time
  <2>2. t.sequence # MaxTimers
    BY <1>1
  <2> QED
    BY <2>1, <2>2 DEF Free
<1>5. /\ heap'[a] = t /\ \A b \in Addr \ {a} : heap'[b] = heap[b]
      /\ heap' \in [Addr -> Timer \cup {Free}]
  BY <1>4 DEF NewTimer, TypeOK
<1>6. asked' \in [Sequence -> [born : Time, when : Time, interval : Time]]
  <2>1. [born |-> clock, when |-> r.when, interval |-> r.interval]
          \in [born : Time, when : Time, interval : Time]
    BY RequestFacts DEF TypeOK, Time
  <2> QED
    BY <1>2, <2>1 DEF NewTimer, TypeOK
<1> DEFINE id == [timer |-> a, sequence |-> 0, of |-> created]
<1>7. ids' = ids \cup {id} /\ id \in TimerId
  BY <1>2 DEF NewTimer, TimerId
<1>8. t.sequence = created
  OBVIOUS
<1> HIDE DEF t
<1>9. \A b \in Addr : heap[b].sequence # created
  BY <1>1, HeapFacts DEF Numbers
<1>10. Numbers'
  <2>1. ASSUME NEW b \in Addr, heap'[b] # Free PROVE heap'[b].sequence < created'
    BY <1>1, <1>5, <1>8, <2>1, HeapFacts DEF Numbers
  <2>2. ASSUME NEW b \in Addr, NEW c \in Addr, heap'[b] # Free,
               heap'[b].sequence = heap'[c].sequence
        PROVE  b = c
    BY <1>5, <1>8, <1>9, <2>2 DEF Numbers
  <2> QED
    BY <2>1, <2>2 DEF Numbers
<1>11. Ids'
  <2> SUFFICES ASSUME NEW i \in ids'
               PROVE  /\ i.sequence = 0 /\ i.of < created'
                      /\ \A b \in Addr : heap'[b].sequence = i.of => b = i.timer
    BY DEF Ids
  <2>1. CASE i = id
    BY <1>1, <1>5, <1>8, <1>9, <2>1
  <2>2. CASE i \in ids
    <3>1. i.sequence = 0 /\ i.of < created /\ i.of \in Nat
      BY <2>2 DEF Ids, TypeOK, TimerId, Sequence
    <3>2. \A b \in Addr : heap[b].sequence = i.of => b = i.timer
      BY <2>2 DEF Ids
    <3> QED
      BY <1>1, <1>5, <1>8, <3>1, <3>2
  <2> QED
    BY <1>7, <2>1, <2>2
<1> QED
  BY <1>1, <1>2, <1>3, <1>4, <1>5, <1>6, <1>7, <1>10, <1>11 DEF t, TypeOK

(* The addresses in a set of entries, entry by entry. *)
LEMMA AddressesUnion ==
    ASSUME NEW S, NEW t, NEW a
    PROVE  {e[2] : e \in S \cup {<<t, a>>}} = {e[2] : e \in S} \cup {a}
<1>1. <<t, a>>[2] = a
  OBVIOUS
<1>2. ASSUME NEW b \in {e[2] : e \in S \cup {<<t, a>>}} PROVE b \in {e[2] : e \in S} \cup {a}
  BY <1>1
<1>3. ASSUME NEW b \in {e[2] : e \in S} \cup {a} PROVE b \in {e[2] : e \in S \cup {<<t, a>>}}
  BY <1>1
<1> QED
  BY <1>2, <1>3

(* A functor that will insert a timer keeps its address. *)
LEMMA AddFacts ==
    ASSUME TypeOK, NEW i \in Adds
    PROVE  /\ tasks[i] \in Task /\ tasks[i].id \in TimerId
           /\ tasks[i].id.timer \in Addr /\ tasks[i].id.timer \in Waiting
<1>1. tasks \in Seq(Task) /\ i \in DOMAIN tasks /\ tasks[i].kind = "add"
  BY DEF Adds, TypeOK
<1>2. tasks[i] \in Task
  BY <1>1
<1> QED
  BY <1>1, <1>2 DEF Task, TimerId, Waiting

(* A timer that is added joins both sets. *)
LEMMA StructureAddTimer ==
    ASSUME Structure, NEW a \in Addr, NEW r \in Requests, AddTimer(a, r)
    PROVE  Structure' /\ Scheduled' = Scheduled \cup {a} /\ Running' = Running
<1> USE DEF Structure
<1>a. NewTimer(a, r)
  BY DEF AddTimer
<1>0. /\ a \notin Waiting /\ a \notin Scheduled /\ a \notin Running
      /\ heap'[a].expiration = r.when /\ heap'[a].sequence = created
      /\ heap'[a] # Free /\ created \in Sequence
      /\ \A b \in Addr \ {a} : heap'[b] = heap[b]
  <2>1. heap'[a] = [expiration |-> r.when, interval |-> r.interval, sequence |-> created]
    BY <1>a, NewTimerFacts, Zenon
  <2>2. /\ a \notin Waiting /\ a \notin Scheduled /\ a \notin Running
        /\ heap'[a] # Free /\ created \in Sequence
        /\ \A b \in Addr \ {a} : heap'[b] = heap[b]
    BY <1>a, NewTimerFacts, Zenon
  <2> QED
    BY <2>1, <2>2
<1>b. /\ heap' \in [Addr -> Timer \cup {Free}] /\ created' \in 0..MaxTimers
      /\ asked' \in [Sequence -> [born : Time, when : Time, interval : Time]]
      /\ ids' \subseteq TimerId
      /\ Numbers' /\ Ids'
  BY <1>a, NewTimerFacts
<1>1. /\ timers' = timers \cup {<<r.when, a>>}
      /\ activeTimers' = activeTimers \cup {<<a, created>>}
      /\ armed' = armed \/ armed' = ResetTimerfd(r.when)
  BY <1>0 DEF AddTimer, AddTimerInLoop
<1>2. UNCHANGED <<clock, cancelingTimers, calling, expired, toRun, now, ready, tasks, runs, cancelled>>
  BY DEF AddTimer
<1>3. Waiting' = Waiting /\ Running' = Running
  BY <1>2 DEF Waiting, Running
<1>4. Scheduled' = Scheduled \cup {a}
  BY <1>1, AddressesUnion DEF Scheduled
<1>5. Entries'
  <2>1. \A e \in timers \cup expired : e[2] # a /\ e[2] \in Addr
    BY <1>0 DEF Scheduled, Running, TypeOK
  <2>2. ASSUME NEW e \in timers' PROVE e[1] = heap'[e[2]].expiration
    BY <1>0, <1>1, <2>1 DEF Entries
  <2>3. ASSUME NEW e \in expired' PROVE e[1] = heap'[e[2]].expiration
    BY <1>0, <1>2, <2>1 DEF Entries
  <2> QED
    BY <2>2, <2>3 DEF Entries
<1>6. Actives'
  <2>1. Scheduled \subseteq Addr \ {a}
    BY <1>0 DEF Scheduled, TypeOK
  <2>2. {<<b, heap'[b].sequence>> : b \in Scheduled'}
           = {<<b, heap[b].sequence>> : b \in Scheduled} \cup {<<a, created>>}
    BY <1>0, <1>4, <2>1
  <2> QED
    BY <1>1, <2>2 DEF Actives, ActiveTimer
<1>7. Owners'
  BY <1>0, <1>3, <1>4 DEF Owners
<1>8. Functors'
  <2>1. \A i \in Adds : tasks[i].id.timer \in Addr \ {a}
    BY <1>0, AddFacts
  <2>2. ids \subseteq ids'
    BY <1>a DEF NewTimer
  <2>3. Adds' = Adds
    BY <1>2 DEF Adds
  <2> QED
    BY <1>0, <1>2, <2>1, <2>2, <2>3 DEF Functors
<1>9. Expiring'
  BY <1>2 DEF Expiring
<1>10. TypeOK'
  <2>1. timers' \subseteq Time \X Addr /\ activeTimers' \subseteq Addr \X Sequence
    <3>1. r.when \in Time
      BY RequestFacts DEF Time
    <3> QED
      BY <1>0, <1>1, <3>1 DEF TypeOK
  <2>2. armed' \in Nat
    <3>1. clock \in Nat /\ armed \in Nat /\ r.when \in Nat
      BY RequestFacts DEF TypeOK
    <3> QED
      BY <1>1, <3>1 DEF ResetTimerfd
  <2> QED
    BY <1>b, <1>2, <2>1, <2>2 DEF TypeOK
<1> QED
  BY <1>b, <1>3, <1>4, <1>5, <1>6, <1>7, <1>8, <1>9, <1>10
(* A timer that is created elsewhere waits in its functor. *)
LEMMA StructureAddTimerElsewhere ==
    ASSUME Structure, NEW a \in Addr, NEW r \in Requests, AddTimerElsewhere(a, r)
    PROVE  Structure' /\ Scheduled' = Scheduled /\ Running' = Running
<1> USE DEF Structure
<1>a. NewTimer(a, r)
  BY DEF AddTimerElsewhere
<1>0. /\ a \notin Waiting /\ a \notin Scheduled /\ a \notin Running
      /\ heap'[a].expiration = r.when /\ heap'[a].sequence = created
      /\ heap'[a] # Free /\ created \in Sequence
      /\ \A b \in Addr \ {a} : heap'[b] = heap[b]
  <2>1. heap'[a] = [expiration |-> r.when, interval |-> r.interval, sequence |-> created]
    BY <1>a, NewTimerFacts, Zenon
  <2>2. /\ a \notin Waiting /\ a \notin Scheduled /\ a \notin Running
        /\ heap'[a] # Free /\ created \in Sequence
        /\ \A b \in Addr \ {a} : heap'[b] = heap[b]
    BY <1>a, NewTimerFacts, Zenon
  <2> QED
    BY <2>1, <2>2
<1>b. /\ heap' \in [Addr -> Timer \cup {Free}] /\ created' \in 0..MaxTimers
      /\ asked' \in [Sequence -> [born : Time, when : Time, interval : Time]]
      /\ ids' \subseteq TimerId
      /\ Numbers' /\ Ids'
  BY <1>a, NewTimerFacts
<1> DEFINE id == [timer |-> a, sequence |-> 0, of |-> created]
           t == [kind |-> "add", id |-> id]
           n == Len(tasks) + 1
<1>1. tasks' = Append(tasks, t)
  BY DEF AddTimerElsewhere
<1>2. UNCHANGED <<clock, timers, activeTimers, cancelingTimers, calling, expired, toRun,
                  now, armed, ready, runs, cancelled>>
  BY DEF AddTimerElsewhere
<1>3. Scheduled' = Scheduled /\ Running' = Running
  BY <1>2 DEF Scheduled, Running
<1>c. t \in Task /\ t.kind = "add" /\ t.id = id /\ id.timer = a /\ id.of = created
  BY <1>0 DEF Task, TimerId
<1>d. id \in ids' /\ ids \subseteq ids'
  BY <1>a DEF NewTimer
<1> HIDE DEF id, t
<1>4. /\ tasks' \in Seq(Task) /\ DOMAIN tasks' = 1..n /\ DOMAIN tasks = 1..Len(tasks)
      /\ \A i \in DOMAIN tasks : tasks'[i] = tasks[i]
      /\ tasks'[n] = t /\ Len(tasks) \in Nat
  BY <1>1, <1>c, QueueTask, LenProperties DEF TypeOK
<1>5. Waiting' = Waiting \cup {a}
  BY <1>1, <1>c, QueueTask
<1>6. Entries'
  <2>1. \A e \in timers \cup expired : e[2] # a /\ e[2] \in Addr
    BY <1>0 DEF Scheduled, Running, TypeOK
  <2>2. ASSUME NEW e \in timers PROVE e[1] = heap'[e[2]].expiration
    BY <1>0, <2>1 DEF Entries
  <2>3. ASSUME NEW e \in expired PROVE e[1] = heap'[e[2]].expiration
    BY <1>0, <2>1 DEF Entries
  <2> QED
    BY <1>2, <2>2, <2>3 DEF Entries
<1>7. Actives'
  <2>1. Scheduled \subseteq Addr \ {a}
    BY <1>0 DEF Scheduled, TypeOK
  <2>2. {<<b, heap'[b].sequence>> : b \in Scheduled} = {<<b, heap[b].sequence>> : b \in Scheduled}
    BY <1>0, <2>1
  <2> QED
    BY <1>2, <1>3, <2>2 DEF Actives, ActiveTimer
<1>8. Owners'
  BY <1>0, <1>3, <1>5 DEF Owners
<1>9. Functors'
  <2>1. \A i \in Adds : tasks[i].id.timer \in Addr \ {a}
    BY <1>0, AddFacts
  <2>2. Adds' = Adds \cup {n}
    BY <1>4, <1>c DEF Adds
  <2>3. \A i \in DOMAIN tasks' : tasks'[i].id \in ids'
    BY <1>4, <1>c, <1>d DEF Functors
  <2>4. \A i \in Adds : i \in DOMAIN tasks /\ tasks'[i] = tasks[i]
    BY <1>4 DEF Adds
  <2>5. \A i \in Adds' : heap'[tasks'[i].id.timer].sequence = tasks'[i].id.of
    BY <1>0, <1>4, <1>c, <2>1, <2>2, <2>4 DEF Functors
  <2>6. \A i, j \in Adds' : tasks'[i].id.timer = tasks'[j].id.timer => i = j
    BY <1>4, <1>c, <2>1, <2>2, <2>4 DEF Functors
  <2> QED
    BY <2>3, <2>5, <2>6 DEF Functors
<1>10. Expiring'
  BY <1>2 DEF Expiring
<1>11. TypeOK'
  BY <1>b, <1>2, <1>4 DEF TypeOK
<1> QED
  BY <1>b, <1>3, <1>6, <1>7, <1>8, <1>9, <1>10, <1>11

(* A cancellation that is queued changes nobody's timers. *)
LEMMA StructureCancelElsewhere ==
    ASSUME Structure, NEW id \in ids, CancelElsewhere(id)
    PROVE  Structure' /\ Scheduled' = Scheduled /\ Running' = Running
<1> USE DEF Structure
<1> DEFINE t == [kind |-> "cancel", id |-> id]
           n == Len(tasks) + 1
<1>1. tasks' = Append(tasks, t)
  BY DEF CancelElsewhere
<1>2. UNCHANGED <<clock, heap, created, timers, activeTimers, cancelingTimers, calling,
                  expired, toRun, now, armed, ready, ids, asked, runs, cancelled>>
  BY DEF CancelElsewhere
<1>3. t \in Task /\ t.kind = "cancel" /\ t.id = id
  BY DEF Task, TypeOK
<1> HIDE DEF t
<1>4. /\ tasks' \in Seq(Task) /\ DOMAIN tasks' = 1..n /\ DOMAIN tasks = 1..Len(tasks)
      /\ \A i \in DOMAIN tasks : tasks'[i] = tasks[i]
      /\ tasks'[n] = t /\ Len(tasks) \in Nat
  BY <1>1, <1>3, QueueTask, LenProperties DEF TypeOK
<1>5. Waiting' = Waiting
  BY <1>1, <1>3, QueueTask
<1>6. Scheduled' = Scheduled /\ Running' = Running
  BY <1>2 DEF Scheduled, Running
<1>7. Functors'
  <2>1. Adds' = Adds
    BY <1>3, <1>4 DEF Adds
  <2>2. \A i \in DOMAIN tasks' : tasks'[i].id \in ids'
    BY <1>2, <1>3, <1>4 DEF Functors
  <2>3. \A i \in Adds : tasks'[i] = tasks[i]
    BY <1>4 DEF Adds
  <2> QED
    BY <1>2, <2>1, <2>2, <2>3 DEF Functors
<1>8. TypeOK'
  BY <1>2, <1>4 DEF TypeOK
<1>9. Entries' /\ Expiring' /\ Numbers' /\ Ids'
  BY <1>2 DEF Entries, Expiring, Numbers, Ids
<1>10. Actives'
  BY <1>2, <1>6 DEF Actives, ActiveTimer
<1>11. Owners'
  BY <1>2, <1>5, <1>6 DEF Owners
<1> QED
  BY <1>6, <1>7, <1>8, <1>9, <1>10, <1>11
(* cancelInLoop() either deletes the timer at the id's address, which is then   *)
(* in both sets, is the process's first one, and leaves both; or it changes no  *)
(* set of timers, because the first timer is not active at that address.        *)
LEMMA CancelFacts ==
    ASSUME Structure, NEW id \in ids, CancelInLoop(id)
    PROVE  /\ id.timer \in Addr /\ id.of \in Sequence
           /\ \/ /\ id.timer \in Scheduled /\ heap[id.timer].sequence = 0
                 /\ timers' = timers \ {<<heap[id.timer].expiration, id.timer>>}
                 /\ activeTimers' = activeTimers \ {<<id.timer, 0>>}
                 /\ heap' = [heap EXCEPT ![id.timer] = Free]
                 /\ cancelingTimers' = cancelingTimers
              \/ /\ ~(id.timer \in Scheduled /\ heap[id.timer].sequence = 0)
                 /\ UNCHANGED <<timers, activeTimers, heap>>
                 /\ cancelingTimers' = IF calling THEN cancelingTimers \cup {<<id.timer, 0>>}
                                       ELSE cancelingTimers
<1> USE DEF Structure
<1> DEFINE entry == <<id.timer, 0>>
<1>1. id.timer \in Addr /\ id.of \in Sequence /\ id.sequence = 0
  BY DEF TypeOK, TimerId, Ids
<1>2. IF entry \in activeTimers THEN Discard(entry) ELSE Defer(entry)
  BY <1>1 DEF CancelInLoop
<1>3. entry \in activeTimers <=> id.timer \in Scheduled /\ heap[id.timer].sequence = 0
  BY DEF Actives, ActiveTimer
<1>4. entry[1] = id.timer
  OBVIOUS
<1> HIDE DEF entry
<1>5. CASE entry \in activeTimers
  BY <1>1, <1>2, <1>3, <1>4, <1>5 DEF Discard, Entry, entry
<1>6. CASE entry \notin activeTimers
  BY <1>1, <1>2, <1>3, <1>6 DEF Defer, entry
<1> QED
  BY <1>5, <1>6

(* cancelInLoop() keeps the structure, whoever called it. *)
LEMMA CancelKeeps ==
    ASSUME Structure, NEW id \in ids, CancelInLoop(id), Waiting' = Waiting,
           UNCHANGED <<clock, created, calling, expired, toRun, now, ids>>
    PROVE  /\ Entries' /\ Actives' /\ Owners' /\ Numbers' /\ Ids' /\ Expiring'
           /\ Running' = Running /\ timers' \subseteq timers
           /\ \A b \in Addr : heap'[b] = heap[b] \/ heap'[b] = Free
           /\ \A b \in Waiting \cup Running : heap'[b] = heap[b]
           /\ timers' \subseteq Time \X Addr /\ activeTimers' \subseteq Addr \X Sequence
           /\ heap' \in [Addr -> Timer \cup {Free}] /\ cancelingTimers' \subseteq Addr \X Nat
           /\ cancelled' \subseteq Sequence
<1> USE DEF Structure
<1> DEFINE a == id.timer
<1>1. a \in Addr /\ id.of \in Sequence
  BY CancelFacts
<1>2. cancelled' \subseteq Sequence
  BY <1>1 DEF CancelInLoop, TypeOK
<1>3. Running' = Running
  BY DEF Running
<1>4. Expiring'
  BY DEF Expiring
<1> DEFINE entry == <<heap[a].expiration, a>>
<1>5. CASE /\ a \in Scheduled /\ heap[a].sequence = 0
           /\ timers' = timers \ {entry}
           /\ activeTimers' = activeTimers \ {<<a, 0>>}
           /\ heap' = [heap EXCEPT ![a] = Free]
           /\ cancelingTimers' = cancelingTimers
  <2>1. /\ heap'[a] = Free /\ \A b \in Addr \ {a} : heap'[b] = heap[b]
        /\ heap' \in [Addr -> Timer \cup {Free}]
    BY <1>1, <1>5 DEF TypeOK
  <2>2. a \notin Waiting /\ a \notin Running
    BY <1>5 DEF Owners
  <2>3. \A e \in timers : e[2] \in Addr /\ (e[2] = a => e = entry)
    <3> SUFFICES ASSUME NEW e \in timers PROVE e[2] \in Addr /\ (e[2] = a => e = entry)
      OBVIOUS
    <3>1. e \in Time \X Addr /\ e[1] = heap[e[2]].expiration
      BY DEF TypeOK, Entries
    <3>2. e = <<e[1], e[2]>> /\ e[2] \in Addr
      BY <3>1
    <3> QED
      BY <3>1, <3>2
  <2>4. entry \in timers /\ entry[2] = a
    BY <1>5, OwnerFacts
  <2> HIDE DEF entry
  <2>5. Scheduled' = Scheduled \ {a}
    BY <1>5, <2>3, <2>4 DEF Scheduled
  <2>6. Running \subseteq Addr \ {a} /\ Waiting \subseteq Addr \ {a}
    <3>1. Waiting \subseteq Addr
      BY AddFacts DEF Waiting, Adds
    <3> QED
      BY <2>2, <3>1 DEF Running, TypeOK
  <2>7. Entries'
    <3>1. ASSUME NEW e \in timers' PROVE e[1] = heap'[e[2]].expiration
      BY <1>5, <2>1, <2>3 DEF Entries
    <3>2. ASSUME NEW e \in expired PROVE e[1] = heap'[e[2]].expiration
      BY <2>1, <2>6 DEF Entries, Running
    <3> QED
      BY <3>1, <3>2 DEF Entries
  <2>8. Actives'
    <3>1. Scheduled \subseteq Addr
      BY <2>3 DEF Scheduled
    <3>2. {<<b, heap'[b].sequence>> : b \in Scheduled \ {a}}
             = {<<b, heap[b].sequence>> : b \in Scheduled} \ {<<a, 0>>}
      BY <1>5, <2>1, <3>1
    <3> QED
      BY <1>5, <2>5, <3>2 DEF Actives, ActiveTimer
  <2>9. Owners'
    BY <1>3, <2>1, <2>2, <2>5 DEF Owners
  <2>10. heap'[a].sequence = MaxTimers
    BY <2>1 DEF Free
  <2>11. Numbers'
    <3>1. ASSUME NEW b \in Addr, heap'[b] # Free PROVE heap'[b].sequence < created'
      BY <2>1, <3>1 DEF Numbers
    <3>2. ASSUME NEW b \in Addr, NEW c \in Addr, heap'[b] # Free,
                 heap'[b].sequence = heap'[c].sequence
          PROVE  b = c
      <4>1. b # a /\ heap'[b] = heap[b] /\ heap[b].sequence # MaxTimers
        BY <2>1, <3>2, HeapFacts
      <4>2. c # a /\ heap'[c] = heap[c]
        BY <2>1, <2>10, <3>2, <4>1
      <4> QED
        BY <2>1, <3>2, <4>1, <4>2 DEF Numbers
    <3> QED
      BY <3>1, <3>2 DEF Numbers
  <2>12. Ids'
    <3> SUFFICES ASSUME NEW i \in ids, NEW b \in Addr, heap'[b].sequence = i.of
                 PROVE  b = i.timer
      BY DEF Ids
    <3>1. i.of \in Sequence
      BY DEF TypeOK, TimerId
    <3>2. i.of # MaxTimers
      BY <3>1, BoundsAssumption DEF Sequence
    <3> QED
      BY <2>1, <2>10, <3>2 DEF Ids
  <2>13. /\ timers' \subseteq Time \X Addr /\ activeTimers' \subseteq Addr \X Sequence
         /\ cancelingTimers' \subseteq Addr \X Nat /\ timers' \subseteq timers
    BY <1>5 DEF TypeOK
  <2> QED
    BY <1>2, <1>3, <1>4, <2>1, <2>6, <2>7, <2>8, <2>9, <2>11, <2>12, <2>13
<1>6. CASE /\ UNCHANGED <<timers, activeTimers, heap>>
           /\ cancelingTimers' = IF calling THEN cancelingTimers \cup {<<a, 0>>}
                                 ELSE cancelingTimers
  <2>1. Scheduled' = Scheduled
    BY <1>6 DEF Scheduled
  <2>2. Entries' /\ Numbers' /\ Ids'
    BY <1>6 DEF Entries, Numbers, Ids
  <2>3. Actives' /\ Owners'
    BY <1>3, <1>6, <2>1 DEF Actives, ActiveTimer, Owners
  <2>4. cancelingTimers' \subseteq Addr \X Nat
    BY <1>1, <1>6 DEF TypeOK
  <2> QED
    BY <1>2, <1>3, <1>4, <1>6, <2>2, <2>3, <2>4 DEF TypeOK
<1> QED
  BY <1>5, <1>6, CancelFacts

(* cancel() from the loop thread. *)
LEMMA StructureCancel ==
    ASSUME Structure, NEW id \in ids, Cancel(id)
    PROVE  Structure'
<1> USE DEF Structure
<1>1. CancelInLoop(id)
  BY DEF Cancel
<1>2. UNCHANGED <<clock, created, calling, expired, toRun, now, armed, ready, tasks, ids,
                  asked, runs>>
  BY DEF Cancel
<1>3. Waiting' = Waiting
  BY <1>2 DEF Waiting
<1>4. /\ Entries' /\ Actives' /\ Owners' /\ Numbers' /\ Ids' /\ Expiring'
      /\ \A b \in Waiting : heap'[b] = heap[b]
      /\ timers' \subseteq Time \X Addr /\ activeTimers' \subseteq Addr \X Sequence
      /\ heap' \in [Addr -> Timer \cup {Free}] /\ cancelingTimers' \subseteq Addr \X Nat
      /\ cancelled' \subseteq Sequence
  BY <1>1, <1>2, <1>3, CancelKeeps
<1>5. Functors'
  <2>1. Adds' = Adds
    BY <1>2 DEF Adds
  <2>2. \A i \in Adds : tasks[i].id.timer \in Waiting
    BY AddFacts
  <2> QED
    BY <1>2, <1>4, <2>1, <2>2 DEF Functors
<1>6. TypeOK'
  BY <1>2, <1>4 DEF TypeOK
<1> QED
  BY <1>4, <1>5, <1>6
(* What is left of the queue when its first functor is run. *)
LEMMA FunctorsTail ==
    ASSUME Structure, tasks # <<>>, tasks' = Tail(tasks), ids' = ids,
           \A a \in Waiting : heap'[a] = heap[a]
    PROVE  Functors'
<1> USE DEF Structure
<1>1. \A i \in DOMAIN tasks' : i + 1 \in DOMAIN tasks /\ tasks'[i] = tasks[i + 1]
  BY TakeTask
<1>2. \A i \in Adds' : i \in DOMAIN tasks' /\ i + 1 \in Adds
  BY <1>1 DEF Adds
<1>3. \A i \in Adds : tasks[i].id.timer \in Waiting
  BY AddFacts
<1>4. \A i \in DOMAIN tasks' : tasks'[i].id \in ids'
  BY <1>1 DEF Functors
<1>5. ASSUME NEW i \in Adds' PROVE heap'[tasks'[i].id.timer].sequence = tasks'[i].id.of
  <2>1. i + 1 \in Adds /\ tasks'[i] = tasks[i + 1]
    BY <1>1, <1>2
  <2> QED
    BY <1>3, <2>1 DEF Functors
<1>6. ASSUME NEW i \in Adds', NEW j \in Adds', tasks'[i].id.timer = tasks'[j].id.timer
      PROVE  i = j
  <2>1. tasks' \in Seq(Task) /\ i \in DOMAIN tasks' /\ j \in DOMAIN tasks'
    BY TakeTask, <1>2
  <2>2. i \in Nat /\ j \in Nat
    BY <2>1, LenProperties
  <2>3. i + 1 \in Adds /\ j + 1 \in Adds /\ tasks[i + 1].id.timer = tasks[j + 1].id.timer
    BY <1>1, <1>2, <1>6
  <2>4. i + 1 = j + 1
    BY <2>3 DEF Functors
  <2> QED
    BY <2>2, <2>4
<1> QED
  BY <1>4, <1>5, <1>6 DEF Functors

(* The loop thread runs a queued addTimerInLoop(): the timer moves from the     *)
(* functor to the sets.                                                         *)
RunAdd ==
    /\ tasks # <<>> /\ tasks' = Tail(tasks)
    /\ Head(tasks).kind = "add"
    /\ AddTimerInLoop(Head(tasks).id.timer, heap[Head(tasks).id.timer])
    /\ UNCHANGED <<heap, cancelingTimers, cancelled>>
    /\ UNCHANGED <<clock, created, calling, expired, toRun, now, ready, ids, asked, runs>>

(* The loop thread runs a queued cancelInLoop(). *)
RunCancel ==
    /\ tasks # <<>> /\ tasks' = Tail(tasks)
    /\ Head(tasks).kind = "cancel"
    /\ CancelInLoop(Head(tasks).id)
    /\ UNCHANGED armed
    /\ UNCHANGED <<clock, created, calling, expired, toRun, now, ready, ids, asked, runs>>

(* The two kinds of functors. *)
LEMMA RunTaskKinds == RunTask => ~calling /\ ~ready /\ (RunAdd \/ RunCancel)
BY DEF RunTask, RunAdd, RunCancel

(* A timer whose functor is run leaves those that wait and joins both sets. *)
LEMMA StructureRunAdd ==
    ASSUME Structure, RunAdd
    PROVE  /\ Structure' /\ Running' = Running
           /\ Head(tasks).id.timer \in Addr /\ Head(tasks).id.timer \in Waiting
<1> USE DEF Structure
<1> DEFINE a == Head(tasks).id.timer
<1>1. /\ Head(tasks) = tasks[1] /\ 1 \in DOMAIN tasks /\ tasks' \in Seq(Task)
      /\ Waiting' = Waiting \ {a}
  BY TakeTask DEF RunAdd
<1>2. 1 \in Adds
  BY <1>1 DEF Adds, RunAdd
<1>3. a \in Addr /\ a \in Waiting
  BY <1>1, <1>2, AddFacts
<1>4. /\ timers' = timers \cup {<<heap[a].expiration, a>>}
      /\ activeTimers' = activeTimers \cup {<<a, heap[a].sequence>>}
      /\ armed' = armed \/ armed' = ResetTimerfd(heap[a].expiration)
      /\ UNCHANGED <<heap, cancelingTimers, cancelled>>
      /\ UNCHANGED <<clock, created, calling, expired, toRun, now, ready, ids, asked, runs>>
  BY DEF RunAdd, AddTimerInLoop
<1>5. heap[a] # Free /\ a \notin Scheduled /\ a \notin Running
  BY <1>3 DEF Owners
<1>6. heap[a].sequence \in Sequence /\ heap[a].expiration \in Nat
  BY <1>3, <1>5, HeapFacts
<1> HIDE DEF a
<1>7. Scheduled' = Scheduled \cup {a}
  BY <1>4, AddressesUnion DEF Scheduled
<1>8. Running' = Running
  BY <1>4 DEF Running
<1>9. Entries'
  <2>1. ASSUME NEW e \in timers' PROVE e[1] = heap[e[2]].expiration
    BY <1>4 DEF Entries
  <2> QED
    BY <1>4, <2>1 DEF Entries
<1>10. Actives'
  <2>1. {<<b, heap[b].sequence>> : b \in Scheduled \cup {a}}
           = {<<b, heap[b].sequence>> : b \in Scheduled} \cup {<<a, heap[a].sequence>>}
    OBVIOUS
  <2> QED
    BY <1>4, <1>7, <2>1 DEF Actives, ActiveTimer
<1>11. Owners'
  BY <1>1, <1>3, <1>4, <1>5, <1>7, <1>8 DEF Owners
<1>12. Numbers' /\ Ids' /\ Expiring'
  BY <1>4 DEF Numbers, Ids, Expiring
<1>13. Functors'
  BY <1>4, FunctorsTail DEF RunAdd
<1>14. TypeOK'
  <2>1. timers' \subseteq Time \X Addr /\ activeTimers' \subseteq Addr \X Sequence
    BY <1>3, <1>4, <1>6 DEF TypeOK, Time
  <2>2. armed' \in Nat
    <3>1. clock \in Nat /\ armed \in Nat
      BY DEF TypeOK
    <3> QED
      BY <1>4, <1>6, <3>1 DEF ResetTimerfd
  <2> QED
    BY <1>1, <1>4, <2>1, <2>2 DEF TypeOK
<1> QED
  BY <1>3, <1>8, <1>9, <1>10, <1>11, <1>12, <1>13, <1>14 DEF a

(* A queued cancellation is run. *)
LEMMA StructureRunCancel ==
    ASSUME Structure, RunCancel
    PROVE  Structure' /\ Head(tasks).id \in ids /\ Waiting' = Waiting
<1> USE DEF Structure
<1>1. /\ Head(tasks) = tasks[1] /\ 1 \in DOMAIN tasks /\ tasks' \in Seq(Task)
      /\ Waiting' = Waiting
  BY TakeTask DEF RunCancel
<1>2. Head(tasks).id \in ids
  BY <1>1 DEF Functors
<1>3. UNCHANGED <<clock, created, calling, expired, toRun, now, armed, ready, ids, asked, runs>>
  BY DEF RunCancel
<1>4. /\ Entries' /\ Actives' /\ Owners' /\ Numbers' /\ Ids' /\ Expiring'
      /\ \A b \in Waiting : heap'[b] = heap[b]
      /\ timers' \subseteq Time \X Addr /\ activeTimers' \subseteq Addr \X Sequence
      /\ heap' \in [Addr -> Timer \cup {Free}] /\ cancelingTimers' \subseteq Addr \X Nat
      /\ cancelled' \subseteq Sequence
  BY <1>1, <1>2, <1>3, CancelKeeps DEF RunCancel
<1>5. Functors'
  BY <1>3, <1>4, FunctorsTail DEF RunCancel
<1>6. TypeOK'
  BY <1>1, <1>3, <1>4 DEF TypeOK
<1> QED
  BY <1>1, <1>2, <1>4, <1>5, <1>6
(* getExpired(): the timers whose time has come move from both sets to the      *)
(* vector of handleRead().                                                      *)
LEMMA StructureHandleRead ==
    ASSUME Structure, HandleRead
    PROVE  Structure' /\ Running = {} /\ Running' \subseteq Scheduled /\ toRun' = expired'
<1> USE DEF Structure
<1> DEFINE X == GetExpired
<1>1. /\ expired' = X /\ toRun' = X /\ timers' = timers \ X /\ now' = clock /\ calling' = TRUE
      /\ activeTimers' = activeTimers \ {ActiveTimer(e[2]) : e \in X}
      /\ cancelingTimers' = {} /\ ready' = FALSE /\ (armed' = 0 \/ armed' = armed)
      /\ UNCHANGED <<clock, heap, created, tasks, ids, asked, runs, cancelled>>
  BY DEF HandleRead
<1>2. X \subseteq timers /\ \A e \in X : e[1] <= clock
  BY DEF GetExpired
<1>3. expired = {} /\ Running = {}
  BY DEF HandleRead, Expiring, Running
<1>4. \A e, f \in timers : e[2] = f[2] => e = f
  <2>1. \A e \in timers : e = <<e[1], e[2]>> /\ e[1] = heap[e[2]].expiration
    BY DEF TypeOK, Entries
  <2> QED
    BY <2>1
<1> HIDE DEF X
<1>5. Running' = {e[2] : e \in X} /\ Running' \subseteq Scheduled
  BY <1>1, <1>2 DEF Running, Scheduled
<1>6. Scheduled' = Scheduled \ Running'
  BY <1>1, <1>2, <1>4, <1>5 DEF Scheduled
<1>7. Waiting' = Waiting
  BY <1>1 DEF Waiting
<1>8. Entries'
  BY <1>1, <1>2 DEF Entries
<1>9. Actives'
  <2>1. {ActiveTimer(e[2]) : e \in X} = {<<b, heap[b].sequence>> : b \in Running'}
    BY <1>5 DEF ActiveTimer
  <2>2. {<<b, heap[b].sequence>> : b \in Scheduled \ Running'}
           = {<<b, heap[b].sequence>> : b \in Scheduled}
                \ {<<b, heap[b].sequence>> : b \in Running'}
    OBVIOUS
  <2> QED
    BY <1>1, <1>6, <2>1, <2>2 DEF Actives, ActiveTimer
<1>10. Owners'
  <2>1. Waiting \cap Running' = {}
    BY <1>5 DEF Owners
  <2>2. Scheduled' \cup Running' = Scheduled \cup Running
    BY <1>3, <1>5, <1>6
  <2>3. \A b \in Addr : heap'[b] # Free <=> b \in Waiting' \cup Scheduled' \cup Running'
    BY <1>1, <1>7, <2>2 DEF Owners
  <2> QED
    BY <1>6, <1>7, <2>1, <2>3 DEF Owners
<1>11. Numbers' /\ Ids'
  BY <1>1 DEF Numbers, Ids
<1>12. Functors'
  BY <1>1 DEF Functors, Adds
<1>13. Expiring'
  <2>1. clock \in Nat
    BY DEF TypeOK
  <2> QED
    BY <1>1, <1>2, <2>1 DEF Expiring
<1>14. TypeOK'
  <2>1. /\ timers' \subseteq Time \X Addr /\ activeTimers' \subseteq Addr \X Sequence
        /\ expired' \subseteq Time \X Addr /\ toRun' \subseteq expired'
        /\ cancelingTimers' \subseteq Addr \X Nat
    BY <1>1, <1>2 DEF TypeOK
  <2>2. armed' \in Nat /\ now' \in 0..MaxClock
    BY <1>1 DEF TypeOK
  <2>3. calling' \in BOOLEAN /\ ready' \in BOOLEAN
    BY <1>1
  <2> QED
    BY <1>1, <2>1, <2>2, <2>3 DEF TypeOK
<1> QED
  BY <1>1, <1>3, <1>5, <1>8, <1>9, <1>10, <1>11, <1>12, <1>13, <1>14

(* reset(): the timers that repeat go back to both sets, the others are         *)
(* deleted, and handleRead() owns no timer any more.                            *)
LEMMA StructureReset ==
    ASSUME Structure, Reset
    PROVE  /\ Structure' /\ Running' = {}
           /\ \A a \in Addr : heap'[a] =
                 IF a \in Running
                 THEN IF Repeats(a) THEN [heap[a] EXCEPT !.expiration = now + heap[a].interval]
                      ELSE Free
                 ELSE heap[a]
<1> USE DEF Structure
<1> DEFINE next(a) == now + heap[a].interval
           kept == {a \in Running : Repeats(a)}
<1>1. /\ heap' = [a \in Addr |-> IF a \in kept THEN [heap[a] EXCEPT !.expiration = next(a)]
                                 ELSE IF a \in Running THEN Free ELSE heap[a]]
      /\ timers' = timers \cup {<<next(a), a>> : a \in kept}
      /\ activeTimers' = activeTimers \cup {ActiveTimer(a) : a \in kept}
      /\ armed' = Rearm(timers') /\ expired' = {} /\ calling' = FALSE
      /\ UNCHANGED <<clock, created, cancelingTimers, toRun, now, ready, tasks, ids, asked,
                     runs, cancelled>>
      /\ toRun = {}
  BY DEF Reset, Running
<1>2. Running \subseteq Addr /\ Scheduled \subseteq Addr /\ kept \subseteq Running
  BY DEF Running, Scheduled, TypeOK
<1>3. \A a \in kept : /\ heap[a] # Free /\ a \in Addr /\ heap[a] \in Timer
                      /\ heap[a].sequence \in Sequence /\ next(a) \in Nat
  <2>1. now \in Nat
    BY DEF TypeOK
  <2>2. \A a \in kept : a \in Addr /\ heap[a] # Free
    BY <1>2 DEF Owners
  <2> QED
    BY <2>1, <2>2, HeapFacts
<1>4. \A a \in kept : /\ heap'[a].expiration = next(a)
                      /\ heap'[a].sequence = heap[a].sequence
                      /\ heap'[a] = [heap[a] EXCEPT !.expiration = next(a)]
                      /\ heap'[a] \in Timer /\ heap'[a] # Free
  <2> SUFFICES ASSUME NEW a \in kept
               PROVE  /\ heap'[a].expiration = next(a)
                      /\ heap'[a].sequence = heap[a].sequence
                      /\ heap'[a] = [heap[a] EXCEPT !.expiration = next(a)]
                      /\ heap'[a] \in Timer /\ heap'[a] # Free
    OBVIOUS
  <2>1. a \in Addr /\ heap[a] \in Timer /\ heap[a].sequence \in Sequence /\ next(a) \in Nat
    BY <1>3
  <2>2. heap'[a] = [heap[a] EXCEPT !.expiration = next(a)]
    BY <1>1, <2>1
  <2>3. /\ heap'[a].expiration = next(a) /\ heap'[a].sequence = heap[a].sequence
        /\ heap'[a] \in Timer
    BY <2>1, <2>2 DEF Timer, Time
  <2>4. heap[a].sequence # MaxTimers
    BY <2>1, BoundsAssumption DEF Sequence
  <2>5. heap'[a] # Free
    BY <2>3, <2>4 DEF Free
  <2> QED
    BY <2>2, <2>3, <2>5
<1>5. /\ \A a \in Running \ kept : heap'[a] = Free
      /\ \A a \in Addr \ Running : heap'[a] = heap[a]
  BY <1>1, <1>2
<1>6. /\ \A a \in Addr : heap'[a] # Free =>
            heap[a] # Free /\ heap'[a].sequence = heap[a].sequence
      /\ \A a \in Addr : heap'[a].sequence = heap[a].sequence \/ heap'[a].sequence = MaxTimers
  <2>1. \A a \in Addr : a \in kept \/ a \in Running \ kept \/ a \in Addr \ Running
    OBVIOUS
  <2>2. Free.sequence = MaxTimers
    BY DEF Free
  <2> QED
    BY <1>3, <1>4, <1>5, <2>1, <2>2
<1>7. Running' = {} /\ Waiting' = Waiting
  BY <1>1 DEF Running, Waiting
<1>8. Scheduled' = Scheduled \cup kept
  <2>1. \A a : <<next(a), a>>[2] = a
    OBVIOUS
  <2>2. ASSUME NEW b \in Scheduled' PROVE b \in Scheduled \cup kept
    BY <1>1, <2>1 DEF Scheduled
  <2>3. ASSUME NEW b \in kept PROVE b \in Scheduled'
    <3>1. <<next(b), b>> \in timers'
      BY <1>1
    <3> QED
      BY <2>1, <3>1 DEF Scheduled
  <2>4. ASSUME NEW b \in Scheduled PROVE b \in Scheduled'
    BY <1>1 DEF Scheduled
  <2> QED
    BY <2>2, <2>3, <2>4
<1> HIDE DEF kept
<1>9. Entries'
  <2>1. ASSUME NEW e \in timers PROVE e[1] = heap'[e[2]].expiration
    <3>1. e[2] \in Addr \ Running
      BY DEF TypeOK, Owners, Scheduled
    <3> QED
      BY <1>5, <3>1 DEF Entries
  <2>2. ASSUME NEW a \in kept PROVE <<next(a), a>>[1] = heap'[<<next(a), a>>[2]].expiration
    BY <1>4
  <2> QED
    BY <1>1, <2>1, <2>2 DEF Entries
<1>10. Actives'
  <2>1. Scheduled \subseteq Addr \ Running
    BY <1>2 DEF Owners
  <2>2. {<<b, heap'[b].sequence>> : b \in Scheduled \cup kept}
           = {<<b, heap[b].sequence>> : b \in Scheduled} \cup {<<b, heap[b].sequence>> : b \in kept}
    <3>1. \A b \in Scheduled \cup kept : heap'[b].sequence = heap[b].sequence
      BY <1>4, <1>5, <2>1
    <3>2. {<<b, heap'[b].sequence>> : b \in Scheduled \cup kept}
             = {<<b, heap[b].sequence>> : b \in Scheduled \cup kept}
      BY <3>1
    <3> QED
      BY <3>2
  <2> QED
    BY <1>1, <1>8, <2>2 DEF Actives, ActiveTimer
<1>11. Owners'
  <2>1. \A a \in Addr : heap'[a] # Free <=> a \in Waiting \cup Scheduled \cup kept
    <3> SUFFICES ASSUME NEW a \in Addr
                 PROVE  heap'[a] # Free <=> a \in Waiting \cup Scheduled \cup kept
      OBVIOUS
    <3>1. CASE a \in kept
      BY <1>4, <3>1
    <3>2. CASE a \in Running \ kept
      BY <1>5, <3>2 DEF Owners
    <3>3. CASE a \notin Running
      BY <1>2, <1>5, <3>3 DEF Owners
    <3> QED
      BY <3>1, <3>2, <3>3
  <2>2. Waiting \cap (Scheduled \cup kept) = {}
    BY <1>2 DEF Owners
  <2> QED
    BY <1>7, <1>8, <2>1, <2>2 DEF Owners
<1>12. Numbers'
  <2>1. ASSUME NEW b \in Addr, heap'[b] # Free PROVE heap'[b].sequence < created'
    BY <1>1, <1>6, <2>1 DEF Numbers
  <2>2. ASSUME NEW b \in Addr, NEW c \in Addr, heap'[b] # Free,
               heap'[b].sequence = heap'[c].sequence
        PROVE  b = c
    <3>1. heap[b] # Free /\ heap'[b].sequence = heap[b].sequence /\ heap[b].sequence # MaxTimers
      BY <1>6, <2>2, HeapFacts
    <3>2. heap'[c].sequence = heap[c].sequence
      BY <1>6, <2>2, <3>1
    <3> QED
      BY <2>2, <3>1, <3>2 DEF Numbers
  <2> QED
    BY <2>1, <2>2 DEF Numbers
<1>13. Ids'
  <2> SUFFICES ASSUME NEW i \in ids
               PROVE  /\ i.sequence = 0 /\ i.of < created
                      /\ \A b \in Addr : heap'[b].sequence = i.of => b = i.timer
    BY <1>1 DEF Ids
  <2>1. i.of \in Sequence
    BY DEF TypeOK, TimerId
  <2>2. i.of # MaxTimers
    BY <2>1, BoundsAssumption DEF Sequence
  <2> QED
    BY <1>6, <2>2 DEF Ids
<1>14. Functors'
  <2>1. Adds' = Adds
    BY <1>1 DEF Adds
  <2>2. \A i \in Adds : tasks[i].id.timer \in Addr \ Running
    BY AddFacts DEF Owners
  <2> QED
    BY <1>1, <1>5, <2>1, <2>2 DEF Functors
<1>15. Expiring'
  BY <1>1 DEF Expiring
<1>16. TypeOK'
  <2>1. timers' \subseteq Time \X Addr /\ activeTimers' \subseteq Addr \X Sequence
    BY <1>1, <1>3 DEF TypeOK, Time, ActiveTimer
  <2>2. heap' \in [Addr -> Timer \cup {Free}]
    <3>1. \A a \in Addr : heap'[a] \in Timer \cup {Free}
      <4> SUFFICES ASSUME NEW a \in Addr PROVE heap'[a] \in Timer \cup {Free}
        OBVIOUS
      <4>1. a \in kept \/ a \in Running \ kept \/ a \in Addr \ Running
        OBVIOUS
      <4> QED
        BY <1>4, <1>5, <4>1 DEF TypeOK
    <3> QED
      BY <1>1, <3>1
  <2>3. armed' \in Nat
    <3>1. clock \in Nat /\ armed \in Nat
      BY DEF TypeOK
    <3>2. CASE timers' = {}
      BY <1>1, <3>1, <3>2 DEF Rearm
    <3>3. CASE timers' # {}
      <4>1. Earliest(timers') \in timers'
        BY <2>1, <3>3, EarliestFacts
      <4>2. Earliest(timers')[1] \in Nat
        BY <2>1, <4>1 DEF Time
      <4> QED
        BY <1>1, <3>1, <3>3, <4>2 DEF Rearm, ResetTimerfd
    <3> QED
      BY <3>2, <3>3
  <2>4. calling' \in BOOLEAN
    BY <1>1
  <2> QED
    BY <1>1, <2>1, <2>2, <2>3, <2>4 DEF TypeOK
<1>17. ASSUME NEW a \in Addr
       PROVE  heap'[a] = IF a \in Running
                         THEN IF Repeats(a)
                              THEN [heap[a] EXCEPT !.expiration = now + heap[a].interval] ELSE Free
                         ELSE heap[a]
  BY <1>4, <1>5 DEF kept
<1> QED
  BY <1>7, <1>9, <1>10, <1>11, <1>12, <1>13, <1>14, <1>15, <1>16, <1>17
(* The structure holds initially. *)
LEMMA StructureInit == Init => Structure
<1> SUFFICES ASSUME Init PROVE Structure
  OBVIOUS
<1>1. /\ timers = {} /\ expired = {} /\ activeTimers = {} /\ tasks = <<>> /\ ids = {}
      /\ created = 0 /\ clock = 1 /\ now = 0
  BY DEF Init
<1>2. \A a \in Addr : heap[a] = Free
  BY DEF Init
<1>3. Scheduled = {} /\ Running = {} /\ Waiting = {} /\ Adds = {}
  BY <1>1 DEF Scheduled, Running, Waiting, Adds
<1>4. TypeOK
  <2>1. <<>> \in Seq(Task)
    OBVIOUS
  <2>2. /\ 1 \in 1..MaxClock /\ 0 \in 0..MaxClock /\ 0 \in 0..MaxTimers /\ 0 \in Nat
    BY BoundsAssumption
  <2>3. /\ asked \in [Sequence -> [born : Time, when : Time, interval : Time]]
        /\ runs \in [Sequence -> Nat] /\ heap \in [Addr -> Timer \cup {Free}]
    BY DEF Init, Time
  <2> QED
    BY <2>1, <2>2, <2>3 DEF Init, TypeOK
<1>5. Entries /\ Actives /\ Owners /\ Numbers /\ Ids
  BY <1>1, <1>2, <1>3 DEF Entries, Actives, Owners, Numbers, Ids
<1>6. Functors /\ Expiring
  BY <1>1, <1>3 DEF Functors, Expiring
<1> QED
  BY <1>4, <1>5, <1>6 DEF Structure

(* A step that changes neither the sets, the objects nor the functors keeps the *)
(* structure.                                                                   *)
LEMMA StructureUnchanged ==
    ASSUME Structure, TypeOK', Expiring',
           UNCHANGED <<heap, created, timers, activeTimers, expired, tasks, ids>>
    PROVE  Structure' /\ Scheduled' = Scheduled /\ Running' = Running /\ Waiting' = Waiting
<1> USE DEF Structure
<1>1. Scheduled' = Scheduled /\ Running' = Running /\ Waiting' = Waiting /\ Adds' = Adds
  BY DEF Scheduled, Running, Waiting, Adds
<1>2. Entries' /\ Numbers' /\ Ids'
  BY DEF Entries, Numbers, Ids
<1>3. Actives' /\ Owners' /\ Functors'
  BY <1>1 DEF Actives, ActiveTimer, Owners, Functors
<1> QED
  BY <1>1, <1>2, <1>3

(* Timer::run() calls the earliest timer that has expired and not been called,  *)
(* which is alive.                                                              *)
LEMMA RunTimerFacts ==
    ASSUME Structure, RunTimer
    PROVE  \E e \in toRun :
              /\ e \in expired /\ e[2] \in Addr /\ e = <<heap[e[2]].expiration, e[2]>>
              /\ heap[e[2]] # Free /\ heap[e[2]].sequence \in Sequence /\ e[2] \in Running
              /\ toRun' = toRun \ {e}
              /\ runs' = [runs EXCEPT ![heap[e[2]].sequence] = @ + 1]
<1> USE DEF Structure
<1> DEFINE e == Earliest(toRun)
<1>1. toRun # {} /\ toRun' = toRun \ {e} /\ runs' = [runs EXCEPT ![heap[e[2]].sequence] = @ + 1]
  BY DEF RunTimer
<1>2. e \in toRun
  <2>1. toRun \subseteq Time \X Addr
    BY DEF TypeOK
  <2> QED
    BY <1>1, <2>1, EarliestFacts
<1> HIDE DEF e
<1>3. e \in expired /\ e \in Time \X Addr
  BY <1>2 DEF TypeOK
<1>4. e[2] \in Addr /\ e[2] \in Running
  BY <1>3 DEF Running
<1>5. e = <<e[1], e[2]>> /\ e[1] = heap[e[2]].expiration
  BY <1>3 DEF Entries
<1>6. heap[e[2]] # Free /\ heap[e[2]].sequence \in Sequence
  BY <1>4, HeapFacts DEF Owners
<1> QED
  BY <1>1, <1>2, <1>3, <1>4, <1>5, <1>6

(* The other steps keep the structure. *)
LEMMA StructureOther ==
    ASSUME Structure, Tick \/ Poll \/ RunTimer \/ UNCHANGED vars
    PROVE  Structure' /\ Scheduled' = Scheduled /\ Running' = Running /\ Waiting' = Waiting
<1> USE DEF Structure
<1>1. CASE Tick
  <2>1. TypeOK' /\ Expiring'
    BY <1>1, BoundsAssumption DEF Tick, TypeOK, Expiring
  <2> QED
    BY <1>1, <2>1, StructureUnchanged DEF Tick
<1>2. CASE Poll
  <2>1. TypeOK' /\ Expiring'
    BY <1>2 DEF Poll, TypeOK, Expiring
  <2> QED
    BY <1>2, <2>1, StructureUnchanged DEF Poll
<1>3. CASE RunTimer
  <2>1. Expiring'
    BY <1>3 DEF RunTimer, Expiring
  <2>2. TypeOK'
    <3>1. PICK e \in toRun : /\ toRun' = toRun \ {e} /\ heap[e[2]].sequence \in Sequence
                             /\ runs' = [runs EXCEPT ![heap[e[2]].sequence] = @ + 1]
      BY <1>3, RunTimerFacts
    <3>2. runs' \in [Sequence -> Nat] /\ toRun' \subseteq expired
      BY <3>1 DEF TypeOK
    <3> QED
      BY <1>3, <3>2 DEF RunTimer, TypeOK
  <2> QED
    BY <1>3, <2>1, <2>2, StructureUnchanged DEF RunTimer
<1>4. CASE UNCHANGED vars
  <2>1. TypeOK' /\ Expiring'
    BY <1>4 DEF vars, TypeOK, Expiring
  <2> QED
    BY <1>4, <2>1, StructureUnchanged DEF vars
<1> QED
  BY <1>1, <1>2, <1>3, <1>4

(* The structure is an inductive invariant (TimerQueue.cc, whole file). *)
LEMMA StructureNext == Structure /\ [Next]_vars => Structure'
<1> SUFFICES ASSUME Structure, [Next]_vars PROVE Structure'
  OBVIOUS
<1>1. ASSUME NEW a \in Addr, NEW r \in Requests, AddTimer(a, r) PROVE Structure'
  BY <1>1, StructureAddTimer
<1>2. ASSUME NEW a \in Addr, NEW r \in Requests, AddTimerElsewhere(a, r) PROVE Structure'
  BY <1>2, StructureAddTimerElsewhere
<1>3. ASSUME NEW id \in ids, Cancel(id) PROVE Structure'
  BY <1>3, StructureCancel
<1>4. ASSUME NEW id \in ids, CancelElsewhere(id) PROVE Structure'
  BY <1>4, StructureCancelElsewhere
<1>5. CASE RunTask
  BY <1>5, RunTaskKinds, StructureRunAdd, StructureRunCancel
<1>6. CASE HandleRead
  BY <1>6, StructureHandleRead
<1>7. CASE Reset
  BY <1>7, StructureReset
<1>8. CASE Tick \/ Poll \/ RunTimer \/ UNCHANGED vars
  BY <1>8, StructureOther
<1> QED
  BY <1>1, <1>2, <1>3, <1>4, <1>5, <1>6, <1>7, <1>8 DEF Next
----------------------------------------------------------------------------
(* The timerfd *)

(* resetTimerfd() is in the future and, for a later timer or at a later time,   *)
(* not earlier.                                                                 *)
LEMMA ResetFacts ==
    ASSUME TypeOK, NEW t \in Nat, NEW u \in Nat
    PROVE  ResetTimerfd(t) \in Nat \ {0} /\ (t <= u => ResetTimerfd(t) <= ResetTimerfd(u))
BY DEF ResetTimerfd, TypeOK

(* addTimerInLoop() arms the timerfd when the new timer is the earliest; when   *)
(* it is not, the timerfd is already in time for it.                            *)
LEMMA ArmedAdd ==
    ASSUME Structure, ArmedForAll, NEW a \in Addr, NEW t, t.expiration \in Nat,
           AddTimerInLoop(a, t), UNCHANGED <<clock, calling, ready>>
    PROVE  ArmedForAll'
<1> USE DEF Structure
<1> SUFFICES ASSUME ~calling, ~ready, NEW e \in timers'
             PROVE  armed' # 0 /\ armed' <= ResetTimerfd(e[1])'
  BY DEF ArmedForAll
<1>1. ResetTimerfd(e[1])' = ResetTimerfd(e[1])
  BY DEF ResetTimerfd
<1>2. e \in timers \/ e = <<t.expiration, a>>
  BY DEF AddTimerInLoop
<1>3. \A f \in timers : f[1] \in Nat /\ armed # 0 /\ armed <= ResetTimerfd(f[1])
  BY DEF ArmedForAll, TypeOK, Time
<1>4. e[1] \in Nat
  BY <1>2, <1>3
<1>5. timers # {} => /\ Earliest(timers) \in timers /\ Earliest(timers)[1] \in Nat
                     /\ \A f \in timers : Earliest(timers)[1] <= f[1]
  BY <1>3, EarliestFacts DEF TypeOK
<1>6. CASE timers = {} \/ t.expiration < Earliest(timers)[1]
  <2>1. armed' = ResetTimerfd(t.expiration)
    BY <1>6 DEF AddTimerInLoop
  <2>2. t.expiration <= e[1]
    <3>1. CASE e \in timers
      BY <1>4, <1>5, <1>6, <3>1
    <3>2. CASE e = <<t.expiration, a>>
      BY <3>2
    <3> QED
      BY <1>2, <3>1, <3>2
  <2> QED
    BY <1>1, <1>4, <2>1, <2>2, ResetFacts
<1>7. CASE ~(timers = {} \/ t.expiration < Earliest(timers)[1])
  <2>1. armed' = armed
    BY <1>7 DEF AddTimerInLoop
  <2>2. CASE e \in timers
    BY <1>1, <1>3, <2>1, <2>2
  <2>3. CASE e = <<t.expiration, a>>
    <3> DEFINE f == Earliest(timers)
    <3>1. f[1] \in Nat /\ f[1] <= e[1] /\ armed # 0 /\ armed <= ResetTimerfd(f[1])
      BY <1>3, <1>5, <1>7, <2>3
    <3> HIDE DEF f
    <3>2. ResetTimerfd(f[1]) <= ResetTimerfd(e[1])
      BY <1>4, <3>1, ResetFacts
    <3>3. armed \in Nat /\ ResetTimerfd(f[1]) \in Nat /\ ResetTimerfd(e[1]) \in Nat
      BY <1>4, <3>1, ResetFacts DEF TypeOK
    <3> QED
      BY <1>1, <2>1, <3>1, <3>2, <3>3
  <2> QED
    BY <1>2, <2>2, <2>3
<1> QED
  BY <1>6, <1>7

(* Every step leaves the timerfd in time for all timers, once callbacks are     *)
(* over (TimerQueue.cc 62-68, 131-149).                                         *)
LEMMA ArmedNext == Structure /\ ArmedForAll /\ [Next]_vars => ArmedForAll'
<1> SUFFICES ASSUME Structure, ArmedForAll, [Next]_vars PROVE ArmedForAll'
  OBVIOUS
<1> USE DEF Structure
<1>0. Structure'
  BY StructureNext
<1>1. ASSUME NEW a \in Addr, NEW r \in Requests, AddTimer(a, r) PROVE ArmedForAll'
  <2>1. NewTimer(a, r) /\ AddTimerInLoop(a, heap'[a]) /\ UNCHANGED <<clock, calling, ready>>
    BY <1>1 DEF AddTimer
  <2>2. heap'[a].expiration \in Nat
    BY <1>0, HeapFacts DEF Structure, TypeOK, Timer, Free, Time
  <2> QED
    BY <2>1, <2>2, ArmedAdd
<1>2. ASSUME timers' \subseteq timers, UNCHANGED <<clock, calling, ready, armed>> PROVE ArmedForAll'
  BY <1>2 DEF ArmedForAll, ResetTimerfd
<1>3. ASSUME NEW a \in Addr, NEW r \in Requests, AddTimerElsewhere(a, r) PROVE ArmedForAll'
  BY <1>2, <1>3 DEF AddTimerElsewhere
<1>4. ASSUME NEW id \in ids, Cancel(id) PROVE ArmedForAll'
  <2>1. timers' \subseteq timers
    BY <1>4, CancelFacts DEF Cancel
  <2> QED
    BY <1>2, <1>4, <2>1 DEF Cancel
<1>5. ASSUME NEW id \in ids, CancelElsewhere(id) PROVE ArmedForAll'
  BY <1>2, <1>5 DEF CancelElsewhere
<1>6. CASE RunAdd
  <2> DEFINE a == Head(tasks).id.timer
  <2>1. a \in Addr
    BY <1>6, StructureRunAdd
  <2>2. heap[a].expiration \in Nat
    BY <2>1, HeapFacts
  <2>3. AddTimerInLoop(a, heap[a]) /\ UNCHANGED <<clock, calling, ready>>
    BY <1>6 DEF RunAdd
  <2> QED
    BY <2>1, <2>2, <2>3, ArmedAdd
<1>7. CASE RunCancel
  <2>1. Head(tasks).id \in ids /\ CancelInLoop(Head(tasks).id)
    BY <1>7, StructureRunCancel DEF RunCancel
  <2>2. timers' \subseteq timers
    BY <2>1, CancelFacts
  <2> QED
    BY <1>2, <1>7, <2>2 DEF RunCancel
<1>8. CASE Tick
  <2> SUFFICES ASSUME ~calling, ~ready, NEW e \in timers
               PROVE  armed # 0 /\ armed <= ResetTimerfd(e[1])'
    BY <1>8 DEF ArmedForAll, Tick
  <2>1. clock \in Nat /\ clock' = clock + 1 /\ e[1] \in Nat /\ armed \in Nat
    BY <1>8 DEF Tick, TypeOK, Time
  <2>2. armed # 0 /\ armed <= ResetTimerfd(e[1])
    BY DEF ArmedForAll
  <2> QED
    BY <2>1, <2>2 DEF ResetTimerfd
<1>9. CASE Poll
  BY <1>9 DEF Poll, ArmedForAll
<1>10. CASE HandleRead
  BY <1>10 DEF HandleRead, ArmedForAll
<1>11. CASE RunTimer
  BY <1>2, <1>11 DEF RunTimer
<1>12. CASE Reset
  <2> SUFFICES ASSUME NEW e \in timers' PROVE armed' # 0 /\ armed' <= ResetTimerfd(e[1])'
    BY DEF ArmedForAll
  <2>1. timers' # {} /\ timers' \subseteq Time \X Addr
    BY <1>0 DEF Structure, TypeOK
  <2>2. armed' = ResetTimerfd(Earliest(timers')[1]) /\ clock' = clock
    BY <1>12, <2>1 DEF Reset, Rearm
  <2>3. /\ Earliest(timers') \in timers' /\ Earliest(timers')[1] <= e[1]
        /\ Earliest(timers')[1] \in Nat /\ e[1] \in Nat
    BY <2>1, EarliestFacts DEF Time
  <2>4. ResetTimerfd(e[1])' = ResetTimerfd(e[1])
    BY <2>2 DEF ResetTimerfd
  <2> QED
    BY <2>2, <2>3, <2>4, ResetFacts
<1>13. CASE UNCHANGED vars
  BY <1>2, <1>13 DEF vars
<1> QED
  BY <1>1, <1>3, <1>4, <1>5, <1>6, <1>7, <1>8, <1>9, <1>10, <1>11, <1>12, <1>13, RunTaskKinds
  DEF Next

----------------------------------------------------------------------------
(* Cancelling the first timer *)

(* After cancelInLoop() the first timer, if its cancellation counts, is deleted *)
(* or is being called and on reset()'s list.                                    *)
LEMMA FirstCancel ==
    ASSUME Structure, FirstDropped, NEW id \in ids, CancelInLoop(id),
           UNCHANGED <<created, calling, expired>>
    PROVE  FirstDropped'
<1> USE DEF Structure
<1>1. /\ id.timer \in Addr /\ id.of \in Nat /\ id.of < created /\ created \in 0..MaxTimers
      /\ MaxTimers \in Nat
  BY BoundsAssumption DEF TypeOK, TimerId, Sequence, Ids
<1>2. created > 0 /\ MaxTimers > 0
  BY <1>1
<1>3. Running' = Running
  BY DEF Running
<1>4. ASSUME 0 \in cancelled', NEW b \in Addr, heap'[b].sequence = 0
      PROVE  b \in Running /\ <<b, 0>> \in cancelingTimers'
  <2>1. heap'[b] = heap[b] /\ heap[b] # Free
    <3>1. Free.sequence # 0
      BY <1>2 DEF Free
    <3>2. heap'[b] = heap[b] \/ heap'[b] = Free
      BY CancelFacts DEF TypeOK
    <3> QED
      BY <1>4, <3>1, <3>2
  <2>2. cancelingTimers \subseteq cancelingTimers'
    BY CancelFacts
  <2>3. CASE 0 \in cancelled
    BY <1>4, <2>1, <2>2, <2>3 DEF FirstDropped
  <2>4. CASE 0 \notin cancelled
    <3>1. id.of = 0 /\ 0 \notin Queued
      BY <1>4, <2>4 DEF CancelInLoop
    <3>2. b = id.timer
      BY <1>4, <2>1, <3>1 DEF Ids
    <3>3. b \notin Scheduled
      BY <1>1, <1>4, <2>1, <3>2, CancelFacts DEF TypeOK
    <3>4. b \notin Waiting
      <4> SUFFICES ASSUME NEW i \in Adds, b = tasks[i].id.timer PROVE FALSE
        BY DEF Waiting, Adds
      <4>1. tasks[i].id.of = 0
        BY <1>4, <2>1 DEF Functors
      <4> QED
        BY <3>1, <4>1 DEF Queued, Adds
    <3>5. b \in Running
      BY <2>1, <3>3, <3>4 DEF Owners
    <3>6. calling
      BY <3>5 DEF Expiring, Running
    <3> QED
      BY <3>2, <3>3, <3>5, <3>6, CancelFacts
  <2> QED
    BY <2>3, <2>4
<1> QED
  BY <1>2, <1>3, <1>4 DEF FirstDropped

(* Every step keeps the first timer dropped (TimerQueue.cc 37-53, 131-141). *)
LEMMA FirstNext == Structure /\ FirstDropped /\ [Next]_vars => FirstDropped'
<1> SUFFICES ASSUME Structure, FirstDropped, [Next]_vars PROVE FirstDropped'
  OBVIOUS
<1> USE DEF Structure
<1>0. created \in Nat /\ created <= MaxTimers /\ MaxTimers \in Nat
  BY BoundsAssumption DEF TypeOK
<1>1. ASSUME UNCHANGED <<heap, created, cancelled, cancelingTimers, expired>> PROVE FirstDropped'
  BY <1>1 DEF FirstDropped, Running
<1>2. ASSUME NEW a \in Addr, NEW r \in Requests, NewTimer(a, r),
             UNCHANGED <<cancelled, cancelingTimers, expired>>
      PROVE  FirstDropped'
  <2>1. heap'[a].sequence = created /\ \A b \in Addr \ {a} : heap'[b] = heap[b]
    <3>1. heap'[a] = [expiration |-> r.when, interval |-> r.interval, sequence |-> created]
      BY <1>2, NewTimerFacts, Zenon
    <3>2. \A b \in Addr \ {a} : heap'[b] = heap[b]
      BY <1>2, NewTimerFacts, Zenon
    <3> QED
      BY <3>1, <3>2
  <2>2. created' = created + 1
    BY <1>2 DEF NewTimer
  <2> QED
    BY <1>0, <1>2, <2>1, <2>2 DEF FirstDropped, Running
<1>3. ASSUME NEW a \in Addr, NEW r \in Requests, AddTimer(a, r) \/ AddTimerElsewhere(a, r)
      PROVE  FirstDropped'
  BY <1>2, <1>3 DEF AddTimer, AddTimerElsewhere
<1>4. ASSUME NEW id \in ids, Cancel(id) PROVE FirstDropped'
  BY <1>4, FirstCancel DEF Cancel
<1>5. ASSUME NEW id \in ids, CancelElsewhere(id) PROVE FirstDropped'
  BY <1>1, <1>5 DEF CancelElsewhere
<1>6. CASE RunAdd
  BY <1>1, <1>6 DEF RunAdd
<1>7. CASE RunCancel
  BY <1>7, StructureRunCancel, FirstCancel DEF RunCancel
<1>8. CASE HandleRead
  <2>1. Running = {}
    BY <1>8, StructureHandleRead
  <2> QED
    BY <1>8, <2>1 DEF HandleRead, FirstDropped
<1>9. CASE Reset
  <2>1. UNCHANGED <<created, cancelled, cancelingTimers>>
    BY <1>9 DEF Reset
  <2>2. ASSUME 0 \in cancelled, NEW a \in Addr, heap'[a].sequence = 0 PROVE FALSE
    <3>1. Free.sequence # 0
      BY <1>0, <2>2 DEF FirstDropped, Free
    <3>2. CASE a \notin Running
      BY <1>9, <2>2, <3>2, StructureReset DEF FirstDropped
    <3>3. CASE a \in Running
      <4>1. Repeats(a) /\ heap'[a] = [heap[a] EXCEPT !.expiration = now + heap[a].interval]
        BY <1>9, <2>2, <3>1, <3>3, StructureReset
      <4>2. heap[a] \in Timer
        BY <3>3, HeapFacts DEF Owners
      <4>3. heap[a].sequence = 0
        BY <2>2, <4>1, <4>2 DEF Timer
      <4> QED
        BY <2>2, <4>1, <4>3 DEF FirstDropped, Repeats, ActiveTimer
    <3> QED
      BY <3>2, <3>3
  <2> QED
    BY <2>1, <2>2 DEF FirstDropped
<1>10. CASE Tick \/ Poll \/ RunTimer
  BY <1>1, <1>10 DEF Tick, Poll, RunTimer
<1>11. CASE UNCHANGED vars
  BY <1>1, <1>11 DEF vars
<1> QED
  BY <1>3, <1>4, <1>5, <1>6, <1>7, <1>8, <1>9, <1>10, <1>11, RunTaskKinds DEF Next
----------------------------------------------------------------------------
(* The pace of the callbacks *)

(* The history of a live timer. *)
LEMMA HistoryFacts ==
    ASSUME TypeOK, NEW s \in Sequence
    PROVE  /\ s \in Nat /\ runs[s] \in Nat
           /\ asked[s].born \in Nat /\ asked[s].when \in Nat /\ asked[s].interval \in Nat
<1>1. asked[s] \in [born : Time, when : Time, interval : Time] /\ runs[s] \in Nat
  BY DEF TypeOK
<1> QED
  BY <1>1 DEF Time, Sequence

(* Products of a count and an interval. *)
LEMMA OneMore ==
    ASSUME NEW n \in Nat, NEW i \in Nat
    PROVE  n * i \in Nat /\ (n + 1) * i = n * i + i
OBVIOUS

(* A timer that keeps its object, its history and its place keeps its pace. *)
LEMMA PacedUnchanged ==
    ASSUME Paced, UNCHANGED <<runs, toRun, created, asked>>, Running' = Running,
           \A b \in Addr : heap'[b] = heap[b] \/ heap'[b] = Free
    PROVE  Paced'
<1>1. ASSUME NEW b \in Addr, heap'[b] # Free
      PROVE  Fits(heap'[b], asked'[heap'[b].sequence], Calls(b)')
  <2>1. heap'[b] = heap[b] /\ heap[b] # Free
    BY <1>1
  <2>2. Calls(b)' = Calls(b)
    BY <2>1 DEF Calls, Entry
  <2> QED
    BY <2>1, <2>2 DEF Paced
<1> QED
  BY <1>1 DEF Paced

(* A new timer has its own pace. *)
LEMMA PacedNew ==
    ASSUME Structure, Paced, NEW a \in Addr, NEW r \in Requests, NewTimer(a, r),
           UNCHANGED <<runs, toRun>>, Running' = Running
    PROVE  Paced'
<1> USE DEF Structure
<1>1. heap'[a] = [expiration |-> r.when, interval |-> r.interval, sequence |-> created]
  BY NewTimerFacts, Zenon
<1>2. /\ a \notin Running /\ created \in Sequence
      /\ \A b \in Addr \ {a} : heap'[b] = heap[b]
  BY NewTimerFacts, Zenon
<1>3. asked' = [asked EXCEPT ![created] =
                   [born |-> clock, when |-> r.when, interval |-> r.interval]]
  BY DEF NewTimer
<1>4. created' = created + 1 /\ created \in Nat /\ clock \in Nat
  BY DEF NewTimer, TypeOK
<1>5. /\ heap'[a].expiration = r.when /\ heap'[a].interval = r.interval
      /\ heap'[a].sequence = created
  BY <1>1
<1>6. asked'[created] = [born |-> clock, when |-> r.when, interval |-> r.interval]
  BY <1>2, <1>3 DEF TypeOK
<1>7. Fits(heap'[a], asked'[heap'[a].sequence], Calls(a)')
  <2>1. runs[created] = 0
    BY <1>2, <1>4 DEF Paced
  <2>2. Calls(a)' = 1
    BY <1>2, <1>5, <2>1 DEF Calls
  <2>3. /\ r.when \in Nat /\ r.interval \in Nat
        /\ r.interval > 0 => r.when = clock + r.interval
    BY RequestFacts
  <2>4. 1 * r.interval = r.interval
    BY <2>3
  <2> QED
    BY <1>4, <1>5, <1>6, <2>2, <2>3, <2>4 DEF Fits
<1>8. ASSUME NEW b \in Addr \ {a}, heap'[b] # Free
      PROVE  Fits(heap'[b], asked'[heap'[b].sequence], Calls(b)')
  <2>1. heap'[b] = heap[b] /\ heap[b] # Free
    BY <1>2, <1>8
  <2>2. Calls(b)' = Calls(b)
    BY <2>1 DEF Calls, Entry
  <2>3. heap[b].sequence \in Sequence /\ heap[b].sequence < created
    BY <2>1, HeapFacts DEF Numbers
  <2>4. asked'[heap[b].sequence] = asked[heap[b].sequence]
    <3>1. heap[b].sequence # created
      BY <1>4, <2>3 DEF Sequence
    <3> QED
      BY <1>3, <2>3, <3>1 DEF TypeOK
  <2> QED
    BY <2>1, <2>2, <2>4 DEF Paced
<1>9. \A s \in Sequence : s >= created' => runs[s] = 0
  BY <1>4 DEF Paced, Sequence
<1> QED
  BY <1>7, <1>8, <1>9 DEF Paced

(* Timer::run() makes the call that was to come. *)
LEMMA PacedRun ==
    ASSUME Structure, Paced, RunTimer
    PROVE  Paced'
<1> USE DEF Structure
<1>1. PICK e \in toRun :
          /\ e \in expired /\ e[2] \in Addr /\ e = <<heap[e[2]].expiration, e[2]>>
          /\ heap[e[2]] # Free /\ heap[e[2]].sequence \in Sequence /\ e[2] \in Running
          /\ toRun' = toRun \ {e}
          /\ runs' = [runs EXCEPT ![heap[e[2]].sequence] = @ + 1]
  BY RunTimerFacts
<1> DEFINE a == e[2]
<1>2. UNCHANGED <<heap, created, expired, asked>> /\ Running' = Running
  BY DEF RunTimer, Running
<1>3. /\ runs'[heap[a].sequence] = runs[heap[a].sequence] + 1
      /\ \A s \in Sequence : s # heap[a].sequence => runs'[s] = runs[s]
  BY <1>1 DEF TypeOK
<1>4. Calls(a)' = Calls(a)
  <2>1. Entry(a) = e /\ Entry(a)' = e
    BY <1>1, <1>2 DEF Entry
  <2>2. runs[heap[a].sequence] \in Nat
    BY <1>1, HistoryFacts
  <2>3. Calls(a) = runs[heap[a].sequence] + 1
    BY <2>1, <1>1 DEF Calls
  <2>4. Calls(a)' = runs'[heap[a].sequence] + 0
    BY <1>1, <1>2, <2>1 DEF Calls
  <2> QED
    BY <1>3, <2>2, <2>3, <2>4
<1>5. ASSUME NEW b \in Addr \ {a}, heap[b] # Free PROVE Calls(b)' = Calls(b)
  <2>1. heap[b].sequence # heap[a].sequence /\ heap[b].sequence \in Sequence
    BY <1>1, <1>5, HeapFacts DEF Numbers
  <2>2. Entry(b) # e /\ Entry(b)' = Entry(b)
    <3>1. Entry(b)[2] = b
      BY DEF Entry
    <3> QED
      BY <1>2, <3>1 DEF Entry
  <2> QED
    BY <1>1, <1>2, <1>3, <2>1, <2>2 DEF Calls
<1>6. \A s \in Sequence : s >= created' => runs'[s] = 0
  <2>1. heap[a].sequence < created /\ created \in Nat /\ heap[a].sequence \in Nat
    BY <1>1, HeapFacts DEF Numbers, TypeOK
  <2> QED
    BY <1>2, <1>3, <2>1 DEF Paced, Sequence
<1>7. \A b \in Addr : heap[b] # Free => Calls(b)' = Calls(b)
  BY <1>4, <1>5
<1> QED
  BY <1>2, <1>6, <1>7 DEF Paced

(* handleRead() only collects: the calls of what it collects are to come. *)
LEMMA PacedHandleRead ==
    ASSUME Structure, Paced, HandleRead
    PROVE  Paced'
<1> USE DEF Structure
<1>1. Structure' /\ Running = {} /\ toRun' = expired'
  BY StructureHandleRead
<1>2. UNCHANGED <<heap, created, asked, runs>>
  BY DEF HandleRead
<1>3. ASSUME NEW b \in Addr, b \in Running' PROVE Entry(b)' \in toRun'
  <2>1. Running' = {e[2] : e \in expired'} /\ expired' \subseteq Time \X Addr
    BY <1>1 DEF Running, Structure, TypeOK
  <2>2. PICK e \in expired' : b = e[2]
    BY <1>3, <2>1
  <2>3. e = <<e[1], e[2]>> /\ e[1] = heap'[e[2]].expiration
    BY <1>1, <2>1, <2>2 DEF Structure, Entries
  <2> QED
    BY <1>1, <2>2, <2>3 DEF Entry
<1>4. \A b \in Addr : Calls(b)' = Calls(b)
  BY <1>1, <1>2, <1>3 DEF Calls
<1> QED
  BY <1>2, <1>4 DEF Paced

(* reset() puts a repeating timer back for the call after the last one, at      *)
(* least one interval later.                                                    *)
LEMMA PacedReset ==
    ASSUME Structure, Paced, Reset
    PROVE  Paced'
<1> USE DEF Structure
<1>1. /\ UNCHANGED <<created, asked, runs, toRun, now>> /\ toRun = {}
  BY DEF Reset
<1>2. /\ Running' = {}
      /\ \A a \in Addr : heap'[a] =
            IF a \in Running
            THEN IF Repeats(a) THEN [heap[a] EXCEPT !.expiration = now + heap[a].interval]
                 ELSE Free
            ELSE heap[a]
  BY StructureReset
<1>3. ASSUME NEW a \in Addr, heap'[a] # Free
      PROVE  Fits(heap'[a], asked[heap'[a].sequence], Calls(a)')
  <2>1. CASE a \notin Running
    <3>1. heap'[a] = heap[a]
      BY <1>2, <2>1
    <3>2. Calls(a)' = Calls(a)
      BY <1>1, <1>2, <2>1, <3>1 DEF Calls
    <3> QED
      BY <1>3, <3>1, <3>2 DEF Paced
  <2>2. CASE a \in Running
    <3> DEFINE t == heap[a]
               r == asked[t.sequence]
               n == runs[t.sequence]
    <3>1. Repeats(a) /\ heap'[a] = [t EXCEPT !.expiration = now + t.interval]
      BY <1>2, <1>3, <2>2
    <3>2. t # Free /\ t \in Timer /\ t.sequence \in Sequence
      BY <2>2, HeapFacts DEF Owners
    <3>3. t.expiration <= now
      <4>1. <<t.expiration, a>> \in expired
        BY <2>2, OwnerFacts
      <4> QED
        BY <4>1 DEF Expiring
    <3>4. /\ heap'[a].expiration = now + t.interval /\ heap'[a].interval = t.interval
          /\ heap'[a].sequence = t.sequence
      BY <3>1, <3>2 DEF Timer
    <3>5. n \in Nat /\ r.born \in Nat /\ r.when \in Nat /\ r.interval \in Nat
      BY <3>2, HistoryFacts
    <3>6. t.expiration \in Nat /\ t.interval \in Nat /\ now \in Nat
      BY HeapFacts DEF TypeOK
    <3>7. Calls(a) = n /\ Calls(a)' = n + 1
      BY <1>1, <1>2, <2>2, <3>4, <3>5 DEF Calls
    <3>8. Fits(t, r, n) /\ t.interval > 0
      BY <3>1, <3>2, <3>7 DEF Paced, Repeats
    <3>9. (n + 1) * r.interval = n * r.interval + r.interval /\ n * r.interval \in Nat
      BY <3>5, OneMore
    <3> HIDE DEF t, r, n
    <3>10. Fits(heap'[a], r, n + 1)
      BY <3>3, <3>4, <3>5, <3>6, <3>8, <3>9 DEF Fits
    <3> QED
      BY <3>4, <3>7, <3>10 DEF r
  <2> QED
    BY <2>1, <2>2
<1> QED
  BY <1>1, <1>3 DEF Paced

(* Every step keeps the pace. *)
LEMMA PacedNext == Structure /\ Paced /\ [Next]_vars => Paced'
<1> SUFFICES ASSUME Structure, Paced, [Next]_vars PROVE Paced'
  OBVIOUS
<1>1. ASSUME NEW a \in Addr, NEW r \in Requests, AddTimer(a, r) \/ AddTimerElsewhere(a, r)
      PROVE  Paced'
  <2>1. NewTimer(a, r) /\ UNCHANGED <<runs, toRun>> /\ Running' = Running
    BY <1>1 DEF AddTimer, AddTimerElsewhere, Running
  <2> QED
    BY <2>1, PacedNew
<1>2. ASSUME NEW id \in ids, CancelInLoop(id), UNCHANGED <<runs, toRun, created, asked, expired>>
      PROVE  Paced'
  <2>1. \A b \in Addr : heap'[b] = heap[b] \/ heap'[b] = Free
    BY <1>2, CancelFacts DEF Structure, TypeOK
  <2> QED
    BY <1>2, <2>1, PacedUnchanged DEF Running
<1>3. ASSUME NEW id \in ids, Cancel(id) PROVE Paced'
  BY <1>2, <1>3 DEF Cancel
<1>4. CASE RunCancel
  BY <1>2, <1>4, StructureRunCancel DEF RunCancel
<1>5. ASSUME UNCHANGED <<heap, created, expired, toRun, runs, asked>> PROVE Paced'
  BY <1>5, PacedUnchanged DEF Running
<1>6. ASSUME NEW id \in ids, CancelElsewhere(id) PROVE Paced'
  BY <1>5, <1>6 DEF CancelElsewhere
<1>7. CASE RunAdd
  BY <1>5, <1>7 DEF RunAdd
<1>8. CASE Tick \/ Poll
  BY <1>5, <1>8 DEF Tick, Poll
<1>9. CASE UNCHANGED vars
  BY <1>5, <1>9 DEF vars
<1>10. CASE HandleRead
  BY <1>10, PacedHandleRead
<1>11. CASE RunTimer
  BY <1>11, PacedRun
<1>12. CASE Reset
  BY <1>12, PacedReset
<1> QED
  BY <1>1, <1>3, <1>4, <1>6, <1>7, <1>8, <1>9, <1>10, <1>11, <1>12, RunTaskKinds DEF Next

(* Every step makes calls only when they are due (TimerQueue.cc 111-141). *)
LEMMA NeverEarlyNext == Structure /\ Paced /\ NeverEarly /\ [Next]_vars => NeverEarly'
<1> SUFFICES ASSUME Structure, Paced, NeverEarly, [Next]_vars PROVE NeverEarly'
  OBVIOUS
<1> USE DEF Structure
<1>0. clock \in Nat
  BY DEF TypeOK
<1>1. ASSUME UNCHANGED <<runs, asked>>, clock' \in Nat, clock <= clock' PROVE NeverEarly'
  <2> SUFFICES ASSUME NEW s \in Sequence, runs[s] > 0
               PROVE  /\ clock' >= asked[s].when
                      /\ IF asked[s].interval = 0 THEN runs[s] = 1
                         ELSE asked[s].born + runs[s] * asked[s].interval <= clock'
    BY <1>1 DEF NeverEarly
  <2>1. /\ runs[s] \in Nat /\ asked[s].born \in Nat /\ asked[s].when \in Nat
        /\ asked[s].interval \in Nat
    BY HistoryFacts
  <2>2. runs[s] * asked[s].interval \in Nat
    BY <2>1, OneMore
  <2>3. /\ clock >= asked[s].when
        /\ IF asked[s].interval = 0 THEN runs[s] = 1
           ELSE asked[s].born + runs[s] * asked[s].interval <= clock
    BY DEF NeverEarly
  <2> QED
    BY <1>0, <1>1, <2>1, <2>2, <2>3
<1>2. ASSUME UNCHANGED <<runs, asked, clock>> PROVE NeverEarly'
  BY <1>0, <1>1, <1>2
<1>3. ASSUME NEW a \in Addr, NEW r \in Requests, AddTimer(a, r) \/ AddTimerElsewhere(a, r)
      PROVE  NeverEarly'
  <2>1. NewTimer(a, r) /\ UNCHANGED <<runs, clock>>
    BY <1>3 DEF AddTimer, AddTimerElsewhere
  <2>2. runs[created] = 0
    <3>1. created \in Sequence
      BY <2>1, NewTimerFacts, Zenon
    <3> QED
      BY <3>1 DEF Paced, Sequence
  <2>3. \A s \in Sequence : s # created => asked'[s] = asked[s]
    BY <2>1 DEF NewTimer, TypeOK
  <2> QED
    BY <2>1, <2>2, <2>3 DEF NeverEarly
<1>4. CASE RunTimer
  <2>1. PICK e \in toRun :
          /\ e \in expired /\ e[2] \in Addr /\ e = <<heap[e[2]].expiration, e[2]>>
          /\ heap[e[2]] # Free /\ heap[e[2]].sequence \in Sequence /\ e[2] \in Running
          /\ toRun' = toRun \ {e}
          /\ runs' = [runs EXCEPT ![heap[e[2]].sequence] = @ + 1]
    BY <1>4, RunTimerFacts
  <2> DEFINE t == heap[e[2]]
             r == asked[t.sequence]
             n == runs[t.sequence] + 1
  <2>2. UNCHANGED <<asked, clock>>
    BY <1>4 DEF RunTimer
  <2>3. /\ runs'[t.sequence] = n
        /\ \A s \in Sequence : s # t.sequence => runs'[s] = runs[s]
    BY <2>1 DEF TypeOK
  <2>4. t.expiration \in Nat /\ t.expiration <= clock
    <3>1. e[1] <= now /\ now <= clock /\ now \in Nat
      BY <2>1 DEF Expiring, TypeOK
    <3>2. e[1] = t.expiration
      BY <2>1
    <3>3. t.expiration \in Nat
      BY <2>1, HeapFacts
    <3> QED
      BY <1>0, <3>1, <3>2, <3>3
  <2>5. Calls(e[2]) = n
    BY <2>1 DEF Calls, Entry
  <2>6. Fits(t, r, n)
    BY <2>1, <2>5 DEF Paced
  <2>7. n \in Nat /\ r.born \in Nat /\ r.when \in Nat /\ r.interval \in Nat
    BY <2>1, HistoryFacts
  <2>8. n * r.interval \in Nat
    BY <2>7, OneMore
  <2> HIDE DEF t, r, n
  <2>9. /\ clock >= r.when
        /\ IF r.interval = 0 THEN n = 1 ELSE r.born + n * r.interval <= clock
    BY <1>0, <2>4, <2>6, <2>7, <2>8 DEF Fits
  <2>10. ASSUME NEW s \in Sequence, runs'[s] > 0
         PROVE  /\ clock >= asked[s].when
                /\ IF asked[s].interval = 0 THEN runs'[s] = 1
                   ELSE asked[s].born + runs'[s] * asked[s].interval <= clock
    <3>1. CASE s = t.sequence
      <4>1. asked[s] = r /\ runs'[s] = n
        BY <2>3, <3>1 DEF r
      <4> QED
        BY <2>9, <4>1
    <3>2. CASE s # t.sequence
      BY <2>3, <2>10, <3>2 DEF NeverEarly
    <3> QED
      BY <3>1, <3>2
  <2> QED
    BY <2>2, <2>10 DEF NeverEarly
<1>5. CASE Tick
  BY <1>0, <1>1, <1>5 DEF Tick
<1>6. ASSUME NEW id \in ids, Cancel(id) \/ CancelElsewhere(id) PROVE NeverEarly'
  BY <1>2, <1>6 DEF Cancel, CancelElsewhere
<1>7. CASE RunTask \/ Poll \/ HandleRead \/ Reset
  BY <1>2, <1>7 DEF RunTask, Poll, HandleRead, Reset
<1>8. CASE UNCHANGED vars
  BY <1>2, <1>8 DEF vars
<1> QED
  BY <1>3, <1>4, <1>5, <1>6, <1>7, <1>8 DEF Next

----------------------------------------------------------------------------
(* The invariant, and what it says *)

(* A loop with no timers satisfies the invariant. *)
LEMMA InvInit == Init => IInv
<1> SUFFICES ASSUME Init PROVE IInv
  OBVIOUS
<1>1. Structure
  BY StructureInit
<1>2. /\ timers = {} /\ cancelled = {} /\ runs = [s \in Sequence |-> 0]
      /\ heap = [a \in Addr |-> Free]
  BY DEF Init
<1>3. ArmedForAll /\ FirstDropped
  BY <1>2 DEF ArmedForAll, FirstDropped
<1>4. Paced
  BY <1>2 DEF Paced
<1>5. NeverEarly
  BY <1>2 DEF NeverEarly
<1> QED
  BY <1>1, <1>3, <1>4, <1>5 DEF IInv

(* Every behaviour of the timer queue keeps the invariant. *)
THEOREM InvHolds == Spec => []IInv
<1>1. IInv /\ [Next]_vars => IInv'
  BY StructureNext, ArmedNext, PacedNext, NeverEarlyNext, FirstNext DEF IInv
<1> QED
  BY InvInit, <1>1, PTL DEF Spec

(* Every variable has its type, whatever is added, cancelled and called. *)
THEOREM TypeCorrect == Spec => []TypeOK
<1>1. IInv => TypeOK
  BY DEF IInv, Structure
<1> QED
  BY <1>1, InvHolds, PTL

(* The two sets describe the same live timers, so the assertions of             *)
(* TimerQueue.cc 40, 46, 82 and 88 hold and nothing they reach was deleted.     *)
THEOREM SetsAlwaysAgree == Spec => []SetsAgree
<1>1. ASSUME IInv PROVE SetsAgree
  <2> USE <1>1 DEF IInv, Structure
  <2>1. \A e \in timers : e[2] \in Scheduled /\ e = Entry(e[2])
    BY DEF Scheduled, Entry, Entries, TypeOK
  <2>2. \A a \in Scheduled : Entry(a) \in timers
    BY OwnerFacts DEF Entry
  <2>3. timers = {Entry(a) : a \in Scheduled}
    BY <2>1, <2>2
  <2>4. Scheduled \cup Running \cup Waiting \subseteq Addr
    <3>1. Scheduled \subseteq Addr /\ Running \subseteq Addr
      BY OwnerFacts
    <3>2. Waiting \subseteq Addr
      BY WaitingFacts
    <3> QED
      BY <3>1, <3>2
  <2>5. \A a \in Scheduled \cup Running \cup Waiting : heap[a] # Free
    BY <2>4 DEF Owners
  <2> QED
    BY <2>3, <2>5 DEF SetsAgree, Actives
<1> QED
  BY <1>1, InvHolds, PTL

(* An entry of timers_ and its timer are one and the same: timers_ has as many  *)
(* entries as timers.                                                           *)
LEMMA EntriesCount ==
    ASSUME Structure
    PROVE  Cardinality(timers) = Cardinality(Scheduled)
<1> USE DEF Structure
<1>1. \A e \in timers : e = <<heap[e[2]].expiration, e[2]>> /\ e[2] \in Addr /\ e[2] \in Scheduled
  BY DEF Entries, TypeOK, Scheduled
<1>2. \A e \in timers : heap[e[2]] # Free
  BY <1>1 DEF Owners
<1> DEFINE number == [e \in timers |-> heap[e[2]].sequence]
           address == [e \in timers |-> e[2]]
<1>3. IsFiniteSet(timers)
  <2>1. number \in [timers -> Sequence]
    BY <1>1, <1>2, HeapFacts
  <2>2. ASSUME NEW e \in timers, NEW f \in timers, number[e] = number[f] PROVE e = f
    BY <1>1, <1>2, <2>2 DEF Numbers
  <2>3. number \in Injection(timers, Sequence)
    BY <2>1, <2>2 DEF Injection, IsInjective
  <2>4. IsFiniteSet(Sequence)
    BY FS_Interval, BoundsAssumption DEF Sequence
  <2> QED
    BY <2>3, <2>4, FS_Injection DEF ExistsInjection
<1>4. address \in Bijection(timers, Scheduled)
  <2>1. address \in [timers -> Scheduled]
    BY <1>1
  <2>2. ASSUME NEW e \in timers, NEW f \in timers, address[e] = address[f] PROVE e = f
    BY <1>1, <2>2
  <2>3. \A a \in Scheduled : \E e \in timers : address[e] = a
    BY DEF Scheduled
  <2>4. address \in Injection(timers, Scheduled)
    BY <2>1, <2>2 DEF Injection, IsInjective
  <2>5. address \in Surjection(timers, Scheduled)
    BY <2>1, <2>3 DEF Surjection
  <2> QED
    BY <2>4, <2>5 DEF Bijection
<1>5. ExistsBijection(timers, Scheduled)
  BY <1>4 DEF ExistsBijection
<1> QED
  BY <1>3, <1>5, FS_Bijection

(* Each Timer object has one place that will delete it: nothing leaks and       *)
(* nothing is deleted twice, whichever thread adds and cancels.                 *)
THEOREM OneOwnerAlways == Spec => []OneOwner
<1>1. ASSUME IInv PROVE OneOwner
  <2> USE <1>1 DEF IInv, Structure
  <2>1. Waiting \cup Scheduled \cup Running \subseteq Addr
    <3>1. Scheduled \subseteq Addr /\ Running \subseteq Addr
      BY OwnerFacts
    <3>2. Waiting \subseteq Addr
      BY WaitingFacts
    <3> QED
      BY <3>1, <3>2
  <2>2. {a \in Addr : heap[a] # Free} = Waiting \cup Scheduled \cup Running
    BY <2>1 DEF Owners
  <2> QED
    BY <2>2, EntriesCount DEF OneOwner, Owners
<1> QED
  BY <1>1, InvHolds, PTL

(* The timerfd never sleeps past the earliest timer. *)
THEOREM AlwaysArmedInTime == Spec => []ArmedInTime
<1>1. ASSUME IInv PROVE ArmedInTime
  <2> SUFFICES ASSUME timers # {}, ~calling
               PROVE  ready \/ (armed # 0 /\ armed <= ResetTimerfd(Earliest(timers)[1]))
    BY DEF ArmedInTime
  <2>1. Earliest(timers) \in timers
    BY <1>1, EarliestFacts DEF IInv, Structure, TypeOK
  <2> QED
    BY <1>1, <2>1 DEF IInv, ArmedForAll
<1> QED
  BY <1>1, InvHolds, PTL

(* No callback is called before its time or more often than was asked for. *)
THEOREM CallsNeverEarly == Spec => []NeverEarly
<1>1. IInv => NeverEarly
  BY DEF IInv
<1> QED
  BY <1>1, InvHolds, PTL

(* cancel() gets rid of the first Timer wherever it is when it is cancelled. *)
THEOREM FirstTimerGoes == Spec => []FirstTimerCancelled
<1>1. ASSUME IInv PROVE FirstTimerCancelled
  <2> SUFFICES ASSUME ~calling, 0 \in cancelled, NEW a \in Addr, heap[a].sequence = 0
               PROVE  FALSE
    BY DEF FirstTimerCancelled, Gone
  <2>1. a \in Running
    BY <1>1 DEF IInv, FirstDropped
  <2>2. expired = {}
    BY <1>1 DEF IInv, Structure, Expiring
  <2> QED
    BY <2>1, <2>2 DEF Running
<1> QED
  BY <1>1, InvHolds, PTL
=============================================================================
