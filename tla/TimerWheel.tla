----------------------------- MODULE TimerWheel -----------------------------
(***************************************************************************)
(* src/src/datetime/TimerWheel: a hierarchical timer wheel behind one      *)
(* timerfd.  Level 1 has Size buckets of Tick each; every level above it   *)
(* has Size buckets of the whole range of the one below and is made when   *)
(* the first timer needs it.  Everything runs in the loop thread.          *)
(*                                                                         *)
(* cancel() is called only for timers that are waiting in a bucket: for    *)
(* any other it follows an iterator that is null or no longer valid.       *)
(* Callbacks do not call back into the wheel.                              *)
(***************************************************************************)
EXTENDS Integers, Sequences, SequencesExt, FiniteSetsExt

CONSTANTS Tick, Size,  \* the constructor's tick and wheelSize
          Start,       \* the times at which the wheel may be made
          MaxClock,    \* bound: the latest time
          MaxLevel,    \* bound: levels that times up to MaxClock can need
          Timers,      \* bound: the Timer objects
          Delays,      \* delays given to addTimer
          Intervals    \* intervals given to addTimer; 0: not repeated

Buckets == (1 .. MaxLevel) \X (0 .. Size - 1)
NoBucket == <<0, 0>>

VARIABLES clock,   \* TimeStamp::now()
          wheels,  \* per level: currentTime_ and the buckets
          queue,   \* delayQueue_, with delayHashTable_ as its set of members
          pos,     \* timerHashTable_: the bucket a timer is in
          armed,   \* when the timerfd becomes readable, 0 when disarmed
          addr,    \* the order of the buckets' addresses
          timer,   \* the Timer objects: expiration and interval, or Free
          ran      \* history: the callbacks called by the last handler

vars == <<clock, wheels, queue, pos, armed, addr, timer, ran>>

Free == [expiration |-> 0, interval |-> 0]
TickOf(level) == Tick * Size ^ (level - 1)
Wheel(start) ==
  [cur |-> start, buckets |-> [i \in 0 .. Size - 1 |-> [exp |-> 0, timers |-> <<>>]]]

Init ==
  /\ clock \in Start
  /\ wheels = <<Wheel(clock)>>
  /\ queue = <<>>
  /\ pos = [t \in Timers |-> NoBucket]
  /\ armed = 0
  /\ addr \in {f \in [Buckets -> 1 .. Cardinality(Buckets)] :
                 \A b, c \in Buckets : b # c => f[b] # f[c]}
  /\ timer = [t \in Timers |-> Free]
  /\ ran = {}

-----------------------------------------------------------------------------
(* TimerWheelImpl, on the state w = [wheels, queue, pos, armed] *)

State == [wheels |-> wheels, queue |-> queue, pos |-> pos, armed |-> armed]

ExpOf(w, b) == w.wheels[b[1]].buckets[b[2]].exp

ResetTimerfd(when) == IF when > clock THEN when ELSE clock + 1

\* updateDelayQueue: sort() on a list of pointers compares addresses.
UpdateDelayQueue(w, b) ==
  LET sorted  == SetToSortSeq(ToSet(w.queue) \cup {b}, LAMBDA x, y : addr[x] < addr[y])
      changed == w.queue = <<>> \/ ExpOf(w, Head(w.queue)) # ExpOf(w, Head(sorted))
  IN [w EXCEPT !.queue = sorted,
               !.armed = IF changed THEN ResetTimerfd(ExpOf(w, Head(sorted))) ELSE @]

\* A level that is missing is made with the current time of the one below.
Grown(w, exp) ==
  LET top   == Len(w.wheels)
      cur   == w.wheels[top].cur
      fits  == \E l \in 1 .. top : exp < w.wheels[l].cur + TickOf(l + 1)
      level == IF fits THEN top
               ELSE Min({l \in top .. MaxLevel : exp < cur + TickOf(l + 1)})
  IN [l \in 1 .. level |-> IF l <= top THEN w.wheels[l] ELSE Wheel(cur)]

\* insert() returns true: the timer is due in the current tick.
InsertExpired(w, exp) == exp < w.wheels[1].cur + Tick

\* The first level whose range reaches the timer takes it; its bucket is chosen
\* by the absolute time, the bucket's expiration counts from the current time.
Insert(w, t, exp) ==
  LET ws == Grown(w, exp)
      l  == Min({i \in DOMAIN ws : exp < ws[i].cur + TickOf(i + 1)})
      id == (exp \div TickOf(l)) % Size
      at == ws[l].cur + id * TickOf(l)
      w1 == [w EXCEPT !.wheels = [ws EXCEPT ![l].buckets[id] =
                                    [exp |-> at, timers |-> Append(@.timers, t)]],
                      !.pos[t] = <<l, id>>]
  IN IF InsertExpired(w, exp) THEN w
     ELSE IF exp < ws[l].cur + TickOf(l) THEN [w EXCEPT !.wheels = ws]
     ELSE IF ws[l].buckets[id].exp = at THEN w1
     ELSE UpdateDelayQueue(w1, <<l, id>>)

\* advanceClock: a level moves in whole ticks, and tells the one above.
AdvanceClock(w, now) ==
  LET cur[l \in 1 .. Len(w.wheels)] ==
        LET e == IF l = 1 THEN now ELSE cur[l - 1]
        IN IF /\ l = 1 \/ cur[l - 1] # w.wheels[l - 1].cur
              /\ e >= w.wheels[l].cur + TickOf(l)
             THEN e - (e % TickOf(l))
             ELSE w.wheels[l].cur
  IN [w EXCEPT !.wheels = [l \in DOMAIN @ |-> [@[l] EXCEPT !.cur = cur[l]]]]

\* getExpired: the timers of the leading buckets that are past, in order.
ExpiredBuckets(w, now) ==
  SubSeq(w.queue, 1, Max({n \in 0 .. Len(w.queue) :
                            \A i \in 1 .. n : ExpOf(w, w.queue[i]) < now}))

GetExpired(w, now) ==
  LET bs == ExpiredBuckets(w, now)
  IN FlattenSeq([i \in DOMAIN bs |-> w.wheels[bs[i][1]].buckets[bs[i][2]].timers])

WithoutExpired(w, now) ==
  LET bs == ToSet(ExpiredBuckets(w, now))
  IN [w EXCEPT
        !.queue = SelectSeq(@, LAMBDA b : b \notin bs),
        !.wheels = [l \in DOMAIN @ |-> [@[l] EXCEPT !.buckets =
           [i \in DOMAIN @ |-> IF <<l, i>> \in bs THEN [@[i] EXCEPT !.timers = <<>>]
                               ELSE @[i]]]]]

Becomes(w) ==
  /\ wheels' = w.wheels /\ queue' = w.queue
  /\ pos' = w.pos /\ armed' = w.armed

-----------------------------------------------------------------------------
(* TimerWheel *)

\* Timer::restart at the present time.
Restarted(t) == [timer[t] EXCEPT !.expiration = clock + @.interval]
Run(t) == [timer |-> t, when |-> timer[t].expiration, at |-> clock]

\* addTimer and addTimerInLoop: a timer due in this tick runs at once.
AddTimer(t, delay, interval) ==
  LET new == [expiration |-> clock + delay, interval |-> interval]
      again == [new EXCEPT !.expiration = clock + interval]
  IN
  /\ timer[t] = Free
  /\ IF InsertExpired(State, new.expiration)
       THEN /\ ran' = {[timer |-> t, when |-> new.expiration, at |-> clock]}
            /\ timer' = [timer EXCEPT ![t] = IF interval > 0 THEN again ELSE Free]
            /\ Becomes(IF interval > 0 THEN Insert(State, t, again.expiration) ELSE State)
       ELSE /\ ran' = {}
            /\ timer' = [timer EXCEPT ![t] = new]
            /\ Becomes(Insert(State, t, new.expiration))
  /\ UNCHANGED <<clock, addr>>

\* cancelInLoop
Cancel(t) ==
  LET b == pos[t] IN
  /\ b # NoBucket
  /\ t \in ToSet(wheels[b[1]].buckets[b[2]].timers)
  /\ wheels' = [wheels EXCEPT ![b[1]].buckets[b[2]].timers = SelectSeq(@, LAMBDA x : x # t)]
  /\ pos' = [pos EXCEPT ![t] = NoBucket]
  /\ timer' = [timer EXCEPT ![t] = Free]
  /\ ran' = {}
  /\ UNCHANGED <<clock, queue, armed, addr>>

\* handleRead: run, advance, insert the repeated ones again, arm the timerfd.
HandleRead ==
  LET expired  == GetExpired(State, clock)
      repeats  == SelectSeq(expired, LAMBDA t : timer[t].interval > 0)
      advanced == AdvanceClock(WithoutExpired(State, clock), clock)
      cleared  == [advanced EXCEPT !.armed = 0,
                     !.pos = [t \in Timers |-> IF t \in ToSet(expired) \ ToSet(repeats)
                                                 THEN NoBucket ELSE @[t]]]
      again(w, t) == Insert(w, t, clock + timer[t].interval)
      w1       == FoldLeft(again, cleared, repeats)
  IN
  /\ armed > 0 /\ armed <= clock
  /\ ran' = {Run(t) : t \in ToSet(expired)}
  /\ timer' = [t \in Timers |-> IF t \notin ToSet(expired) THEN timer[t]
                                ELSE IF timer[t].interval > 0 THEN Restarted(t) ELSE Free]
  /\ Becomes(IF w1.queue = <<>> THEN w1
             ELSE [w1 EXCEPT !.armed = ResetTimerfd(ExpOf(w1, Head(w1.queue)))])
  /\ UNCHANGED <<clock, addr>>

TimePasses ==
  /\ clock < MaxClock
  /\ clock' = clock + 1
  /\ ran' = {}
  /\ UNCHANGED <<wheels, queue, pos, armed, addr, timer>>

Next ==
  \/ \E t \in Timers, d \in Delays, i \in Intervals : AddTimer(t, d, i)
  \/ \E t \in Timers : Cancel(t)
  \/ HandleRead
  \/ TimePasses

Spec == Init /\ [][Next]_vars

-----------------------------------------------------------------------------
(* Properties *)

\* A callback runs at the time its timer was set for, to the precision of one
\* tick: never a whole tick or more before it (addTimer: run cb at when).
NotEarlierThanATick == \A r \in ran : r.at + Tick > r.when
=============================================================================
