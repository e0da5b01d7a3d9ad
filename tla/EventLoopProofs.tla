-------------------------- MODULE EventLoopProofs ---------------------------
(***************************************************************************)
(* Proofs about EventLoop, for any number of threads and calls and whether *)
(* or not poll times out.                                                  *)
(***************************************************************************)
EXTENDS EventLoop, SequenceTheorems, TLAPS

USE DEF Threads

(* A functor made by call number calls[t] + 1 of thread t is a Functor. *)
LEMMA NewFunctorType ==
    ASSUME NEW t \in Threads, NEW n \in Nat, n < MaxCalls[t], NEW e \in BOOLEAN
    PROVE  [from |-> t, n |-> n + 1, early |-> e] \in Functor
<1>1. n + 1 \in 1..MaxCalls[t]
  BY MaxCallsAssumption
<1>2. [from |-> t, n |-> n + 1, early |-> e]
        \in [from : {t}, n : 1..MaxCalls[t], early : BOOLEAN]
  BY <1>1
<1> QED
  BY <1>2 DEF Functor

(* Every functor has a thread and a number. *)
LEMMA FunctorFields ==
    ASSUME NEW f \in Functor
    PROVE  f.from \in Threads /\ f.n \in Nat /\ f.early \in BOOLEAN
<1>1. PICK t \in Threads : f \in [from : {t}, n : 1..MaxCalls[t], early : BOOLEAN]
  BY DEF Functor
<1> QED
  BY <1>1, MaxCallsAssumption

(* Init and every step keep the types (EventLoop.cc, whole file). *)
LEMMA TypeInit == Init => TypeOK
<1> SUFFICES ASSUME Init PROVE TypeOK
  OBVIOUS
<1>1. <<>> \in Seq(Functor)
  OBVIOUS
<1> QED
  BY <1>1 DEF Init, TypeOK, Phases, Channels

(* Every step keeps the types. *)
LEMMA TypeNext == TypeOK /\ [Next]_vars => TypeOK'
<1> SUFFICES ASSUME TypeOK, [Next]_vars PROVE TypeOK'
  OBVIOUS
<1> USE DEF TypeOK
<1>1. ASSUME NEW t \in Threads, QueueInLoop(t) PROVE TypeOK'
  <2> DEFINE f == [from |-> t, n |-> calls[t] + 1,
                   early |-> t = LoopThread /\ phase = "outside"]
  <2>1. f \in Functor
    BY <1>1, NewFunctorType DEF QueueInLoop, Calling
  <2>2. pending' = Append(pending, f) /\ queued' = Append(queued, f)
    BY <1>1 DEF QueueInLoop
  <2>3. pending' \in Seq(Functor) /\ queued' \in Seq(Functor)
    BY <2>1, <2>2, AppendProperties
  <2>4. calls' \in [Threads -> Nat] /\ op' \in [Threads -> {"none", "queue", "quit"}]
    BY <1>1 DEF QueueInLoop, Calling
  <2> QED
    BY <1>1, <2>3, <2>4 DEF QueueInLoop
<1>2. ASSUME NEW t \in Threads, Quit(t) PROVE TypeOK'
  <2>1. calls' \in [Threads -> Nat] /\ op' \in [Threads -> {"none", "queue", "quit"}]
    BY <1>2 DEF Quit, Calling
  <2> QED
    BY <1>2, <2>1 DEF Quit
<1>3. ASSUME NEW t \in Threads, Wakeup(t) PROVE TypeOK'
  BY <1>3 DEF Wakeup
<1>4. CASE EnterLoop
  <2>1. LoopThread \in Threads
    OBVIOUS
  <2>2. calls' \in [Threads -> Nat]
    BY <1>4, <2>1 DEF EnterLoop
  <2> QED
    BY <1>4, <2>2 DEF EnterLoop, LoopSteps, Phases
<1>5. CASE Iterate
  BY <1>5 DEF Iterate, LoopSteps, Phases
<1>6. CASE LeaveLoop
  BY <1>6 DEF LeaveLoop, LoopSteps, Phases
<1>7. CASE PollReady
  BY <1>7 DEF PollReady, LoopSteps, Phases
<1>8. CASE PollTimeout
  BY <1>8 DEF PollTimeout, LoopSteps, Phases
<1>9. CASE HandleWakeup
  BY <1>9 DEF HandleWakeup, LoopSteps, Phases
<1>10. CASE HandleIo
  BY <1>10 DEF HandleIo, LoopSteps, Phases
<1>11. CASE BeginPending
  BY <1>11 DEF BeginPending, LoopSteps, Phases
<1>12. CASE SwapFunctors
  BY <1>12 DEF SwapFunctors, LoopSteps, Phases
<1>13. CASE RunFunctor
  <2>1. Head(functors) \in Functor /\ Tail(functors) \in Seq(Functor)
    BY <1>13, HeadTailProperties DEF RunFunctor
  <2>2. ran' \in Seq(Functor)
    BY <1>13, <2>1, AppendProperties DEF RunFunctor
  <2> QED
    BY <1>13, <2>1, <2>2 DEF RunFunctor, LoopSteps, Phases
<1>14. CASE EndPending
  BY <1>14 DEF EndPending, LoopSteps, Phases
<1>15. CASE UNCHANGED vars
  BY <1>15 DEF vars
<1> QED
  BY <1>1, <1>2, <1>3, <1>4, <1>5, <1>6, <1>7, <1>8, <1>9, <1>10, <1>11, <1>12,
     <1>13, <1>14, <1>15 DEF Next

(* TypeOK is an invariant of every EventLoop. *)
THEOREM TypeCorrect == Spec => []TypeOK
<1>1. Init => TypeOK
  BY TypeInit
<1>2. TypeOK /\ [Next]_vars => TypeOK'
  BY TypeNext
<1> QED
  BY <1>1, <1>2, PTL DEF Spec

----------------------------------------------------------------------------
(* The inductive invariant. *)

(* The loop invariant holds initially. *)
LEMMA LoopInvInit == Init => LoopInv
<1> SUFFICES ASSUME Init PROVE LoopInv
  OBVIOUS
<1>1. TypeOK
  BY TypeInit
<1>2. RunOnceInOrder
  BY DEF Init, RunOnceInOrder
<1> QED
  BY <1>1, <1>2 DEF Init, LoopInv, FlagsFollowPhase, WakeupOwed, Attended, NoLostQuit,
                    NumberedByCall

(* The flags and the local vector of doPendingFunctors() follow the phase. *)
LEMMA FlagsNext == TypeOK /\ FlagsFollowPhase /\ [Next]_vars => FlagsFollowPhase'
<1> SUFFICES ASSUME TypeOK, FlagsFollowPhase, [Next]_vars PROVE FlagsFollowPhase'
  OBVIOUS
<1> USE DEF TypeOK, FlagsFollowPhase
<1>0. LoopThread \in Threads /\ op[LoopThread] \in {"none", "queue", "quit"}
  OBVIOUS
<1>1. ASSUME NEW t \in Threads, QueueInLoop(t) PROVE FlagsFollowPhase'
  BY <1>0, <1>1 DEF QueueInLoop, Calling, InUserCode
<1>2. ASSUME NEW t \in Threads, Quit(t) PROVE FlagsFollowPhase'
  BY <1>0, <1>2 DEF Quit, Calling
<1>3. ASSUME NEW t \in Threads, Wakeup(t) PROVE FlagsFollowPhase'
  BY <1>0, <1>3 DEF Wakeup
<1>4. CASE EnterLoop
  BY <1>0, <1>4 DEF EnterLoop, LoopSteps
<1>5. CASE Iterate
  BY <1>0, <1>5 DEF Iterate, LoopSteps
<1>6. CASE LeaveLoop
  BY <1>0, <1>6 DEF LeaveLoop, LoopSteps
<1>7. CASE PollReady
  BY <1>0, <1>7 DEF PollReady, LoopSteps
<1>8. CASE PollTimeout
  BY <1>0, <1>8 DEF PollTimeout, LoopSteps
<1>9. CASE HandleWakeup
  BY <1>0, <1>9 DEF HandleWakeup, LoopSteps
<1>10. CASE HandleIo
  BY <1>0, <1>10 DEF HandleIo, LoopSteps
<1>11. CASE BeginPending
  BY <1>0, <1>11 DEF BeginPending, LoopSteps
<1>12. CASE SwapFunctors
  BY <1>0, <1>12 DEF SwapFunctors, LoopSteps
<1>13. CASE RunFunctor
  BY <1>0, <1>13 DEF RunFunctor, LoopSteps
<1>14. CASE EndPending
  BY <1>0, <1>14 DEF EndPending, LoopSteps
<1>15. CASE UNCHANGED vars
  BY <1>15 DEF vars
<1> QED
  BY <1>1, <1>2, <1>3, <1>4, <1>5, <1>6, <1>7, <1>8, <1>9, <1>10, <1>11, <1>12,
     <1>13, <1>14, <1>15 DEF Next

(* The wakeup stays owed: a push is followed by its own write of the eventfd,  *)
(* and the eventfd is only cleared between a return of poll and the next swap. *)
LEMMA WakeupNext ==
    TypeOK /\ FlagsFollowPhase /\ WakeupOwed /\ [Next]_vars => WakeupOwed'
<1> SUFFICES ASSUME TypeOK, FlagsFollowPhase, WakeupOwed, [Next]_vars
             PROVE  WakeupOwed'
  OBVIOUS
<1> USE DEF TypeOK
<1>0. /\ LoopThread \in Threads
      /\ \A t \in Threads : op[t] \in {"none", "queue", "quit"}
  OBVIOUS
<1>1. ASSUME NEW t \in Threads, QueueInLoop(t) PROVE WakeupOwed'
  <2> DEFINE f == [from |-> t, n |-> calls[t] + 1,
                   early |-> t = LoopThread /\ phase = "outside"]
  <2>1. op'[t] = "queue" /\ UNCHANGED <<phase, doing, wakeupCount>>
    BY <1>1 DEF QueueInLoop, Calling
  <2>2. pending' = Append(pending, f)
    BY <1>1 DEF QueueInLoop
  <2>3. CASE t # LoopThread \/ doing
    BY <2>1, <2>3 DEF WakeupOwed, WillWake
  <2>4. CASE t = LoopThread /\ ~doing
    <3>1. phase \in {"outside", "events"}
      BY <1>1, <2>4 DEF QueueInLoop, Calling, InUserCode, FlagsFollowPhase
    <3>2. phase = "outside" => f.early
      BY <2>4
    <3>3. phase = "outside" /\ Attended(pending') => Attended(pending)
      <4> SUFFICES ASSUME phase = "outside",
                          NEW i \in DOMAIN pending', ~pending'[i].early
                   PROVE  i \in DOMAIN pending /\ ~pending[i].early
        BY DEF Attended
      <4>1. i \in 1..(Len(pending) + 1)
        BY <2>2
      <4>2. i # Len(pending) + 1
        <5> SUFFICES ASSUME i = Len(pending) + 1 PROVE FALSE
          OBVIOUS
        <5>1. pending'[i] = f
          BY <2>2
        <5> QED
          BY <5>1, <3>2
      <4> QED
        BY <2>2, <4>1, <4>2
    <3>4. \A u \in Threads : WillWake(u) => WillWake(u)'
      BY <1>1, <2>1, <2>4 DEF WillWake, QueueInLoop, Calling
    <3> QED
      BY <2>1, <3>1, <3>3, <3>4 DEF WakeupOwed, Attended
  <2> QED
    BY <2>3, <2>4
<1>2. ASSUME NEW t \in Threads, Quit(t) PROVE WakeupOwed'
  <2>1. \A u \in Threads : WillWake(u) => WillWake(u)'
    BY <1>2 DEF WillWake, Quit, Calling
  <2> QED
    BY <1>2, <2>1 DEF Quit, WakeupOwed, Attended
<1>3. ASSUME NEW t \in Threads, Wakeup(t) PROVE WakeupOwed'
  <2>1. CASE WillWake(t)
    <3>1. wakeupCount' > 0
      BY <1>3, <2>1 DEF Wakeup
    <3> QED
      BY <3>1 DEF WakeupOwed
  <2>2. CASE ~WillWake(t)
    <3>1. \A u \in Threads : WillWake(u) => WillWake(u)'
      BY <1>3, <2>2 DEF WillWake, Wakeup
    <3> QED
      BY <1>3, <2>2, <3>1 DEF Wakeup, WakeupOwed, Attended
  <2> QED
    BY <2>1, <2>2
<1>4. ASSUME EnterLoop \/ Iterate \/ LeaveLoop PROVE WakeupOwed'
  BY <1>4 DEF EnterLoop, Iterate, LeaveLoop, LoopSteps, WakeupOwed, Attended, WillWake
<1>5. ASSUME \/ PollReady \/ PollTimeout \/ HandleWakeup \/ HandleIo \/ BeginPending
      PROVE  WakeupOwed'
  BY <1>5 DEF PollReady, PollTimeout, HandleWakeup, HandleIo, BeginPending, LoopSteps,
              WakeupOwed
<1>6. CASE SwapFunctors
  <2>1. pending' = <<>>
    BY <1>6 DEF SwapFunctors, LoopSteps, FlagsFollowPhase
  <2> QED
    BY <2>1 DEF WakeupOwed, Attended
<1>7. CASE RunFunctor
  BY <1>7 DEF RunFunctor, LoopSteps, WakeupOwed, Attended, WillWake
<1>8. CASE EndPending
  <2>1. \A u \in Threads : WillWake(u) => WillWake(u)'
    BY <1>8 DEF EndPending, LoopSteps, WillWake
  <2> QED
    BY <1>8, <2>1 DEF EndPending, LoopSteps, WakeupOwed, Attended
<1>9. CASE UNCHANGED vars
  BY <1>9 DEF vars, WakeupOwed, Attended, WillWake
<1> QED
  BY <1>1, <1>2, <1>3, <1>4, <1>5, <1>6, <1>7, <1>8, <1>9 DEF Next

(* quit() of another thread is announced by its own write of the eventfd. *)
LEMMA QuitNext ==
    TypeOK /\ FlagsFollowPhase /\ NoLostQuit /\ [Next]_vars => NoLostQuit'
<1> SUFFICES ASSUME TypeOK, FlagsFollowPhase, NoLostQuit, [Next]_vars
             PROVE  NoLostQuit'
  OBVIOUS
<1> USE DEF TypeOK, NoLostQuit
<1>1. ASSUME NEW t \in Threads, QueueInLoop(t) PROVE NoLostQuit'
  BY <1>1 DEF QueueInLoop, Calling
<1>2. ASSUME NEW t \in Threads, Quit(t) PROVE NoLostQuit'
  <2>1. phase = "poll" => t \in Others /\ op'[t] = "quit"
    BY <1>2 DEF Quit, Calling, InUserCode
  <2> QED
    BY <1>2, <2>1 DEF Quit
<1>3. ASSUME NEW t \in Threads, Wakeup(t) PROVE NoLostQuit'
  <2>1. CASE t \in Others
    <3>1. t # LoopThread
      BY <2>1, ThreadsAssumption
    <3>2. wakeupCount' > 0
      BY <1>3, <3>1 DEF Wakeup, WillWake
    <3> QED
      BY <3>2
  <2>2. CASE t = LoopThread
    <3>1. \A u \in Others : op'[u] = op[u]
      BY <1>3, <2>2, ThreadsAssumption DEF Wakeup
    <3> QED
      BY <1>3, <3>1 DEF Wakeup
  <2> QED
    BY <2>1, <2>2
<1>4. ASSUME \/ EnterLoop \/ Iterate \/ LeaveLoop \/ PollReady \/ PollTimeout
             \/ HandleWakeup \/ HandleIo \/ BeginPending \/ SwapFunctors \/ RunFunctor
             \/ EndPending
      PROVE  NoLostQuit'
  BY <1>4 DEF EnterLoop, Iterate, LeaveLoop, PollReady, PollTimeout, HandleWakeup,
              HandleIo, BeginPending, SwapFunctors, RunFunctor, EndPending, LoopSteps
<1>5. CASE UNCHANGED vars
  BY <1>5 DEF vars
<1> QED
  BY <1>1, <1>2, <1>3, <1>4, <1>5 DEF Next

----------------------------------------------------------------------------
(* Sequences: what queueInLoop() and doPendingFunctors() do to the order. *)

(* Appending to the second of two sequences appends to both together. *)
LEMMA ConcatAppend ==
    ASSUME NEW S, NEW s \in Seq(S), NEW t \in Seq(S), NEW e \in S
    PROVE  s \o Append(t, e) = Append(s \o t, e)
<1>1. <<e>> \in Seq(S)
  OBVIOUS
<1>2. s \o t \in Seq(S)
  BY ConcatProperties
<1>3. Append(t, e) = t \o <<e>> /\ Append(s \o t, e) = (s \o t) \o <<e>>
  BY <1>2, AppendIsConcat
<1> QED
  BY <1>1, <1>3, ConcatAssociative

(* Moving the head of one sequence to the end of the one before it. *)
LEMMA MoveHead ==
    ASSUME NEW S, NEW s \in Seq(S), NEW t \in Seq(S), t # <<>>
    PROVE  Append(s, Head(t)) \o Tail(t) = s \o t
<1>1. Head(t) \in S /\ Tail(t) \in Seq(S) /\ <<Head(t)>> \in Seq(S)
  BY HeadTailProperties
<1>2. Append(s, Head(t)) = s \o <<Head(t)>>
  BY <1>1, AppendIsConcat
<1>3. <<Head(t)>> \o Tail(t) = t
  BY <1>1, HeadTailProperties, ConcatSimplifications
<1> QED
  BY <1>1, <1>2, <1>3, ConcatAssociative

(* A non-empty first sequence gives the head of a concatenation. *)
LEMMA HeadTailConcat ==
    ASSUME NEW S, NEW s \in Seq(S), NEW t \in Seq(S), s # <<>>
    PROVE  /\ s \o t # <<>>
           /\ Head(s \o t) = Head(s)
           /\ Tail(s \o t) = Tail(s) \o t
<1>1. Tail(s) \in Seq(S) /\ Len(Tail(s)) = Len(s) - 1 /\ Len(s) > 0
  BY HeadTailProperties, EmptySeq
<1>2. s \o t \in Seq(S) /\ Len(s \o t) = Len(s) + Len(t)
  BY ConcatProperties
<1>3. s \o t # <<>>
  BY <1>1, <1>2
<1>4. Head(s \o t) = Head(s)
  BY <1>1, <1>2, <1>3
<1>5. /\ Tail(s \o t) \in Seq(S) /\ Tail(s) \o t \in Seq(S)
      /\ Len(Tail(s \o t)) = Len(s) + Len(t) - 1
      /\ Len(Tail(s) \o t) = Len(s) + Len(t) - 1
  BY <1>1, <1>2, <1>3, HeadTailProperties, ConcatProperties
<1>6. ASSUME NEW i \in 1..(Len(s) + Len(t) - 1)
      PROVE  Tail(s \o t)[i] = (Tail(s) \o t)[i]
  <2>1. Tail(s \o t)[i] = (s \o t)[i + 1]
    BY <1>2, <1>3, <1>5, HeadTailProperties
  <2>2. (s \o t)[i + 1] = IF i + 1 <= Len(s) THEN s[i + 1] ELSE t[i + 1 - Len(s)]
    BY <1>1, ConcatProperties
  <2>3. (Tail(s) \o t)[i] = IF i <= Len(s) - 1 THEN Tail(s)[i]
                                              ELSE t[i - (Len(s) - 1)]
    BY <1>1, ConcatProperties
  <2>4. i <= Len(s) - 1 => Tail(s)[i] = s[i + 1]
    BY <1>1, HeadTailProperties
  <2> QED
    BY <1>1, <2>1, <2>2, <2>3, <2>4
<1>7. Tail(s \o t) = Tail(s) \o t
  BY <1>5, <1>6, SeqEqual
<1> QED
  BY <1>3, <1>4, <1>7

(* The entries of a concatenation are those of its parts. *)
LEMMA EntriesOfConcat ==
    ASSUME NEW S, NEW s \in Seq(S), NEW t \in Seq(S)
    PROVE  Queue!Entries(s \o t) = Queue!Entries(s) \cup Queue!Entries(t)
<1> USE DEF Queue!Entries
<1>1. /\ s \o t \in Seq(S) /\ Len(s \o t) = Len(s) + Len(t)
      /\ \A i \in 1..(Len(s) + Len(t)) :
            (s \o t)[i] = IF i <= Len(s) THEN s[i] ELSE t[i - Len(s)]
  BY ConcatProperties
<1>2. ASSUME NEW i \in DOMAIN s PROVE s[i] \in Queue!Entries(s \o t)
  <2>1. i \in DOMAIN (s \o t) /\ (s \o t)[i] = s[i]
    BY <1>1
  <2> QED
    BY <2>1
<1>3. ASSUME NEW i \in DOMAIN t PROVE t[i] \in Queue!Entries(s \o t)
  <2>1. i + Len(s) \in DOMAIN (s \o t) /\ (s \o t)[i + Len(s)] = t[i]
    BY <1>1
  <2> QED
    BY <2>1
<1>4. ASSUME NEW i \in DOMAIN (s \o t)
      PROVE  (s \o t)[i] \in Queue!Entries(s) \cup Queue!Entries(t)
  <2>1. CASE i <= Len(s)
    BY <1>1, <2>1
  <2>2. CASE i > Len(s)
    BY <1>1, <2>2
  <2> QED
    BY <1>1, <2>1, <2>2
<1> QED
  BY <1>2, <1>3, <1>4

(* Pushes, the swap and the runs keep the three parts in the order of pushes. *)
LEMMA OrderNext ==
    TypeOK /\ FlagsFollowPhase /\ RunOnceInOrder /\ [Next]_vars => RunOnceInOrder'
<1> SUFFICES ASSUME TypeOK, FlagsFollowPhase, RunOnceInOrder, [Next]_vars
             PROVE  RunOnceInOrder'
  OBVIOUS
<1> USE DEF TypeOK
<1>1. ASSUME NEW t \in Threads, QueueInLoop(t) PROVE RunOnceInOrder'
  <2> DEFINE f == [from |-> t, n |-> calls[t] + 1,
                   early |-> t = LoopThread /\ phase = "outside"]
  <2>1. f \in Functor
    BY <1>1, NewFunctorType DEF QueueInLoop, Calling
  <2>2. /\ pending' = Append(pending, f) /\ queued' = Append(queued, f)
        /\ UNCHANGED <<functors, ran>>
    BY <1>1 DEF QueueInLoop
  <2>3. ran \o functors \in Seq(Functor)
    BY ConcatProperties
  <2> HIDE DEF f
  <2>4. (ran \o functors) \o Append(pending, f) = Append((ran \o functors) \o pending, f)
    BY <2>1, <2>3, ConcatAppend
  <2> QED
    BY <2>2, <2>4 DEF RunOnceInOrder
<1>2. CASE SwapFunctors
  <2>1. functors = <<>>
    BY <1>2 DEF SwapFunctors, LoopSteps, FlagsFollowPhase
  <2>2. ran \o functors = ran /\ ran \o pending \in Seq(Functor)
    BY <2>1, ConcatEmptySeq, ConcatProperties
  <2>3. (ran \o pending) \o <<>> = ran \o pending
    BY <2>2, ConcatEmptySeq
  <2> QED
    BY <1>2, <2>1, <2>2, <2>3 DEF SwapFunctors, RunOnceInOrder
<1>3. CASE RunFunctor
  <2>1. Append(ran, Head(functors)) \o Tail(functors) = ran \o functors
    BY <1>3, MoveHead DEF RunFunctor
  <2> QED
    BY <1>3, <2>1 DEF RunFunctor, RunOnceInOrder
<1>4. ASSUME NEW t \in Threads, Quit(t) \/ Wakeup(t) PROVE RunOnceInOrder'
  BY <1>4 DEF Quit, Wakeup, RunOnceInOrder
<1>5. ASSUME \/ EnterLoop \/ Iterate \/ LeaveLoop \/ PollReady \/ PollTimeout
             \/ HandleWakeup \/ HandleIo \/ BeginPending \/ EndPending
      PROVE  RunOnceInOrder'
  BY <1>5 DEF EnterLoop, Iterate, LeaveLoop, PollReady, PollTimeout, HandleWakeup,
              HandleIo, BeginPending, EndPending, RunOnceInOrder
<1>6. CASE UNCHANGED vars
  BY <1>6 DEF vars, RunOnceInOrder
<1> QED
  BY <1>1, <1>2, <1>3, <1>4, <1>5, <1>6 DEF Next

(* Calls are only numbered upwards. *)
LEMMA NumbersNext == TypeOK /\ NumberedByCall /\ [Next]_vars => NumberedByCall'
<1> SUFFICES ASSUME TypeOK, NumberedByCall, [Next]_vars PROVE NumberedByCall'
  OBVIOUS
<1> USE DEF TypeOK
<1>0. \A i \in DOMAIN queued : queued[i].from \in Threads /\ queued[i].n \in Nat
  BY FunctorFields, ElementOfSeq
<1>1. ASSUME NEW t \in Threads, QueueInLoop(t) PROVE NumberedByCall'
  <2> DEFINE f == [from |-> t, n |-> calls[t] + 1,
                   early |-> t = LoopThread /\ phase = "outside"]
  <2>1. /\ queued' = Append(queued, f)
        /\ calls' = [calls EXCEPT ![t] = @ + 1]
    BY <1>1 DEF QueueInLoop, Calling
  <2> SUFFICES ASSUME NEW i \in DOMAIN queued'
               PROVE  queued'[i].n <= calls'[queued'[i].from]
    BY DEF NumberedByCall
  <2>2. CASE i = Len(queued) + 1
    <3>1. queued'[i] = f
      BY <2>1, <2>2
    <3> QED
      BY <2>1, <3>1
  <2>3. CASE i # Len(queued) + 1
    <3>1. i \in DOMAIN queued /\ queued'[i] = queued[i]
      BY <2>1, <2>3
    <3>2. queued[i].n <= calls[queued[i].from]
      BY <3>1 DEF NumberedByCall
    <3>3. calls[queued[i].from] <= calls'[queued[i].from]
      BY <1>0, <2>1, <3>1
    <3>4. calls[queued[i].from] \in Nat /\ calls'[queued[i].from] \in Nat
      BY <1>0, <2>1, <3>1
    <3> QED
      BY <1>0, <3>1, <3>2, <3>3, <3>4
  <2> QED
    BY <2>2, <2>3
<1>2. ASSUME UNCHANGED queued,
             \A t \in Threads : calls[t] <= calls'[t] /\ calls'[t] \in Nat
      PROVE  NumberedByCall'
  <2> SUFFICES ASSUME NEW i \in DOMAIN queued
               PROVE  queued[i].n <= calls'[queued[i].from]
    BY <1>2 DEF NumberedByCall
  <2>1. queued[i].n <= calls[queued[i].from]
    BY DEF NumberedByCall
  <2> QED
    BY <1>0, <1>2, <2>1
<1>3. ASSUME NEW t \in Threads, Quit(t) PROVE NumberedByCall'
  <2>1. /\ UNCHANGED queued
        /\ calls' = [calls EXCEPT ![t] = @ + 1]
    BY <1>3 DEF Quit, Calling
  <2> QED
    BY <1>2, <2>1
<1>4. CASE EnterLoop
  <2>1. /\ UNCHANGED queued
        /\ calls' = [calls EXCEPT ![LoopThread] = @ + 1]
    BY <1>4 DEF EnterLoop
  <2> QED
    BY <1>2, <2>1
<1>5. ASSUME UNCHANGED <<queued, calls>> PROVE NumberedByCall'
  BY <1>5 DEF NumberedByCall
<1>6. ASSUME NEW t \in Threads, Wakeup(t) PROVE NumberedByCall'
  BY <1>5, <1>6 DEF Wakeup
<1>7. ASSUME \/ Iterate \/ LeaveLoop \/ PollReady \/ PollTimeout \/ HandleWakeup
             \/ HandleIo \/ BeginPending \/ SwapFunctors \/ RunFunctor \/ EndPending
             \/ UNCHANGED vars
      PROVE  NumberedByCall'
  BY <1>5, <1>7 DEF Iterate, LeaveLoop, PollReady, PollTimeout, HandleWakeup, HandleIo,
                    BeginPending, SwapFunctors, RunFunctor, EndPending, vars
<1> QED
  BY <1>1, <1>3, <1>4, <1>6, <1>7 DEF Next

(* LoopInv is an invariant: the argument behind the theorems below. *)
THEOREM LoopInvariant == Spec => []LoopInv
<1>1. Init => LoopInv
  BY LoopInvInit
<1>2. LoopInv /\ [Next]_vars => LoopInv'
  BY TypeNext, FlagsNext, WakeupNext, QuitNext, OrderNext, NumbersNext DEF LoopInv
<1> QED
  BY <1>1, <1>2, PTL DEF Spec

(* queueInLoop() never leaves its functor behind a sleeping poll. *)
THEOREM NoWakeupIsLost == Spec => []NoLostWakeup
<1>1. LoopInv => NoLostWakeup
  BY DEF LoopInv, WakeupOwed, NoLostWakeup
<1> QED
  BY <1>1, LoopInvariant, PTL

(* quit() is never slept through. *)
THEOREM NoQuitIsLost == Spec => []NoLostQuit
<1>1. LoopInv => NoLostQuit
  BY DEF LoopInv
<1> QED
  BY <1>1, LoopInvariant, PTL

(* doPendingFunctors() runs what was queued once and in order. *)
THEOREM FunctorsRunOnceInOrder == Spec => []RunOnceInOrder
<1>1. LoopInv => RunOnceInOrder
  BY DEF LoopInv
<1> QED
  BY <1>1, LoopInvariant, PTL

(* A step of the loop or of a caller is a step of the FIFO queue or none. *)
LEMMA QueueStep == LoopInv /\ [Next]_vars => [Queue!Next]_(Queue!vars)
<1> SUFFICES ASSUME LoopInv, [Next]_vars PROVE [Queue!Next]_(Queue!vars)
  OBVIOUS
<1> USE DEF LoopInv, TypeOK
<1>1. ASSUME NEW t \in Threads, QueueInLoop(t) PROVE Queue!Next
  <2> DEFINE f == [from |-> t, n |-> calls[t] + 1,
                   early |-> t = LoopThread /\ phase = "outside"]
  <2>1. f \in Functor
    BY <1>1, NewFunctorType DEF QueueInLoop, Calling
  <2>2. pending' = Append(pending, f) /\ UNCHANGED <<functors, ran>>
    BY <1>1 DEF QueueInLoop
  <2>3. ASSUME f \in Queue!Entries(queued) PROVE FALSE
    <3>1. PICK i \in DOMAIN queued : queued[i] = f
      BY <2>3 DEF Queue!Entries
    <3>2. calls[t] + 1 <= calls[t]
      BY <3>1 DEF NumberedByCall
    <3> QED
      BY <3>2
  <2> HIDE DEF f
  <2>4. /\ ran \o functors \in Seq(Functor)
        /\ functors \o pending \in Seq(Functor)
        /\ (ran \o functors) \o pending = ran \o (functors \o pending)
    BY ConcatProperties, ConcatAssociative
  <2>5. Queue!Entries(queued)
          = Queue!Entries(ran) \cup Queue!Entries(functors \o pending)
    <3>1. queued = ran \o (functors \o pending)
      BY <2>4 DEF RunOnceInOrder
    <3>2. Queue!Entries(ran \o (functors \o pending))
            = Queue!Entries(ran) \cup Queue!Entries(functors \o pending)
      <4> DEFINE q == functors \o pending
      <4>1. ran \in Seq(Functor) /\ q \in Seq(Functor)
        BY <2>4
      <4> HIDE DEF q
      <4>2. Queue!Entries(ran \o q) = Queue!Entries(ran) \cup Queue!Entries(q)
        BY ONLY <4>1, EntriesOfConcat, Zenon
      <4> QED
        BY <4>2 DEF q
    <3> QED
      BY <3>1, <3>2
  <2>6. functors \o Append(pending, f) = Append(functors \o pending, f)
    BY <2>1, ConcatAppend
  <2>7. Queue!Submit(f)
    BY <2>2, <2>3, <2>5, <2>6 DEF Queue!Submit
  <2> QED
    BY <2>1, <2>7 DEF Queue!Next
<1>2. CASE RunFunctor
  <2>1. functors # <<>> /\ functors' = Tail(functors) /\ UNCHANGED pending
        /\ ran' = Append(ran, Head(functors))
    BY <1>2 DEF RunFunctor
  <2>2. /\ functors \o pending # <<>>
        /\ Head(functors \o pending) = Head(functors)
        /\ Tail(functors \o pending) = Tail(functors) \o pending
    BY <2>1, HeadTailConcat
  <2> QED
    BY <2>1, <2>2 DEF Queue!Next, Queue!Execute
<1>3. CASE SwapFunctors
  <2>1. functors = <<>>
    BY <1>3 DEF SwapFunctors, LoopSteps, FlagsFollowPhase
  <2>2. functors \o pending = pending /\ pending \o functors = pending
    BY <2>1, ConcatEmptySeq
  <2> QED
    BY <1>3, <2>2 DEF SwapFunctors, Queue!vars
<1>4. ASSUME UNCHANGED <<functors, pending, ran>> PROVE UNCHANGED Queue!vars
  BY <1>4 DEF Queue!vars
<1>5. ASSUME NEW t \in Threads, Quit(t) \/ Wakeup(t) PROVE UNCHANGED Queue!vars
  BY <1>4, <1>5 DEF Quit, Wakeup
<1>6. ASSUME \/ EnterLoop \/ Iterate \/ LeaveLoop \/ PollReady \/ PollTimeout
             \/ HandleWakeup \/ HandleIo \/ BeginPending \/ EndPending
             \/ UNCHANGED vars
      PROVE  UNCHANGED Queue!vars
  BY <1>4, <1>6 DEF EnterLoop, Iterate, LeaveLoop, PollReady, PollTimeout,
                    HandleWakeup, HandleIo, BeginPending, EndPending, vars
<1> QED
  BY <1>1, <1>2, <1>3, <1>5, <1>6 DEF Next

(* The EventLoop implements the FIFO queue of functors. *)
THEOREM ImplementsFunctorQueue == Spec => RefinesFunctorQueue
<1>1. Init => Queue!Init
  BY DEF Init, Queue!Init
<1>2. LoopInv /\ [Next]_vars => [Queue!Next]_(Queue!vars)
  BY QueueStep
<1> QED
  BY <1>1, <1>2, LoopInvariant, PTL DEF Spec, RefinesFunctorQueue, Queue!Spec
=============================================================================
