---------------------------- MODULE RwLockProofs ----------------------------
(***************************************************************************)
(* Proofs about module RwLock, for any finite set of threads.              *)
(***************************************************************************)
EXTENDS RwLock, FiniteSetTheorems, TLAPS

(* The inductive invariant: the counters count, which is why exclusion follows  *)
(* from tests of the counters, and no wakeup is lost.                           *)
Inv == TypeOK /\ Exclusion /\ NoLostWakeup

(* Every set of threads is finite, and empty exactly when its size is zero. *)
LEMMA Sizes ==
    ASSUME NEW S \in SUBSET Threads
    PROVE  IsFiniteSet(S) /\ Cardinality(S) \in Nat /\ (Cardinality(S) = 0 <=> S = {})
<1>1. IsFiniteSet(S)
  BY ThreadsAssumption, FS_Subset
<1> QED
  BY <1>1, FS_CardinalityType, FS_EmptySet

(* A thread that joins a set, or leaves it, changes its size by one. *)
LEMMA Joins ==
    ASSUME NEW S \in SUBSET Threads, NEW t \in Threads, t \notin S
    PROVE  Cardinality(S \cup {t}) = Cardinality(S) + 1
BY Sizes, FS_AddElement

(* The same for a thread that leaves. *)
LEMMA Leaves ==
    ASSUME NEW S \in SUBSET Threads, NEW t \in S
    PROVE  Cardinality(S \ {t}) = Cardinality(S) - 1
BY Sizes, FS_RemoveElement

R == In({"reading"})
RW == In({"reader waiting", "reader woken"})
W == In({"writing"})

(* Nobody has the lock or waits for it in the beginning. *)
LEMMA InvInit == Init => Inv
<1> SUFFICES ASSUME Init PROVE Inv
  OBVIOUS
<1>1. at \in [Threads -> Places] /\ \A t \in Threads : at[t] = "idle"
  BY DEF Init, Places
<1>2. R = {} /\ RW = {} /\ W = {} /\ WriterAsks = {} /\ In({"reader waiting"}) = {}
  BY <1>1 DEF R, RW, W, WriterAsks, In
<1>3. TypeOK
  BY <1>1, <1>2, FS_EmptySet DEF TypeOK, Init, R, RW, W
<1>4. Exclusion
  BY <1>1 DEF Exclusion
<1>5. NoLostWakeup
  BY <1>2 DEF NoLostWakeup
<1> QED
  BY <1>3, <1>4, <1>5 DEF Inv

(* What the counters say about the sets. *)
CountersTell ==
    /\ readers \in Nat /\ (readers = 0 <=> R = {})
    /\ readWaiters \in Nat
    /\ writers \in Nat /\ (writers = 0 <=> W = {})
    /\ writeWaiters \in Nat /\ (writeWaiters = 0 <=> WriterAsks = {})

(* They say it because they count. *)
LEMMA Counted == TypeOK => CountersTell
<1>1. R \in SUBSET Threads /\ RW \in SUBSET Threads /\ W \in SUBSET Threads
      /\ WriterAsks \in SUBSET Threads
  BY DEF R, RW, W, WriterAsks, In
<1> QED
  BY <1>1, Sizes DEF TypeOK, CountersTell, R, RW, W

(* A step of one thread, by where it comes from and goes to. *)
LEMMA Moves ==
    ASSUME TypeOK, NEW t \in Threads, NEW b \in Places, at' = [at EXCEPT ![t] = b],
           NEW P \in SUBSET Places
    PROVE  /\ b \in P => In(P)' = In(P) \cup {t}
           /\ b \notin P => In(P)' = In(P) \ {t}
BY DEF TypeOK, In

(* The size of a set of places before and after a step of one thread. *)
LEMMA MoveCounts ==
    ASSUME TypeOK, NEW t \in Threads, NEW b \in Places, at' = [at EXCEPT ![t] = b],
           NEW P \in SUBSET Places
    PROVE  /\ b \in P /\ at[t] \notin P => Cardinality(In(P)') = Cardinality(In(P)) + 1
           /\ b \notin P /\ at[t] \in P => Cardinality(In(P)') = Cardinality(In(P)) - 1
           /\ (b \in P <=> at[t] \in P) => In(P)' = In(P)
<1>1. In(P) \in SUBSET Threads /\ (t \in In(P) <=> at[t] \in P)
  BY DEF In
<1>2. /\ b \in P => In(P)' = In(P) \cup {t}
      /\ b \notin P => In(P)' = In(P) \ {t}
  BY Moves
<1>3. ASSUME b \in P, at[t] \notin P PROVE Cardinality(In(P)') = Cardinality(In(P)) + 1
  <2>1. In(P)' = In(P) \cup {t}
    BY <1>2, <1>3
  <2> QED
    BY <1>1, <1>3, <2>1, Joins
<1>4. ASSUME b \notin P, at[t] \in P PROVE Cardinality(In(P)') = Cardinality(In(P)) - 1
  <2>1. In(P)' = In(P) \ {t}
    BY <1>2, <1>4
  <2> QED
    BY <1>1, <1>4, <2>1, Leaves
<1>5. (b \in P <=> at[t] \in P) => In(P)' = In(P)
  BY <1>1, <1>2
<1> QED
  BY <1>3, <1>4, <1>5

(* A counter n becomes m as a thread that was in a set, or not, is in it now.   *)
Counts(n, m, is, was) ==
    /\ is /\ ~was => m = n + 1
    /\ ~is /\ was => m = n - 1
    /\ (is <=> was) => m = n

(* The counters after a step of one thread. *)
LEMMA MoveType ==
    ASSUME TypeOK, NEW t \in Threads, NEW b \in Places, at' = [at EXCEPT ![t] = b],
           Counts(readers, readers', b = "reading", at[t] = "reading"),
           Counts(writers, writers', b = "writing", at[t] = "writing"),
           Counts(readWaiters, readWaiters', b \in {"reader waiting", "reader woken"},
                  at[t] \in {"reader waiting", "reader woken"}),
           Counts(writeWaiters, writeWaiters', b \in {"writer waiting", "writer woken"},
                  at[t] \in {"writer waiting", "writer woken"})
    PROVE  TypeOK'
<1>1. at' \in [Threads -> Places]
  BY DEF TypeOK
<1> DEFINE rw == {"reader waiting", "reader woken"}
           ww == {"writer waiting", "writer woken"}
<1>2. /\ {"reading"} \in SUBSET Places /\ {"writing"} \in SUBSET Places
      /\ rw \in SUBSET Places /\ ww \in SUBSET Places
  BY DEF Places
<1>3. readers \in Nat /\ readWaiters \in Nat /\ writers \in Nat /\ writeWaiters \in Nat
  BY Counted DEF CountersTell
<1>4. readers' = Cardinality(In({"reading"})')
  <2>1. /\ b = "reading" /\ at[t] # "reading" =>
              Cardinality(In({"reading"})') = Cardinality(In({"reading"})) + 1
        /\ b # "reading" /\ at[t] = "reading" =>
              Cardinality(In({"reading"})') = Cardinality(In({"reading"})) - 1
        /\ (b = "reading" <=> at[t] = "reading") => In({"reading"})' = In({"reading"})
    BY <1>2, MoveCounts
  <2> QED
    BY <1>3, <2>1 DEF TypeOK, Counts
<1>5. writers' = Cardinality(In({"writing"})')
  <2>1. /\ b = "writing" /\ at[t] # "writing" =>
              Cardinality(In({"writing"})') = Cardinality(In({"writing"})) + 1
        /\ b # "writing" /\ at[t] = "writing" =>
              Cardinality(In({"writing"})') = Cardinality(In({"writing"})) - 1
        /\ (b = "writing" <=> at[t] = "writing") => In({"writing"})' = In({"writing"})
    BY <1>2, MoveCounts
  <2> QED
    BY <1>3, <2>1 DEF TypeOK, Counts
<1>6. readWaiters' = Cardinality(In(rw)')
  <2>1. /\ b \in rw /\ at[t] \notin rw => Cardinality(In(rw)') = Cardinality(In(rw)) + 1
        /\ b \notin rw /\ at[t] \in rw => Cardinality(In(rw)') = Cardinality(In(rw)) - 1
        /\ (b \in rw <=> at[t] \in rw) => In(rw)' = In(rw)
    BY <1>2, MoveCounts
  <2> QED
    BY <1>3, <2>1 DEF TypeOK, Counts
<1>7. writeWaiters' = Cardinality(In(ww)')
  <2>1. /\ b \in ww /\ at[t] \notin ww => Cardinality(In(ww)') = Cardinality(In(ww)) + 1
        /\ b \notin ww /\ at[t] \in ww => Cardinality(In(ww)') = Cardinality(In(ww)) - 1
        /\ (b \in ww <=> at[t] \in ww) => In(ww)' = In(ww)
    BY <1>2, MoveCounts
  <2> QED
    BY <1>3, <2>1 DEF TypeOK, Counts, WriterAsks
<1> QED
  BY <1>1, <1>4, <1>5, <1>6, <1>7 DEF TypeOK, WriterAsks

(* A reader enters when there is no writer, and none waits. *)
LEMMA ReadLockKeeps ==
    ASSUME Inv, NEW t \in Threads, ReadLock(t)
    PROVE  Inv'
<1>1. TypeOK /\ CountersTell /\ at \in [Threads -> Places]
  BY Counted DEF Inv, TypeOK
<1>2. at' = [at EXCEPT ![t] = "reading"] /\ "reading" \in Places
  BY DEF ReadLock, Places
<1>3. TypeOK'
  BY <1>1, <1>2, MoveType DEF ReadLock, Counts, CountersTell
<1>4. Exclusion'
  BY <1>1, <1>2 DEF ReadLock, Inv, Exclusion, CountersTell, MayRead, MayWrite, R, W, In
<1>5. NoLostWakeup'
  BY <1>1, <1>2 DEF ReadLock, Inv, NoLostWakeup, CountersTell, MayRead, MayWrite, WriterAsks, In
<1> QED
  BY <1>3, <1>4, <1>5 DEF Inv

(* A reader that must wait does so for a writer. *)
LEMMA ReadWaitKeeps ==
    ASSUME Inv, NEW t \in Threads, ReadWait(t)
    PROVE  Inv'
<1>1. TypeOK /\ CountersTell /\ at \in [Threads -> Places]
  BY Counted DEF Inv, TypeOK
<1>2. at' = [at EXCEPT ![t] = "reader waiting"] /\ "reader waiting" \in Places
  BY DEF ReadWait, Places
<1>3. TypeOK'
  BY <1>1, <1>2, MoveType DEF ReadWait, Counts, CountersTell
<1>4. Exclusion'
  BY <1>1, <1>2 DEF ReadWait, Inv, Exclusion, CountersTell, MayRead, MayWrite, R, W, In
<1>5. NoLostWakeup'
  BY <1>1, <1>2 DEF ReadWait, Inv, NoLostWakeup, CountersTell, MayRead, MayWrite, WriterAsks, In
<1> QED
  BY <1>3, <1>4, <1>5 DEF Inv

(* A woken reader enters on the same condition. *)
LEMMA ReadEnterKeeps ==
    ASSUME Inv, NEW t \in Threads, ReadEnter(t)
    PROVE  Inv'
<1>1. TypeOK /\ CountersTell /\ at \in [Threads -> Places]
  BY Counted DEF Inv, TypeOK
<1>2. at' = [at EXCEPT ![t] = "reading"] /\ "reading" \in Places
  BY DEF ReadEnter, Places
<1>3. TypeOK'
  BY <1>1, <1>2, MoveType DEF ReadEnter, Counts, CountersTell
<1>4. Exclusion'
  BY <1>1, <1>2 DEF ReadEnter, Inv, Exclusion, CountersTell, MayRead, MayWrite, R, W, In
<1>5. NoLostWakeup'
  BY <1>1, <1>2 DEF ReadEnter, Inv, NoLostWakeup, CountersTell, MayRead, MayWrite, WriterAsks, In
<1> QED
  BY <1>3, <1>4, <1>5 DEF Inv

(* Or goes back to wait, for a writer again. *)
LEMMA ReadWaitAgainKeeps ==
    ASSUME Inv, NEW t \in Threads, ReadWaitAgain(t)
    PROVE  Inv'
<1>1. TypeOK /\ CountersTell /\ at \in [Threads -> Places]
  BY Counted DEF Inv, TypeOK
<1>2. at' = [at EXCEPT ![t] = "reader waiting"] /\ "reader waiting" \in Places
  BY DEF ReadWaitAgain, Places
<1>3. TypeOK'
  BY <1>1, <1>2, MoveType DEF ReadWaitAgain, Counts, CountersTell
<1>4. Exclusion'
  BY <1>1, <1>2 DEF ReadWaitAgain, Inv, Exclusion, CountersTell, MayRead, MayWrite, R, W, In
<1>5. NoLostWakeup'
  BY <1>1, <1>2 DEF ReadWaitAgain, Inv, NoLostWakeup, CountersTell, MayRead, MayWrite, WriterAsks, In
<1> QED
  BY <1>3, <1>4, <1>5 DEF Inv

(* A writer enters when the lock is free. *)
LEMMA WriteLockKeeps ==
    ASSUME Inv, NEW t \in Threads, WriteLock(t)
    PROVE  Inv'
<1>1. TypeOK /\ CountersTell /\ at \in [Threads -> Places]
  BY Counted DEF Inv, TypeOK
<1>2. at' = [at EXCEPT ![t] = "writing"] /\ "writing" \in Places
  BY DEF WriteLock, Places
<1>3. TypeOK'
  BY <1>1, <1>2, MoveType DEF WriteLock, Counts, CountersTell
<1>4. Exclusion'
  BY <1>1, <1>2 DEF WriteLock, Inv, Exclusion, CountersTell, MayRead, MayWrite, R, W, In
<1>5. NoLostWakeup'
  <2>1. readers \in Nat /\ writers \in Nat /\ writeWaiters \in Nat
    BY <1>1 DEF CountersTell
  <2>2. writers' = writers + 1
    BY DEF WriteLock
  <2>3. ~MayWrite' /\ ~MayRead'
    BY <2>1, <2>2 DEF MayRead, MayWrite
  <2> QED
    BY <2>3 DEF NoLostWakeup
<1> QED
  BY <1>3, <1>4, <1>5 DEF Inv

(* A writer that must wait does so for somebody who has the lock. *)
LEMMA WriteWaitKeeps ==
    ASSUME Inv, NEW t \in Threads, WriteWait(t)
    PROVE  Inv'
<1>1. TypeOK /\ CountersTell /\ at \in [Threads -> Places]
  BY Counted DEF Inv, TypeOK
<1>2. at' = [at EXCEPT ![t] = "writer waiting"] /\ "writer waiting" \in Places
  BY DEF WriteWait, Places
<1>3. TypeOK'
  BY <1>1, <1>2, MoveType DEF WriteWait, Counts, CountersTell
<1>4. Exclusion'
  BY <1>1, <1>2 DEF WriteWait, Inv, Exclusion, CountersTell, MayRead, MayWrite, R, W, In
<1>5. NoLostWakeup'
  <2>1. readers \in Nat /\ writers \in Nat /\ writeWaiters \in Nat
    BY <1>1 DEF CountersTell
  <2>2. ~MayWrite /\ readers' = readers /\ writers' = writers /\ writeWaiters' = writeWaiters + 1
    BY DEF WriteWait
  <2>3. ~MayWrite' /\ ~MayRead'
    BY <2>1, <2>2 DEF MayRead, MayWrite
  <2> QED
    BY <2>3 DEF NoLostWakeup
<1> QED
  BY <1>3, <1>4, <1>5 DEF Inv

(* A woken writer enters when the lock is free. *)
LEMMA WriteEnterKeeps ==
    ASSUME Inv, NEW t \in Threads, WriteEnter(t)
    PROVE  Inv'
<1>1. TypeOK /\ CountersTell /\ at \in [Threads -> Places]
  BY Counted DEF Inv, TypeOK
<1>2. at' = [at EXCEPT ![t] = "writing"] /\ "writing" \in Places
  BY DEF WriteEnter, Places
<1>3. TypeOK'
  BY <1>1, <1>2, MoveType DEF WriteEnter, Counts, CountersTell
<1>4. Exclusion'
  BY <1>1, <1>2 DEF WriteEnter, Inv, Exclusion, CountersTell, MayRead, MayWrite, R, W, In
<1>5. NoLostWakeup'
  <2>1. readers \in Nat /\ writers \in Nat /\ writeWaiters \in Nat
    BY <1>1 DEF CountersTell
  <2>2. writers' = writers + 1
    BY DEF WriteEnter
  <2>3. ~MayWrite' /\ ~MayRead'
    BY <2>1, <2>2 DEF MayRead, MayWrite
  <2> QED
    BY <2>3 DEF NoLostWakeup
<1> QED
  BY <1>3, <1>4, <1>5 DEF Inv

(* Or goes back to wait for somebody who has the lock. *)
LEMMA WriteWaitAgainKeeps ==
    ASSUME Inv, NEW t \in Threads, WriteWaitAgain(t)
    PROVE  Inv'
<1>1. TypeOK /\ CountersTell /\ at \in [Threads -> Places]
  BY Counted DEF Inv, TypeOK
<1>2. at' = [at EXCEPT ![t] = "writer waiting"] /\ "writer waiting" \in Places
  BY DEF WriteWaitAgain, Places
<1>3. TypeOK'
  BY <1>1, <1>2, MoveType DEF WriteWaitAgain, Counts, CountersTell
<1>4. Exclusion'
  BY <1>1, <1>2 DEF WriteWaitAgain, Inv, Exclusion, CountersTell, MayRead, MayWrite, R, W, In
<1>5. NoLostWakeup'
  BY <1>1, <1>2 DEF WriteWaitAgain, Inv, NoLostWakeup, CountersTell, MayRead, MayWrite, WriterAsks, In
<1> QED
  BY <1>3, <1>4, <1>5 DEF Inv

(* Notifications only wake up threads that wait. *)
Woken(u) ==
    \/ at'[u] = at[u]
    \/ at[u] = "reader waiting" /\ at'[u] = "reader woken"
    \/ at[u] = "writer waiting" /\ at'[u] = "writer woken"

(* A spurious wakeup changes no counter and takes no one from the woken. *)
LEMMA SpuriousWakeupKeeps ==
    ASSUME Inv, NEW t \in Threads, SpuriousWakeup(t)
    PROVE  Inv'
<1>1. TypeOK /\ CountersTell /\ at \in [Threads -> Places]
  BY Counted DEF Inv, TypeOK
<1>2. /\ at' \in [Threads -> Places]
      /\ \A u \in Threads : Woken(u)
      /\ UNCHANGED <<readers, readWaiters, writers, writeWaiters>>
  BY <1>1 DEF SpuriousWakeup, Woken, Places
<1>3. R' = R /\ RW' = RW /\ W' = W /\ WriterAsks' = WriterAsks
  BY <1>1, <1>2 DEF Woken, R, RW, W, WriterAsks, In
<1>4. TypeOK'
  BY <1>1, <1>2, <1>3 DEF TypeOK, R, RW, W
<1>5. Exclusion'
  BY <1>1, <1>2 DEF Inv, Exclusion, Woken
<1>6. NoLostWakeup'
  <2>1. In({"reader waiting"})' \subseteq In({"reader waiting"})
    BY <1>1, <1>2 DEF Woken, In
  <2>2. In({"writer woken"}) \subseteq In({"writer woken"})'
    BY <1>1, <1>2 DEF Woken, In
  <2> QED
    BY <1>2, <1>3, <2>1, <2>2 DEF Inv, NoLostWakeup, MayRead, MayWrite
<1> QED
  BY <1>4, <1>5, <1>6 DEF Inv

(* What unlocking does to the sets: the caller leaves, others may be woken up. *)
LEMMA UnlockSets ==
    ASSUME TypeOK, NEW t \in Threads, at[t] \in {"reading", "writing"},
           at' \in [Threads -> Places], at'[t] = "idle",
           \A u \in Threads \ {t} : Woken(u)
    PROVE  /\ R' = R \ {t} /\ W' = W \ {t} /\ RW' = RW /\ WriterAsks' = WriterAsks
           /\ In({"reader waiting"})' \subseteq In({"reader waiting"})
           /\ In({"writer woken"}) \subseteq In({"writer woken"})'
BY DEF TypeOK, Woken, R, RW, W, WriterAsks, In

(* The notifications, as at' and the sets see them. *)
LEMMA NotifyWriterWakes ==
    ASSUME TypeOK, NEW t \in Threads, at[t] \in {"reading", "writing"}, NotifyWriter(t)
    PROVE  /\ at' \in [Threads -> Places] /\ at'[t] = "idle"
           /\ \A u \in Threads \ {t} : Woken(u)
           /\ WriterAsks # {} => In({"writer woken"})' # {}
<1>1. at \in [Threads -> Places] /\ "idle" \in Places /\ "writer woken" \in Places
  BY DEF TypeOK, Places
<1>2. CASE In({"writer waiting"}) = {}
  <2>1. at' = [at EXCEPT ![t] = "idle"]
    BY <1>2 DEF NotifyWriter
  <2>2. WriterAsks # {} => In({"writer woken"})' # {}
    BY <1>1, <1>2, <2>1 DEF WriterAsks, In
  <2> QED
    BY <1>1, <2>1, <2>2 DEF Woken
<1>3. CASE In({"writer waiting"}) # {}
  <2>1. PICK w \in In({"writer waiting"}) :
            at' = [at EXCEPT ![t] = "idle", ![w] = "writer woken"]
    BY <1>3 DEF NotifyWriter
  <2>2. w \in Threads /\ at[w] = "writer waiting" /\ w # t
    BY <2>1 DEF In
  <2>3. w \in In({"writer woken"})'
    BY <1>1, <2>1, <2>2 DEF In
  <2> QED
    BY <1>1, <2>1, <2>2, <2>3 DEF Woken
<1> QED
  BY <1>2, <1>3

(* The last reader to leave wakes up a writer. *)
LEMMA ReadUnlockKeeps ==
    ASSUME Inv, NEW t \in Threads, ReadUnlock(t)
    PROVE  Inv'
<1>1. TypeOK /\ CountersTell /\ at \in [Threads -> Places] /\ at[t] = "reading"
  BY Counted DEF Inv, TypeOK, ReadUnlock
<1>2. readers' = readers - 1 /\ UNCHANGED <<readWaiters, writers, writeWaiters>>
  BY DEF ReadUnlock
<1>3. /\ at' \in [Threads -> Places] /\ at'[t] = "idle"
      /\ \A u \in Threads \ {t} : Woken(u)
      /\ WriterAsks # {} => In({"writer woken"})' # {}
  <2>1. CASE writeWaiters > 0
    BY <1>1, <2>1, NotifyWriterWakes DEF ReadUnlock
  <2>2. CASE ~(writeWaiters > 0)
    <3>1. at' = [at EXCEPT ![t] = "idle"] /\ WriterAsks = {}
      BY <1>1, <2>2 DEF ReadUnlock, CountersTell
    <3> QED
      BY <1>1, <3>1 DEF Woken, Places
  <2> QED
    BY <2>1, <2>2
<1>4. /\ R' = R \ {t} /\ W' = W \ {t} /\ RW' = RW /\ WriterAsks' = WriterAsks
      /\ In({"reader waiting"})' \subseteq In({"reader waiting"})
  BY <1>1, <1>3, UnlockSets
<1>5. t \in R /\ t \notin W /\ R \in SUBSET Threads
  BY <1>1 DEF R, W, In
<1>6. TypeOK'
  <2>1. Cardinality(R') = Cardinality(R) - 1 /\ W' = W
    BY <1>4, <1>5, Leaves
  <2> QED
    BY <1>1, <1>2, <1>3, <1>4, <2>1 DEF TypeOK, R, RW, W
<1>7. Exclusion'
  BY <1>1, <1>3 DEF Inv, Exclusion, Woken
<1>8. NoLostWakeup'
  BY <1>2, <1>3, <1>4 DEF Inv, NoLostWakeup, MayRead
<1> QED
  BY <1>6, <1>7, <1>8 DEF Inv

(* A writer that leaves wakes up a writer, or all readers. *)
LEMMA WriteUnlockKeeps ==
    ASSUME Inv, NEW t \in Threads, WriteUnlock(t)
    PROVE  Inv'
<1>1. TypeOK /\ CountersTell /\ at \in [Threads -> Places] /\ at[t] = "writing"
  BY Counted DEF Inv, TypeOK, WriteUnlock
<1>2. writers' = writers - 1 /\ UNCHANGED <<readers, readWaiters, writeWaiters>>
  BY DEF WriteUnlock
<1>3. /\ at' \in [Threads -> Places] /\ at'[t] = "idle"
      /\ \A u \in Threads \ {t} : Woken(u)
      /\ WriterAsks # {} => In({"writer woken"})' # {}
      /\ WriterAsks = {} => In({"reader waiting"})' = {}
  <2>1. CASE writeWaiters > 0
    <3>1. WriterAsks # {}
      BY <1>1, <2>1 DEF CountersTell
    <3> QED
      BY <1>1, <2>1, <3>1, NotifyWriterWakes DEF WriteUnlock
  <2>2. CASE ~(writeWaiters > 0)
    <3>1. NotifyReaders(t) /\ WriterAsks = {}
      BY <1>1, <2>2 DEF WriteUnlock, CountersTell
    <3>2. /\ at' \in [Threads -> Places] /\ at'[t] = "idle"
          /\ \A u \in Threads \ {t} : Woken(u)
      BY <1>1, <3>1 DEF NotifyReaders, Woken, Places
    <3>3. In({"reader waiting"})' = {}
      BY <1>1, <3>1 DEF NotifyReaders, In
    <3> QED
      BY <3>1, <3>2, <3>3
  <2> QED
    BY <2>1, <2>2
<1>4. R' = R \ {t} /\ W' = W \ {t} /\ RW' = RW /\ WriterAsks' = WriterAsks
  BY <1>1, <1>3, UnlockSets
<1>5. t \in W /\ t \notin R /\ W \in SUBSET Threads
  BY <1>1 DEF R, W, In
<1>6. TypeOK'
  <2>1. Cardinality(W') = Cardinality(W) - 1 /\ R' = R
    BY <1>4, <1>5, Leaves
  <2> QED
    BY <1>1, <1>2, <1>3, <1>4, <2>1 DEF TypeOK, R, RW, W
<1>7. Exclusion'
  BY <1>1, <1>3 DEF Inv, Exclusion, Woken
<1>8. NoLostWakeup'
  <2>1. MayRead' => WriterAsks = {}
    BY <1>1, <1>2 DEF MayRead, CountersTell
  <2> QED
    BY <1>3, <1>4, <2>1 DEF NoLostWakeup
<1> QED
  BY <1>6, <1>7, <1>8 DEF Inv

(* Every step keeps the invariant. *)
LEMMA InvNext == Inv /\ [Next]_vars => Inv'
<1> SUFFICES ASSUME Inv, [Next]_vars PROVE Inv'
  OBVIOUS
<1>1. CASE UNCHANGED vars
  BY <1>1 DEF Inv, TypeOK, Exclusion, NoLostWakeup, MayRead, MayWrite, WriterAsks, In, vars
<1>2. ASSUME NEW t \in Threads,
             \/ ReadLock(t) \/ ReadWait(t) \/ WriteLock(t) \/ WriteWait(t)
             \/ SpuriousWakeup(t) \/ Proceed(t)
      PROVE  Inv'
  BY <1>2, ReadLockKeeps, ReadWaitKeeps, ReadEnterKeeps, ReadWaitAgainKeeps, ReadUnlockKeeps,
     WriteLockKeeps, WriteWaitKeeps, WriteEnterKeeps, WriteWaitAgainKeeps, WriteUnlockKeeps,
     SpuriousWakeupKeeps DEF Proceed
<1> QED
  BY <1>1, <1>2 DEF Next

(* The invariant holds in every reachable state. *)
LEMMA InvHolds == Spec => []Inv
BY InvInit, InvNext, PTL DEF Spec

(* The counters count the threads that read, write and wait. *)
THEOREM TypeCorrect == Spec => []TypeOK
BY InvHolds, PTL DEF Inv

(* A writer has the lock alone, however many threads there are. *)
THEOREM MutualExclusion == Spec => []Exclusion
BY InvHolds, PTL DEF Inv

(* Whenever the lock is free for a thread that waits, somebody is awake to take *)
(* it: no wait depends on a notification that was already given.                *)
THEOREM WakeupsSuffice == Spec => []NoLostWakeup
BY InvHolds, PTL DEF Inv

(* No thread becomes a reader while a writer waits. *)
THEOREM ReadersGiveWay == Spec => WritersFirst
<1>1. ASSUME Inv, [Next]_vars
      PROVE  [WriterAsks # {} => In({"reading"})' \subseteq In({"reading"})]_vars
  <2> SUFFICES ASSUME WriterAsks # {}, NEW u \in In({"reading"})', u \notin In({"reading"}), Next
               PROVE  FALSE
    BY <1>1
  <2>1. ~MayRead /\ at \in [Threads -> Places]
    BY <1>1, Counted DEF Inv, TypeOK, MayRead, CountersTell
  <2>2. u \in Threads /\ at'[u] = "reading" /\ at[u] # "reading"
    BY DEF In
  <2> QED
    BY <2>1, <2>2 DEF Next, Proceed, ReadLock, ReadWait, ReadEnter, ReadWaitAgain, ReadUnlock,
       WriteLock, WriteWait, WriteEnter, WriteWaitAgain, WriteUnlock, SpuriousWakeup,
       NotifyWriter, NotifyReaders, In
<1> QED
  BY <1>1, InvHolds, PTL DEF Spec, WritersFirst
=============================================================================
