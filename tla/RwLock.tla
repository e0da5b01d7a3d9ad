------------------------------- MODULE RwLock -------------------------------
(***************************************************************************)
(* thread/RwLock: a lock for many readers or one writer, made of a mutex,  *)
(* two condition variables and four counters.                              *)
(*                                                                         *)
(* What a call does while it holds mutex_ is one step.  A thread blocked   *)
(* in a condition variable is "waiting"; once notified it is "woken" and   *)
(* tests its predicate when it gets the mutex.  Condition variables may    *)
(* also wake up spuriously.  The counters start at zero: the constructor   *)
(* is declared and not defined.                                            *)
(***************************************************************************)
EXTENDS Naturals, FiniteSets

CONSTANT Threads

ASSUME ThreadsAssumption == IsFiniteSet(Threads)

VARIABLES
    at,         \* where each thread is
    readers,    \* readers_
    readWaiters,    \* read_waiters_
    writers,    \* writers_
    writeWaiters    \* write_waiters_

vars == <<at, readers, readWaiters, writers, writeWaiters>>

Places == {"idle", "reading", "reader waiting", "reader woken",
           "writing", "writer waiting", "writer woken"}

In(places) == {t \in Threads : at[t] \in places}

Init ==
    /\ at = [t \in Threads |-> "idle"]
    /\ readers = 0 /\ readWaiters = 0 /\ writers = 0 /\ writeWaiters = 0

----------------------------------------------------------------------------
(* read_lock() *)

(* The predicate of rcond_, and the test before it. *)
MayRead == writers = 0 /\ writeWaiters = 0

ReadLock(t) ==
    /\ at[t] = "idle" /\ MayRead
    /\ at' = [at EXCEPT ![t] = "reading"]
    /\ readers' = readers + 1
    /\ UNCHANGED <<readWaiters, writers, writeWaiters>>

ReadWait(t) ==
    /\ at[t] = "idle" /\ ~MayRead
    /\ at' = [at EXCEPT ![t] = "reader waiting"]
    /\ readWaiters' = readWaiters + 1
    /\ UNCHANGED <<readers, writers, writeWaiters>>

ReadEnter(t) ==
    /\ at[t] = "reader woken" /\ MayRead
    /\ at' = [at EXCEPT ![t] = "reading"]
    /\ readWaiters' = readWaiters - 1
    /\ readers' = readers + 1
    /\ UNCHANGED <<writers, writeWaiters>>

ReadWaitAgain(t) ==
    /\ at[t] = "reader woken" /\ ~MayRead
    /\ at' = [at EXCEPT ![t] = "reader waiting"]
    /\ UNCHANGED <<readers, readWaiters, writers, writeWaiters>>

(* notify_one() of wcond_, in a step that takes t back to idle. *)
NotifyWriter(t) ==
    IF In({"writer waiting"}) = {} THEN at' = [at EXCEPT ![t] = "idle"]
    ELSE \E w \in In({"writer waiting"}) :
            at' = [at EXCEPT ![t] = "idle", ![w] = "writer woken"]

ReadUnlock(t) ==
    /\ at[t] = "reading"
    /\ readers' = readers - 1
    /\ IF writeWaiters > 0 THEN NotifyWriter(t) ELSE at' = [at EXCEPT ![t] = "idle"]
    /\ UNCHANGED <<readWaiters, writers, writeWaiters>>

----------------------------------------------------------------------------
(* write_lock() *)

(* Mutant: a writer only waits for readers. *)
MayWriteBesides == readers = 0

(* The predicate of wcond_, and the test before it. *)
MayWrite == readers = 0 /\ writers = 0

WriteLock(t) ==
    /\ at[t] = "idle" /\ MayWrite
    /\ at' = [at EXCEPT ![t] = "writing"]
    /\ writers' = writers + 1
    /\ UNCHANGED <<readers, readWaiters, writeWaiters>>

WriteWait(t) ==
    /\ at[t] = "idle" /\ ~MayWrite
    /\ at' = [at EXCEPT ![t] = "writer waiting"]
    /\ writeWaiters' = writeWaiters + 1
    /\ UNCHANGED <<readers, readWaiters, writers>>

WriteEnter(t) ==
    /\ at[t] = "writer woken" /\ MayWrite
    /\ at' = [at EXCEPT ![t] = "writing"]
    /\ writeWaiters' = writeWaiters - 1
    /\ writers' = writers + 1
    /\ UNCHANGED <<readers, readWaiters>>

WriteWaitAgain(t) ==
    /\ at[t] = "writer woken" /\ ~MayWrite
    /\ at' = [at EXCEPT ![t] = "writer waiting"]
    /\ UNCHANGED <<readers, readWaiters, writers, writeWaiters>>

(* notify_all() of rcond_, in a step that takes t back to idle. *)
NotifyReaders(t) ==
    at' = [u \in Threads |-> IF u = t THEN "idle"
                             ELSE IF at[u] = "reader waiting" THEN "reader woken" ELSE at[u]]

(* Mutant: writers that wait are woken up, readers never. *)
WriteUnlockWriters(t) ==
    /\ at[t] = "writing"
    /\ writers' = writers - 1
    /\ NotifyWriter(t)
    /\ UNCHANGED <<readers, readWaiters, writeWaiters>>

WriteUnlock(t) ==
    /\ at[t] = "writing"
    /\ writers' = writers - 1
    /\ IF writeWaiters > 0 THEN NotifyWriter(t) ELSE NotifyReaders(t)
    /\ UNCHANGED <<readers, readWaiters, writeWaiters>>

----------------------------------------------------------------------------
SpuriousWakeup(t) ==
    /\ at[t] \in {"reader waiting", "writer waiting"}
    /\ at' = [at EXCEPT ![t] = IF at[t] = "reader waiting" THEN "reader woken" ELSE "writer woken"]
    /\ UNCHANGED <<readers, readWaiters, writers, writeWaiters>>

(* What a thread does on its own once it has called read_lock() or write_lock(). *)
Proceed(t) ==
    \/ ReadEnter(t) \/ ReadWaitAgain(t) \/ ReadUnlock(t)
    \/ WriteEnter(t) \/ WriteWaitAgain(t) \/ WriteUnlock(t)

Next ==
    \E t \in Threads :
        \/ ReadLock(t) \/ ReadWait(t) \/ WriteLock(t) \/ WriteWait(t)
        \/ SpuriousWakeup(t)
        \/ Proceed(t)

Spec == Init /\ [][Next]_vars

(* A thread that was woken up gets the mutex, and one that has the lock gives   *)
(* it back.  Nobody has to ask for the lock, and nothing wakes up by itself.    *)
LiveSpec == Spec /\ \A t \in Threads : WF_vars(Proceed(t))

----------------------------------------------------------------------------
(* Properties *)

WriterAsks == In({"writer waiting", "writer woken"})

(* Every variable has its type, and the counters count. *)
TypeOK ==
    /\ at \in [Threads -> Places]
    /\ readers = Cardinality(In({"reading"}))
    /\ readWaiters = Cardinality(In({"reader waiting", "reader woken"}))
    /\ writers = Cardinality(In({"writing"}))
    /\ writeWaiters = Cardinality(WriterAsks)

(* Rules 1, 2 and 4 of RwLock.h (lines 19-22): a writer shares the lock with    *)
(* nobody.                                                                      *)
Exclusion ==
    \A s, t \in Threads :
        at[s] = "writing" /\ at[t] \in {"reading", "writing"} => s = t

(* Rule 3 (line 21): while a writer waits, or is on its way from waiting, no    *)
(* thread becomes a reader.                                                     *)
WritersFirst ==
    [][WriterAsks # {} => In({"reading"})' \subseteq In({"reading"})]_vars

(* No notification is lost (lines 55-57, 77-82): when the lock is free for a    *)
(* waiting writer some writer is awake, and when it is free for readers they    *)
(* all are.                                                                     *)
NoLostWakeup ==
    /\ MayWrite /\ WriterAsks # {} => In({"writer woken"}) # {}
    /\ MayRead => In({"reader waiting"}) = {}

(* If writers stay away from some time on, every reader that waits gets in: the *)
(* last writer to leave has woken them all.                                     *)
ReadersResume ==
    <>[](In({"writing"}) \cup WriterAsks = {})
        => \A t \in Threads : at[t] = "reader waiting" ~> at[t] = "reading"
=============================================================================
