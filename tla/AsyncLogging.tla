---------------------------- MODULE AsyncLogging ----------------------------
(***************************************************************************)
(* logging/AsyncLoggingDoubleBuffering: any threads append lines to a      *)
(* buffer, a backend thread takes full buffers, and at intervals the       *)
(* current one, and writes them to its own LogFile, which has no mutex     *)
(* (module LogFile).                                                       *)
(*                                                                         *)
(* append() and the critical zone of the backend hold mutex_ and are one   *)
(* step each.  running_ is read and written without it.  A buffer holds    *)
(* Capacity lines; lines are numbered.  Using a null buffer crashes.       *)
(*                                                                         *)
(* Or there is no backend (at = "none") and the threads log straight to a  *)
(* LogFile that has a mutex.                                               *)
(***************************************************************************)
EXTENDS LogFile

CONSTANTS
    Capacity,   \* lines that fit in a LargeBuffer
    Null        \* a unique_ptr that holds nothing

ASSUME CapacityAssumption == Capacity \in Nat \ {0}
ASSUME NullAssumption == Null \notin Seq(Nat)

VARIABLES
    current,    \* currentBuffer_
    next,       \* nextBuffer_
    buffers,    \* buffers_
    new1,       \* newBuffer1 of threadFunc()
    new2,       \* newBuffer2
    toWrite,    \* buffersToWrite
    running,    \* running_
    at,         \* where the backend is
    notified,   \* it has been notified while waiting
    stopping,   \* where stop() is
    lines,      \* history: lines appended
    crashed     \* history: a null buffer was used

vars == <<logVars, current, next, buffers, new1, new2, toWrite, running, at, notified, stopping,
          lines, crashed>>

shared == <<current, next, buffers>>
spare == <<new1, new2>>

(* The constructor and start(); the backend's own two buffers are made. *)
Init ==
    /\ current = <<>> /\ next = <<>> /\ buffers = <<>>
    /\ new1 = <<>> /\ new2 = <<>> /\ toWrite = <<>>
    /\ running = TRUE /\ at \in {"loop", "none"} /\ notified = FALSE /\ stopping = "no"
    /\ LogInit /\ lines = 0 /\ crashed = FALSE

Notify == notified' = (notified \/ at = "waiting")

Crash ==
    /\ crashed' = TRUE
    /\ UNCHANGED <<shared, spare, toWrite, running, at, notified, stopping, logVars, lines>>

----------------------------------------------------------------------------
(* append(), by any thread *)

AppendFits ==
    /\ ~crashed /\ at # "none" /\ lines < MaxLines
    /\ current # Null /\ Len(current) < Capacity
    /\ lines' = lines + 1
    /\ current' = Append(current, lines + 1)
    /\ UNCHANGED <<next, buffers, spare, toWrite, running, at, notified, stopping, logVars, crashed>>

(* The full buffer joins buffers_; the next one, or a new one, is used. *)
AppendFull ==
    /\ ~crashed /\ at # "none" /\ lines < MaxLines
    /\ current # Null /\ Len(current) = Capacity
    /\ lines' = lines + 1
    /\ buffers' = Append(buffers, current)
    /\ current' = <<lines + 1>>
    /\ next' = Null
    /\ Notify
    /\ UNCHANGED <<spare, toWrite, running, at, stopping, logVars, crashed>>

AppendNull ==
    /\ ~crashed /\ lines < MaxLines /\ current = Null
    /\ Crash

----------------------------------------------------------------------------
(* threadFunc() *)

(* Mutant: the current buffer is put before the full ones. *)
SwapFirst ==
    /\ toWrite' = <<current>> \o buffers
    /\ buffers' = <<>>
    /\ current' = new1
    /\ IF next = Null THEN next' = new2 /\ new2' = Null ELSE UNCHANGED <<next, new2>>
    /\ new1' = Null

(* The critical zone, after the wait: the current buffer joins the full ones,   *)
(* the spare buffers are moved to where they are needed.                        *)
Swap ==
    /\ toWrite' = Append(buffers, current)
    /\ buffers' = <<>>
    /\ current' = new1
    /\ IF next = Null THEN next' = new2 /\ new2' = Null ELSE UNCHANGED <<next, new2>>
    /\ new1' = Null

TestRunning ==
    /\ ~crashed /\ at = "loop"
    /\ IF running THEN at' = "enter" /\ UNCHANGED file ELSE at' = "done" /\ FlushFile
    /\ UNCHANGED <<now, relocking, shared, spare, toWrite, running, notified, stopping, lines, crashed>>

Wait ==
    /\ ~crashed /\ at = "enter" /\ buffers = <<>>
    /\ at' = "waiting"
    /\ notified' = FALSE
    /\ UNCHANGED <<shared, spare, toWrite, running, stopping, logVars, lines, crashed>>

TakeBuffers ==
    /\ ~crashed /\ at = "enter" /\ buffers # <<>>
    /\ at' = "writing"
    /\ Swap
    /\ UNCHANGED <<running, notified, stopping, logVars, lines, crashed>>

(* Mutant: wait() instead of wait_for(). *)
WakeUpNotified ==
    /\ ~crashed /\ at = "waiting" /\ notified
    /\ at' = "writing"
    /\ Swap
    /\ UNCHANGED <<running, notified, stopping, logVars, lines, crashed>>

(* wait_for() returns when notified or after flushInterval_. *)
WakeUp ==
    /\ ~crashed /\ at = "waiting"
    /\ at' = "writing"
    /\ Swap
    /\ UNCHANGED <<running, notified, stopping, logVars, lines, crashed>>

WriteBuffer ==
    /\ ~crashed /\ at = "writing" /\ toWrite # <<>> /\ Head(toWrite) # Null
    /\ AppendUnlocked(Head(toWrite), FALSE)
    /\ toWrite' = Tail(toWrite)
    /\ UNCHANGED <<now, shared, spare, running, at, notified, stopping, lines, crashed>>

WriteNull ==
    /\ ~crashed /\ at = "writing" /\ toWrite # <<>> /\ Head(toWrite) = Null
    /\ Crash

(* The refill declares two new variables in the loop body, which are destroyed  *)
(* at its end: newBuffer1 and newBuffer2 of the function stay as they are.      *)
Refill == UNCHANGED spare

Written ==
    /\ ~crashed /\ at = "writing" /\ toWrite = <<>>
    /\ Refill
    /\ FlushFile
    /\ at' = "loop"
    /\ UNCHANGED <<now, shared, toWrite, running, notified, stopping, lines, crashed>>

----------------------------------------------------------------------------
(* stop() *)

StopSet ==
    /\ ~crashed /\ at # "none" /\ stopping = "no"
    /\ stopping' = "set"
    /\ running' = FALSE
    /\ UNCHANGED <<shared, spare, toWrite, at, notified, logVars, lines, crashed>>

StopNotify ==
    /\ ~crashed /\ stopping = "set"
    /\ stopping' = "joining"
    /\ Notify
    /\ UNCHANGED <<shared, spare, toWrite, running, at, logVars, lines, crashed>>

StopJoin ==
    /\ ~crashed /\ stopping = "joining" /\ at = "done"
    /\ stopping' = "stopped"
    /\ UNCHANGED <<shared, spare, toWrite, running, at, notified, logVars, lines, crashed>>

(* append() and flush() of the LogFile, by any thread, without a backend. *)
DirectAppend ==
    /\ at = "none"
    /\ SafeAppend
    /\ lines' = lines + 1
    /\ UNCHANGED <<shared, spare, toWrite, running, at, notified, stopping, crashed>>

DirectFlush ==
    /\ at = "none"
    /\ SafeFlush
    /\ UNCHANGED <<shared, spare, toWrite, running, at, notified, stopping, lines, crashed>>

Backend == TestRunning \/ Wait \/ TakeBuffers \/ WakeUp \/ WriteBuffer \/ WriteNull \/ Written

TimePasses ==
    /\ ~crashed
    /\ Tick
    /\ UNCHANGED <<shared, spare, toWrite, running, at, notified, stopping, lines, crashed>>

Next ==
    \/ AppendFits \/ AppendFull \/ AppendNull
    \/ TestRunning \/ Wait \/ TakeBuffers \/ WakeUp \/ WriteBuffer \/ WriteNull \/ Written
    \/ StopSet \/ StopNotify \/ StopJoin
    \/ DirectAppend \/ DirectFlush
    \/ TimePasses

Spec == Init /\ [][Next]_vars

(* The backend keeps running and a call of stop() proceeds; nobody has to log   *)
(* or to stop.                                                                  *)
LiveSpec == Spec /\ WF_vars(Backend) /\ WF_vars(StopNotify) /\ WF_vars(StopJoin)

----------------------------------------------------------------------------
(* Properties *)

Content(b) == IF b = Null THEN <<>> ELSE b
Contents(bs) == FlattenSeq([i \in 1..Len(bs) |-> Content(bs[i])])

(* Until the process crashes, the files in the order of their names, stdio, the *)
(* buffers the backend holds, the full buffers and the current one are together *)
(* the lines in the order of their append(), none lost and none twice, through  *)
(* swaps and through rolls by size, by day and twice in a second                *)
(* (AsyncLoggingDoubleBuffering.h 57-111, LogFile.cc 108-137).                  *)
LinesInOrder ==
    Logged \o Contents(toWrite) \o Contents(buffers) \o Content(current) = [i \in 1..lines |-> i]

(* stop() returns, or the process crashes: although running_ changes without    *)
(* the mutex and the notification may come before the wait, wait_for() ends     *)
(* (AsyncLoggingDoubleBuffering.h 50-54, 93-98).                                *)
StopReturns == (stopping # "no") ~> (stopping = "stopped" \/ crashed)

=============================================================================
