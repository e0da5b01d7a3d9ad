------------------------------ MODULE LogFile -------------------------------
(***************************************************************************)
(* logging/LogFile: threads append to a file that is rolled when it is     *)
(* full or a new day begins, and flushed at intervals.                     *)
(*                                                                         *)
(* A line has length 1; what append() is given is a sequence of numbered   *)
(* lines.  stdio keeps what was written in a buffer that reaches the disk  *)
(* when the File is flushed or closed.  A file is named by the second in   *)
(* which it was opened, for appending.  A call that holds mutex_, or comes *)
(* from the only thread there is, is one step.                             *)
(***************************************************************************)
EXTENDS Naturals, Sequences, SequencesExt

CONSTANTS
    rollSize,       \* rollSize_
    flushInterval,  \* flushInterval_
    SecondsPerDay,  \* kSecondsPerDay_
    MaxNow,         \* bound: seconds
    MaxLines        \* bound: lines appended

ASSUME NumbersAssumption ==
    /\ rollSize \in Nat /\ flushInterval \in Nat /\ MaxNow \in Nat /\ MaxLines \in Nat
    /\ SecondsPerDay \in Nat \ {0}

VARIABLES
    now,        \* time(NULL)
    name,       \* name of the open file
    stdio,      \* lines in the open File's stdio buffer
    disk,       \* lines in each file
    written,    \* writtenBytes_ of the open File
    startDay,   \* startDay_
    lastFlush,  \* lastFlushTime_
    stamps,     \* history: when each line was handed to append()
    relocking   \* an append() that holds mutex_ wants it again

file == <<name, stdio, disk, written, startDay, lastFlush, stamps>>
logVars == <<now, file, relocking>>

(* The constructor rolls to a first file. *)
LogInit ==
    /\ now = 0 /\ name = 0 /\ stdio = <<>>
    /\ disk = [s \in 0..MaxNow |-> <<>>]
    /\ written = 0 /\ startDay = 0 /\ lastFlush = 0
    /\ stamps = <<>> /\ relocking = FALSE

Tick ==
    /\ now < MaxNow
    /\ now' = now + 1
    /\ UNCHANGED <<file, relocking>>

(* fflush() or fclose() of a File with buf in its buffer. *)
WriteOut(buf) == disk' = [disk EXCEPT ![name] = @ \o buf]

(* rollFile(): opens the file of this second, then closes the old File, which   *)
(* writes its buffer out.                                                       *)
RollFile(buf) ==
    /\ WriteOut(buf)
    /\ name' = now
    /\ stdio' = <<>>
    /\ written' = 0
    /\ startDay' = now \div SecondsPerDay
    /\ lastFlush' = now

(* Mutant: a file is only rolled when it is full. *)
MustRollBySize(size) == size > rollSize

MustRoll(size) == size > rollSize \/ now \div SecondsPerDay # startDay

FlushDue == now - lastFlush > flushInterval

(* append_unlocked(): write, then roll, or flush, or neither.  safe is whether  *)
(* the caller holds mutex_: then flush() waits for it, and for ever.            *)
AppendUnlocked(logline, safe) ==
    LET buf == stdio \o logline
        size == written + Len(logline)
    IN /\ stamps' = stamps \o [i \in 1..Len(logline) |-> now]
       /\ \/ /\ MustRoll(size)
             /\ RollFile(buf)
             /\ UNCHANGED relocking
          \/ /\ ~MustRoll(size) /\ FlushDue
             /\ written' = size
             /\ lastFlush' = now
             /\ relocking' = safe
             /\ IF safe THEN stdio' = buf /\ UNCHANGED disk ELSE stdio' = <<>> /\ WriteOut(buf)
             /\ UNCHANGED <<name, startDay>>
          \/ /\ ~MustRoll(size) /\ ~FlushDue
             /\ written' = size
             /\ stdio' = buf
             /\ UNCHANGED <<name, disk, startDay, lastFlush, relocking>>

(* File::flush(). *)
FlushFile ==
    /\ WriteOut(stdio)
    /\ stdio' = <<>>
    /\ UNCHANGED <<name, written, startDay, lastFlush, stamps, relocking>>

----------------------------------------------------------------------------
(* A LogFile with a mutex, used by any threads. *)

(* append() *)
SafeAppend ==
    /\ ~relocking /\ Len(stamps) < MaxLines
    /\ AppendUnlocked(<<Len(stamps) + 1>>, TRUE)
    /\ UNCHANGED now

(* flush() *)
SafeFlush ==
    /\ ~relocking
    /\ FlushFile
    /\ UNCHANGED now

----------------------------------------------------------------------------
(* All files one after the other, in the order of their names. *)
Files == FlattenSeq([i \in 1..(MaxNow + 1) |-> disk[i - 1]])

(* Everything append() was given. *)
Logged == Files \o stdio

(* The files are rolled per day (LogFile.cc 118-121): all lines of a file are   *)
(* of the day in its name, except that the first write of a later day may end   *)
(* it, the test coming after the write.                                         *)
FilesOfOneDay ==
    \A s \in 0..MaxNow :
        LET content == disk[s] \o (IF s = name THEN stdio ELSE <<>>)
        IN \A i \in 1..Len(content) :
              \/ stamps[content[i]] \div SecondsPerDay = s \div SecondsPerDay
              \/ stamps[content[i]] = stamps[content[Len(content)]]
=============================================================================
