------------------------------- MODULE Buffer -------------------------------
(***************************************************************************)
(* io/Buffer: one vector of bytes with a reader and a writer index, and a  *)
(* few bytes kept free in front.  It grows, or moves what is readable to   *)
(* the front, when an append does not fit.                                 *)
(*                                                                         *)
(* Positions count from 1: byte begin()[i] of the code is buffer[i + 1].   *)
(* The bytes appended are numbered 1, 2, 3, ... ; 0 is a byte nobody wrote *)
(***************************************************************************)
EXTENDS Integers

CONSTANTS
    kCheapPrepend,
    kInitialSize,
    ExtraBuf,   \* sizeof extrabuf in readFd()
    MaxBytes    \* bound: bytes ever appended

ASSUME SizesAssumption ==
    /\ kCheapPrepend \in Nat /\ kInitialSize \in Nat /\ ExtraBuf \in Nat
    /\ MaxBytes \in Nat

VARIABLES
    buffer,     \* buffer_
    size,       \* buffer_.size()
    reader,     \* readerIndex_
    writer,     \* writerIndex_
    put,        \* history: bytes appended so far
    taken,      \* history: bytes retrieved so far
    peak        \* history: the most bytes that were ever readable

bufferVars == <<buffer, size, reader, writer, put, taken, peak>>

readableBytes == writer - reader
writableBytes == size - writer
prependableBytes == reader

BufferInit ==
    /\ size = kCheapPrepend + kInitialSize
    /\ buffer = [i \in 1..size |-> 0]
    /\ reader = kCheapPrepend
    /\ writer = kCheapPrepend
    /\ put = 0 /\ taken = 0 /\ peak = 0

Contents == [buffer |-> buffer, size |-> size, reader |-> reader, writer |-> writer]

(* resize(): new bytes are zero. *)
Grown(c, len) ==
    [buffer |-> [i \in 1..(c.writer + len) |-> IF i <= c.size THEN c.buffer[i] ELSE 0],
     size |-> c.writer + len,
     reader |-> c.reader,
     writer |-> c.writer]

(* The readable bytes are copied to the front. *)
Moved(c) ==
    [buffer |-> [i \in 1..c.size |->
                    IF kCheapPrepend < i /\ i <= kCheapPrepend + (c.writer - c.reader)
                    THEN c.buffer[i - kCheapPrepend + c.reader] ELSE c.buffer[i]],
     size |-> c.size,
     reader |-> kCheapPrepend,
     writer |-> kCheapPrepend + (c.writer - c.reader)]

(* Mutant: the buffer always grows. *)
MustGrowAlways(c, len) == TRUE

(* makeSpace(): the free bytes behind and in front together are too few, *)
(* kCheapPrepend of them being kept.                                     *)
MustGrow(c, len) == c.size - c.writer + c.reader < len + kCheapPrepend

MakeSpace(c, len) == IF MustGrow(c, len) THEN Grown(c, len) ELSE Moved(c)

EnsureWritable(c, len) == IF c.size - c.writer < len THEN MakeSpace(c, len) ELSE c

(* std::copy() of len bytes, the first numbered from + 1, to beginWrite(), and  *)
(* hasWritten().                                                                *)
Written(c, from, len) ==
    [buffer |-> [i \in 1..c.size |-> IF c.writer < i /\ i <= c.writer + len
                                     THEN from + (i - c.writer) ELSE c.buffer[i]],
     size |-> c.size,
     reader |-> c.reader,
     writer |-> c.writer + len]

Store(c, n) ==
    /\ put' = put + n
    /\ buffer' = c.buffer /\ size' = c.size
    /\ reader' = c.reader /\ writer' = c.writer
    /\ peak' = IF c.writer - c.reader > peak THEN c.writer - c.reader ELSE peak
    /\ UNCHANGED taken

(* append(): makes sure there is room, then copies. *)
AppendBytes(len) ==
    /\ put + len <= MaxBytes
    /\ Store(Written(EnsureWritable(Contents, len), put, len), len)

(* readFd(): readv() fills the writable bytes first and then extrabuf, which is *)
(* appended.  An error changes nothing.                                         *)
ReadFd(n) ==
    /\ n <= writableBytes + ExtraBuf
    /\ put + n <= MaxBytes
    /\ IF n <= writableBytes
       THEN Store(Written(Contents, put, n), n)
       ELSE LET full == Written(Contents, put, writableBytes)
                rest == n - writableBytes
            IN Store(Written(EnsureWritable(full, rest), put + writableBytes, rest), n)

(* retrieve(): its assertion is the caller's obligation. *)
Retrieve(len) ==
    /\ len <= readableBytes
    /\ reader' = reader + len
    /\ taken' = taken + len
    /\ UNCHANGED <<buffer, size, writer, put, peak>>

(* Mutant: only the reader index is reset. *)
RetrieveAllReader ==
    /\ reader' = kCheapPrepend
    /\ taken' = put
    /\ UNCHANGED <<writer, buffer, size, put, peak>>

(* retrieveAll() and retrieveAsString() *)
RetrieveAll ==
    /\ reader' = kCheapPrepend
    /\ writer' = kCheapPrepend
    /\ taken' = put
    /\ UNCHANGED <<buffer, size, put, peak>>

BufferNext ==
    \/ \E n \in 0..MaxBytes : AppendBytes(n) \/ ReadFd(n) \/ Retrieve(n)
    \/ RetrieveAll

BufferSpec == BufferInit /\ [][BufferNext]_bufferVars

----------------------------------------------------------------------------
(* Properties *)

(* Every variable has its type, and the indices are in order inside the vector. *)
BufferTypeOK ==
    /\ size \in Nat /\ reader \in Nat /\ writer \in Nat
    /\ put \in 0..MaxBytes /\ taken \in Nat /\ peak \in Nat
    /\ buffer \in [1..size -> Nat]
    /\ kCheapPrepend <= reader /\ reader <= writer /\ writer <= size

(* The readable bytes are exactly the bytes appended and not yet retrieved, in  *)
(* their order, through every resize and move (Buffer.h 107-154, Buffer.cc).    *)
ReadableInOrder ==
    /\ put = taken + readableBytes
    /\ \A i \in 1..readableBytes : buffer[reader + i] = taken + i

(* The assertions of makeSpace() and ensureWritableBytes() (Buffer.h 124, 145)  *)
(* hold of whatever is asked for next: data is only moved when there is a gap   *)
(* in front of it, and afterwards len bytes fit.                                *)
SpaceIsMade ==
    \A len \in 0..MaxBytes :
        /\ len > writableBytes /\ ~MustGrow(Contents, len) => kCheapPrepend < reader
        /\ LET c == EnsureWritable(Contents, len) IN c.size - c.writer >= len

(* Moving before growing keeps the vector within twice the largest amount of    *)
(* unread data there ever was (Buffer.h 138-154): a long-lived connection whose *)
(* data is consumed does not grow its buffer without end.                       *)
GrowthBounded ==
    \/ size = kCheapPrepend + kInitialSize
    \/ size <= kCheapPrepend + 2 * peak

(* The vector and its two indices implement a queue of bytes. *)
Queue == INSTANCE ByteQueue WITH front <- [i \in 1..readableBytes |-> buffer[reader + i]]

RefinesByteQueue == Queue!Spec
=============================================================================
