------------------------ MODULE TcpConnectionProofs -------------------------
(***************************************************************************)
(* Proofs about Buffer, for every prepend and initial size, every size of  *)
(* the read buffer and any number of bytes, and about TcpConnection, which *)
(* takes its outputBuffer_ for the queue that a Buffer is shown to be, for *)
(* any number of bytes sent and any size of the kernel's send buffer.      *)
(***************************************************************************)
EXTENDS TcpConnection, Buffer, SequenceTheorems, TLAPS

----------------------------------------------------------------------------
(* io/Buffer *)

(* What the operators on contents preserve: indices in order, and the readable *)
(* bytes are the last ones before number p.                                    *)
Sound(c, p) ==
    /\ c.size \in Nat /\ c.reader \in Nat /\ c.writer \in Nat
    /\ c.buffer \in [1..c.size -> Nat]
    /\ kCheapPrepend <= c.reader /\ c.reader <= c.writer /\ c.writer <= c.size
    /\ \A i \in 1..(c.writer - c.reader) :
          c.buffer[c.reader + i] = p - (c.writer - c.reader) + i

(* A vector that has grown did so for at most pk unread bytes. *)
Modest(c, pk) ==
    \/ c.size = kCheapPrepend + kInitialSize
    \/ c.size <= kCheapPrepend + 2 * pk

(* resize() in makeSpace() makes room behind the readable bytes. *)
LEMMA GrownSound ==
    ASSUME NEW c, NEW p \in Nat, NEW len \in Nat, Sound(c, p), c.size - c.writer < len
    PROVE  /\ Sound(Grown(c, len), p)
           /\ Grown(c, len).size - Grown(c, len).writer >= len
           /\ Grown(c, len).writer - Grown(c, len).reader = c.writer - c.reader
           /\ Grown(c, len).size = c.writer + len
<1> DEFINE g == Grown(c, len)
<1>1. /\ g.size = c.writer + len /\ g.reader = c.reader /\ g.writer = c.writer
      /\ g.buffer = [i \in 1..(c.writer + len) |-> IF i <= c.size THEN c.buffer[i] ELSE 0]
  BY DEF Grown
<1>2. g.buffer \in [1..g.size -> Nat]
  BY <1>1 DEF Sound
<1>3. ASSUME NEW i \in 1..(c.writer - c.reader)
      PROVE  g.buffer[g.reader + i] = p - (c.writer - c.reader) + i
  <2>1. c.reader + i \in 1..c.size /\ c.reader + i \in 1..(c.writer + len)
    BY DEF Sound
  <2> QED
    BY <1>1, <2>1 DEF Sound
<1> HIDE DEF g
<1>4. Sound(g, p)
  BY <1>1, <1>2, <1>3 DEF Sound
<1> QED
  BY <1>1, <1>4 DEF g, Sound

(* The move in makeSpace() keeps the readable bytes, and makes room. *)
LEMMA MovedSound ==
    ASSUME NEW c, NEW p \in Nat, NEW len \in Nat, Sound(c, p), ~MustGrow(c, len)
    PROVE  /\ Sound(Moved(c), p)
           /\ Moved(c).size - Moved(c).writer >= len
           /\ Moved(c).writer - Moved(c).reader = c.writer - c.reader
           /\ Moved(c).size = c.size
<1> USE SizesAssumption
<1> DEFINE m == Moved(c)
<1>1. /\ m.size = c.size /\ m.reader = kCheapPrepend
      /\ m.writer = kCheapPrepend + (c.writer - c.reader)
      /\ m.buffer = [i \in 1..c.size |->
                       IF kCheapPrepend < i /\ i <= kCheapPrepend + (c.writer - c.reader)
                       THEN c.buffer[i - kCheapPrepend + c.reader] ELSE c.buffer[i]]
  BY DEF Moved
<1>2. ASSUME NEW i \in 1..c.size,
             kCheapPrepend < i, i <= kCheapPrepend + (c.writer - c.reader)
      PROVE  i - kCheapPrepend + c.reader \in 1..c.size
  BY <1>2 DEF Sound
<1>3. m.buffer \in [1..m.size -> Nat]
  BY <1>1, <1>2 DEF Sound
<1>4. ASSUME NEW i \in 1..(c.writer - c.reader)
      PROVE  m.buffer[m.reader + i] = p - (c.writer - c.reader) + i
  <2>1. kCheapPrepend + i \in 1..c.size
    BY DEF Sound
  <2>2. m.buffer[kCheapPrepend + i] = c.buffer[kCheapPrepend + i - kCheapPrepend + c.reader]
    <3>1. kCheapPrepend < kCheapPrepend + i
          /\ kCheapPrepend + i <= kCheapPrepend + (c.writer - c.reader)
      BY DEF Sound
    <3> HIDE DEF m
    <3> QED
      BY <1>1, <2>1, <3>1
  <2>3. kCheapPrepend + i - kCheapPrepend + c.reader = c.reader + i
    BY DEF Sound
  <2> QED
    BY <1>1, <2>2, <2>3 DEF Sound
<1> HIDE DEF m
<1>5. Sound(m, p)
  <2>1. /\ m.size \in Nat /\ m.reader \in Nat /\ m.writer \in Nat
        /\ kCheapPrepend <= m.reader /\ m.reader <= m.writer /\ m.writer <= m.size
        /\ m.writer - m.reader = c.writer - c.reader
    BY <1>1 DEF Sound
  <2> QED
    BY <1>3, <1>4, <2>1 DEF Sound
<1>6. /\ m.size - m.writer >= len /\ m.writer - m.reader = c.writer - c.reader
      /\ m.size = c.size
  BY <1>1 DEF Sound, MustGrow
<1> QED
  BY <1>5, <1>6 DEF m

(* ensureWritableBytes(): room for len bytes, nothing lost, and a vector that  *)
(* only grows when it has to.                                                  *)
LEMMA EnsureSound ==
    ASSUME NEW c, NEW p \in Nat, NEW len \in Nat, NEW pk \in Nat,
           Sound(c, p), Modest(c, pk), NEW pk2 \in Nat, pk <= pk2,
           c.writer - c.reader + len <= pk2
    PROVE  /\ Sound(EnsureWritable(c, len), p)
           /\ EnsureWritable(c, len).size - EnsureWritable(c, len).writer >= len
           /\ EnsureWritable(c, len).writer - EnsureWritable(c, len).reader
                = c.writer - c.reader
           /\ Modest(EnsureWritable(c, len), pk2)
<1> USE SizesAssumption
<1>1. CASE c.size - c.writer >= len
  <2>1. EnsureWritable(c, len) = c
    BY <1>1 DEF EnsureWritable, Sound
  <2> QED
    BY <1>1, <2>1 DEF Modest, Sound
<1>2. CASE c.size - c.writer < len /\ MustGrow(c, len)
  <2>1. EnsureWritable(c, len) = Grown(c, len)
    BY <1>2 DEF EnsureWritable, MakeSpace
  <2>2. c.writer + len <= kCheapPrepend + 2 * pk2
    BY <1>2 DEF MustGrow, Sound
  <2> QED
    <3>1. /\ Sound(Grown(c, len), p)
          /\ Grown(c, len).size - Grown(c, len).writer >= len
          /\ Grown(c, len).writer - Grown(c, len).reader = c.writer - c.reader
          /\ Grown(c, len).size = c.writer + len
      BY <1>2, GrownSound
    <3>2. Modest(Grown(c, len), pk2)
      BY <2>2, <3>1 DEF Modest
    <3> QED
      BY <2>1, <3>1, <3>2
<1>3. CASE c.size - c.writer < len /\ ~MustGrow(c, len)
  <2>1. EnsureWritable(c, len) = Moved(c)
    BY <1>3 DEF EnsureWritable, MakeSpace
  <2> QED
    <3>1. /\ Sound(Moved(c), p)
          /\ Moved(c).size - Moved(c).writer >= len
          /\ Moved(c).writer - Moved(c).reader = c.writer - c.reader
          /\ Moved(c).size = c.size
      BY <1>3, MovedSound
    <3>2. Modest(Moved(c), pk2)
      BY <3>1 DEF Modest, Sound
    <3> QED
      BY <2>1, <3>1, <3>2
<1> QED
  BY <1>1, <1>2, <1>3 DEF Sound

(* Copying the next bytes behind the readable ones. *)
LEMMA WrittenSound ==
    ASSUME NEW c, NEW p \in Nat, NEW len \in Nat, Sound(c, p),
           len <= c.size - c.writer
    PROVE  /\ Sound(Written(c, p, len), p + len)
           /\ Written(c, p, len).writer - Written(c, p, len).reader
                = c.writer - c.reader + len
           /\ Written(c, p, len).size = c.size
           /\ Written(c, p, len).writer = c.writer + len
<1> DEFINE w == Written(c, p, len)
<1>1. /\ w.size = c.size /\ w.reader = c.reader /\ w.writer = c.writer + len
      /\ w.buffer = [i \in 1..c.size |-> IF c.writer < i /\ i <= c.writer + len
                                         THEN p + (i - c.writer) ELSE c.buffer[i]]
  BY DEF Written
<1>2. w.buffer \in [1..w.size -> Nat]
  BY <1>1 DEF Sound
<1> HIDE DEF w
<1>3. ASSUME NEW j \in 1..c.size, c.writer < j, j <= c.writer + len
      PROVE  w.buffer[j] = p + (j - c.writer)
  BY <1>1, <1>3
<1>4. ASSUME NEW i \in 1..(w.writer - w.reader)
      PROVE  w.buffer[w.reader + i] = p + len - (w.writer - w.reader) + i
  <2>1. c.reader + i \in 1..c.size
    BY <1>1 DEF Sound
  <2>2. CASE i <= c.writer - c.reader
    <3>1. w.buffer[c.reader + i] = c.buffer[c.reader + i]
      BY <1>1, <2>1, <2>2 DEF Sound
    <3>2. i \in 1..(c.writer - c.reader)
      BY <2>2 DEF Sound
    <3> QED
      BY <1>1, <3>1, <3>2 DEF Sound
  <2>3. CASE i > c.writer - c.reader
    <3>1. c.writer < c.reader + i /\ c.reader + i <= c.writer + len
      BY <1>1, <2>3 DEF Sound
    <3>2. w.buffer[c.reader + i] = p + ((c.reader + i) - c.writer)
      BY <1>3, <2>1, <3>1
    <3> QED
      BY <1>1, <3>2 DEF Sound
  <2> QED
    BY <1>1, <2>2, <2>3 DEF Sound
<1>5. Sound(w, p + len)
  <2>1. /\ w.size \in Nat /\ w.reader \in Nat /\ w.writer \in Nat
        /\ kCheapPrepend <= w.reader /\ w.reader <= w.writer /\ w.writer <= w.size
    BY <1>1 DEF Sound
  <2> QED
    BY <1>2, <1>4, <2>1 DEF Sound
<1>6. w.writer - w.reader = c.writer - c.reader + len
  BY <1>1 DEF Sound
<1> QED
  BY <1>1, <1>5, <1>6 DEF w

----------------------------------------------------------------------------
(* The inductive invariant *)

BufferInv ==
    /\ BufferTypeOK
    /\ put = taken + readableBytes
    /\ Sound(Contents, put)
    /\ Modest(Contents, peak)
    /\ readableBytes <= peak

(* An empty buffer satisfies the invariant. *)
LEMMA BufferStarts == BufferInit => BufferInv
<1> SUFFICES ASSUME BufferInit PROVE BufferInv
  OBVIOUS
<1> USE SizesAssumption DEF BufferInit
<1>1. buffer \in [1..size -> Nat]
  OBVIOUS
<1>2. BufferTypeOK
  BY <1>1 DEF BufferTypeOK
<1> QED
  BY <1>1, <1>2 DEF BufferInv, Sound, Modest, Contents, readableBytes

(* Storing sound contents keeps the invariant. *)
LEMMA StoreKeeps ==
    ASSUME BufferInv, NEW c, NEW n \in Nat, put + n <= MaxBytes, Store(c, n),
           Sound(c, put + n), Modest(c, IF c.writer - c.reader > peak
                                        THEN c.writer - c.reader ELSE peak),
           c.writer - c.reader = readableBytes + n
    PROVE  BufferInv'
<1> USE SizesAssumption
<1>1. /\ put' = put + n /\ buffer' = c.buffer /\ size' = c.size
      /\ reader' = c.reader /\ writer' = c.writer /\ taken' = taken
      /\ peak' = IF c.writer - c.reader > peak THEN c.writer - c.reader ELSE peak
  BY DEF Store
<1>2. put' \in 0..MaxBytes /\ taken' \in Nat /\ peak' \in Nat
  <2>1. put \in Nat /\ taken \in Nat /\ peak \in Nat
    BY DEF BufferInv, BufferTypeOK
  <2>2. c.writer - c.reader \in Nat
    BY DEF Sound
  <2> QED
    BY <1>1, <2>1, <2>2
<1>3. BufferTypeOK'
  BY <1>1, <1>2 DEF BufferTypeOK, Sound
<1>4. Sound(Contents, put)'
  BY <1>1 DEF Sound, Contents
<1>5. Modest(Contents, peak)'
  BY <1>1 DEF Modest, Contents
<1>6. (put = taken + readableBytes)'
  BY <1>1 DEF BufferInv, BufferTypeOK, readableBytes
<1>7. (readableBytes <= peak)'
  BY <1>1, <1>2, <1>3 DEF readableBytes, BufferTypeOK
<1> QED
  BY <1>3, <1>4, <1>5, <1>6, <1>7 DEF BufferInv

(* append(): room is made, then the bytes are written after the readable ones. *)
LEMMA AppendKeeps ==
    ASSUME BufferInv, NEW len \in Nat, AppendBytes(len)
    PROVE  BufferInv'
<1> USE SizesAssumption
<1> DEFINE pk2 == IF readableBytes + len > peak THEN readableBytes + len ELSE peak
           e == EnsureWritable(Contents, len)
           w == Written(e, put, len)
<1>1. /\ put \in Nat /\ peak \in Nat /\ readableBytes \in Nat
      /\ pk2 \in Nat /\ peak <= pk2 /\ readableBytes + len <= pk2
      /\ Contents.writer - Contents.reader = readableBytes
  BY DEF BufferInv, BufferTypeOK, readableBytes, Contents
<1> HIDE DEF pk2
<1>2. /\ Sound(e, put) /\ e.size - e.writer >= len
      /\ e.writer - e.reader = readableBytes /\ Modest(e, pk2)
  BY <1>1, EnsureSound DEF BufferInv
<1> HIDE DEF e
<1>3. /\ Sound(w, put + len) /\ w.writer - w.reader = readableBytes + len
      /\ w.size = e.size
  <2>1. len <= e.size - e.writer
    BY <1>2 DEF Sound
  <2> QED
    BY <1>1, <1>2, <2>1, WrittenSound
<1> HIDE DEF w
<1>4. Modest(w, pk2)
  BY <1>2, <1>3 DEF Modest
<1>5. Modest(w, IF w.writer - w.reader > peak THEN w.writer - w.reader ELSE peak)
  BY <1>3, <1>4 DEF pk2
<1>6. put + len <= MaxBytes /\ Store(w, len)
  BY DEF AppendBytes, w, e
<1> QED
  BY <1>3, <1>5, <1>6, StoreKeeps

(* readFd(): the bytes fit, or the rest comes in through the extra buffer. *)
LEMMA ReadKeeps ==
    ASSUME BufferInv, NEW n \in Nat, ReadFd(n)
    PROVE  BufferInv'
<1> USE SizesAssumption
<1> DEFINE room == writableBytes
           pk2 == IF readableBytes + n > peak THEN readableBytes + n ELSE peak
<1>1. /\ put \in Nat /\ peak \in Nat /\ readableBytes \in Nat /\ room \in Nat
      /\ pk2 \in Nat /\ peak <= pk2 /\ readableBytes + n <= pk2
      /\ Contents.writer - Contents.reader = readableBytes
      /\ Contents.size - Contents.writer = room
      /\ Sound(Contents, put) /\ Modest(Contents, peak)
      /\ put + n <= MaxBytes
  BY DEF BufferInv, BufferTypeOK, readableBytes, writableBytes, Contents, ReadFd
<1>2. CASE n <= room
  <2> DEFINE w == Written(Contents, put, n)
  <2>1. /\ Sound(w, put + n) /\ w.writer - w.reader = readableBytes + n
        /\ w.size = Contents.size
    BY <1>1, <1>2, WrittenSound
  <2>2. Store(w, n)
    BY <1>2 DEF ReadFd
  <2> HIDE DEF w
  <2>3. Modest(w, IF w.writer - w.reader > peak THEN w.writer - w.reader ELSE peak)
    <3> HIDE DEF pk2
    <3>1. Modest(w, pk2)
      <4>1. Contents.size \in Nat
        BY <1>1 DEF Sound
      <4> QED
        BY <1>1, <2>1, <4>1 DEF Modest
    <3> QED
      BY <2>1, <3>1 DEF pk2
  <2> QED
    BY <1>1, <2>1, <2>2, <2>3, StoreKeeps
<1>3. CASE ~(n <= room)
  <2> DEFINE full == Written(Contents, put, room)
             rest == n - room
             e == EnsureWritable(full, rest)
             w == Written(e, put + room, rest)
  <2>1. rest \in Nat /\ room + rest = n /\ put + room \in Nat
    BY <1>1, <1>3
  <2>2. Store(w, n)
    BY <1>3 DEF ReadFd
  <2> HIDE DEF room, rest, pk2
  <2>3. /\ Sound(full, put + room) /\ full.writer - full.reader = readableBytes + room
        /\ full.size = Contents.size
    BY <1>1, WrittenSound
  <2> HIDE DEF full
  <2>4. Modest(full, peak) /\ full.writer - full.reader + rest <= pk2
    BY <1>1, <2>1, <2>3 DEF Modest
  <2>5. /\ Sound(e, put + room) /\ e.size - e.writer >= rest
        /\ e.writer - e.reader = readableBytes + room /\ Modest(e, pk2)
    BY <1>1, <2>1, <2>3, <2>4, EnsureSound
  <2> HIDE DEF e
  <2>6. rest <= e.size - e.writer
    BY <2>1, <2>5 DEF Sound
  <2>7. /\ Sound(w, (put + room) + rest)
        /\ w.writer - w.reader = readableBytes + room + rest
        /\ w.size = e.size
    BY <2>1, <2>5, <2>6, WrittenSound
  <2> HIDE DEF w
  <2>8. (put + room) + rest = put + n /\ readableBytes + room + rest = readableBytes + n
    BY <1>1, <2>1
  <2>9. Modest(w, pk2)
    BY <2>5, <2>7 DEF Modest
  <2>10. Modest(w, IF w.writer - w.reader > peak THEN w.writer - w.reader ELSE peak)
    BY <2>7, <2>8, <2>9 DEF pk2
  <2>11. Sound(w, put + n) /\ w.writer - w.reader = readableBytes + n
    BY <2>7, <2>8
  <2> QED
    BY <1>1, <2>2, <2>10, <2>11, StoreKeeps
<1> QED
  BY <1>2, <1>3

(* retrieve() moves the reader index over bytes that are readable. *)
LEMMA RetrieveKeeps ==
    ASSUME BufferInv, NEW len \in Nat, Retrieve(len)
    PROVE  BufferInv'
<1> USE SizesAssumption
<1>1. /\ reader' = reader + len /\ taken' = taken + len /\ len <= writer - reader
      /\ UNCHANGED <<buffer, size, writer, put, peak>>
  BY DEF Retrieve, readableBytes
<1>2. BufferTypeOK'
  BY <1>1 DEF BufferInv, BufferTypeOK
<1>3. (put = taken + readableBytes)' /\ (readableBytes <= peak)'
  BY <1>1 DEF BufferInv, BufferTypeOK, readableBytes
<1>4. ASSUME NEW i \in 1..(writer - (reader + len))
      PROVE  buffer[(reader + len) + i] = put - (writer - (reader + len)) + i
  <2>1. len + i \in 1..(writer - reader) /\ (reader + len) + i = reader + (len + i)
    BY <1>1 DEF BufferInv, BufferTypeOK
  <2>2. buffer[reader + (len + i)] = put - (writer - reader) + (len + i)
    BY <2>1 DEF BufferInv, Sound, Contents
  <2> QED
    BY <1>1, <2>1, <2>2 DEF BufferInv, BufferTypeOK
<1>5. Sound(Contents, put)'
  BY <1>1, <1>2, <1>4 DEF Sound, Contents, BufferTypeOK
<1>6. Modest(Contents, peak)'
  BY <1>1 DEF BufferInv, Modest, Contents
<1> QED
  BY <1>2, <1>3, <1>5, <1>6 DEF BufferInv

(* retrieveAll() takes both indices back to kCheapPrepend. *)
LEMMA RetrieveAllKeeps ==
    ASSUME BufferInv, RetrieveAll
    PROVE  BufferInv'
<1> USE SizesAssumption
<1>1. /\ reader' = kCheapPrepend /\ writer' = kCheapPrepend /\ taken' = put
      /\ UNCHANGED <<buffer, size, put, peak>>
  BY DEF RetrieveAll
<1>2. BufferTypeOK'
  BY <1>1 DEF BufferInv, BufferTypeOK
<1>3. (put = taken + readableBytes)' /\ (readableBytes <= peak)'
  BY <1>1 DEF BufferInv, BufferTypeOK, readableBytes
<1>4. Sound(Contents, put)'
  BY <1>1, <1>2 DEF Sound, Contents, BufferTypeOK
<1>5. Modest(Contents, peak)'
  BY <1>1 DEF BufferInv, Modest, Contents
<1> QED
  BY <1>2, <1>3, <1>4, <1>5 DEF BufferInv

(* Every step keeps the invariant. *)
LEMMA BufferSteps == BufferInv /\ [BufferNext]_bufferVars => BufferInv'
<1> SUFFICES ASSUME BufferInv, [BufferNext]_bufferVars PROVE BufferInv'
  OBVIOUS
<1>1. ASSUME NEW n \in 0..MaxBytes, AppendBytes(n) PROVE BufferInv'
  BY <1>1, AppendKeeps, SizesAssumption
<1>2. ASSUME NEW n \in 0..MaxBytes, ReadFd(n) PROVE BufferInv'
  BY <1>2, ReadKeeps, SizesAssumption
<1>3. ASSUME NEW n \in 0..MaxBytes, Retrieve(n) PROVE BufferInv'
  BY <1>3, RetrieveKeeps, SizesAssumption
<1>4. CASE RetrieveAll
  BY <1>4, RetrieveAllKeeps
<1>5. CASE UNCHANGED bufferVars
  BY <1>5 DEF bufferVars, BufferInv, BufferTypeOK, Sound, Modest, Contents, readableBytes
<1> QED
  BY <1>1, <1>2, <1>3, <1>4, <1>5 DEF BufferNext

(* BufferInv is an invariant: the argument behind the theorems below. *)
THEOREM BufferInvariant == BufferSpec => []BufferInv
<1>1. BufferInit => BufferInv
  BY BufferStarts
<1>2. BufferInv /\ [BufferNext]_bufferVars => BufferInv'
  BY BufferSteps
<1> QED
  BY <1>1, <1>2, PTL DEF BufferSpec

(* The indices of Buffer stay in order inside its vector. *)
THEOREM BufferTypeCorrect == BufferSpec => []BufferTypeOK
<1>1. BufferInv => BufferTypeOK
  BY DEF BufferInv
<1> QED
  BY <1>1, BufferInvariant, PTL

(* The invariant says what the readable bytes are. *)
LEMMA InvOrders == BufferInv => ReadableInOrder
<1> SUFFICES ASSUME BufferInv PROVE ReadableInOrder
  OBVIOUS
<1>1. put = taken + readableBytes
  BY DEF BufferInv
<1>2. ASSUME NEW i \in 1..readableBytes PROVE buffer[reader + i] = taken + i
  <2>1. buffer[reader + i] = put - readableBytes + i
    BY DEF BufferInv, Sound, Contents, readableBytes
  <2> QED
    BY <1>1, <2>1 DEF BufferInv, BufferTypeOK, readableBytes
<1> QED
  BY <1>1, <1>2 DEF ReadableInOrder

(* Buffer delivers the bytes appended, in order and without loss. *)
THEOREM BufferKeepsOrder == BufferSpec => []ReadableInOrder
<1> QED
  BY InvOrders, BufferInvariant, PTL

(* The assertions of makeSpace() and ensureWritableBytes() never fail. *)
THEOREM SpaceIsAlwaysMade == BufferSpec => []SpaceIsMade
<1>1. BufferInv => SpaceIsMade
  <2> SUFFICES ASSUME BufferInv, NEW len \in 0..MaxBytes
               PROVE  /\ len > writableBytes /\ ~MustGrow(Contents, len)
                           => kCheapPrepend < reader
                      /\ EnsureWritable(Contents, len).size
                            - EnsureWritable(Contents, len).writer >= len
    BY DEF SpaceIsMade
  <2> USE SizesAssumption
  <2>1. len > writableBytes /\ ~MustGrow(Contents, len) => kCheapPrepend < reader
    BY DEF BufferInv, BufferTypeOK, MustGrow, Contents, writableBytes
  <2>2. /\ len \in Nat /\ put \in Nat /\ peak \in Nat /\ peak + len \in Nat
        /\ Contents.writer - Contents.reader + len <= peak + len
        /\ peak <= peak + len
    BY DEF BufferInv, BufferTypeOK, Contents, readableBytes
  <2>3. EnsureWritable(Contents, len).size - EnsureWritable(Contents, len).writer >= len
    BY <2>2, EnsureSound DEF BufferInv
  <2> QED
    BY <2>1, <2>3
<1> QED
  BY <1>1, BufferInvariant, PTL

(* The vector of Buffer never outgrows twice the most unread data. *)
THEOREM GrowthIsBounded == BufferSpec => []GrowthBounded
<1>1. BufferInv => GrowthBounded
  BY DEF BufferInv, Modest, Contents, GrowthBounded
<1> QED
  BY <1>1, BufferInvariant, PTL

----------------------------------------------------------------------------
(* Refinement *)

(* The readable part of the vector is the front of the abstract queue. *)
LEMMA InvInOrder == BufferInv => Queue!InOrder
<1> SUFFICES ASSUME BufferInv PROVE Queue!InOrder
  OBVIOUS
<1>1. put - taken = readableBytes
  BY DEF BufferInv, BufferTypeOK, readableBytes
<1>2. \A i \in 1..readableBytes : buffer[reader + i] = taken + i
  BY InvOrders DEF ReadableInOrder
<1> HIDE DEF readableBytes
<1>3. [i \in 1..readableBytes |-> buffer[reader + i]]
        = [i \in 1..readableBytes |-> taken + i]
  BY <1>2
<1> QED
  BY <1>1, <1>3 DEF Queue!InOrder

(* Every step of the buffer is a step of the byte queue, or leaves it alone. *)
LEMMA StepRefines ==
    ASSUME BufferInv, BufferInv', [BufferNext]_bufferVars
    PROVE  [Queue!Next]_(Queue!vars)
<1> USE SizesAssumption
<1>1. Queue!InOrder'
  BY InvInOrder, PTL
<1>2. put \in Nat /\ taken \in Nat /\ readableBytes \in Nat
      /\ put = taken + readableBytes /\ put <= MaxBytes
  BY DEF BufferInv, BufferTypeOK, readableBytes
<1>3. ASSUME NEW n \in 0..MaxBytes, AppendBytes(n) PROVE Queue!Next
  <2>1. Queue!Put(n)
    BY <1>1, <1>3 DEF Queue!Put, AppendBytes, Store
  <2> QED
    BY <2>1 DEF Queue!Next
<1>4. ASSUME NEW n \in 0..MaxBytes, ReadFd(n) PROVE Queue!Next
  <2>1. Queue!Put(n)
    BY <1>1, <1>4 DEF Queue!Put, ReadFd, Store
  <2> QED
    BY <2>1 DEF Queue!Next
<1>5. ASSUME NEW n \in 0..MaxBytes, Retrieve(n) PROVE Queue!Next
  <2>1. Queue!Take(n)
    BY <1>1, <1>2, <1>5 DEF Queue!Take, Retrieve
  <2> QED
    BY <2>1 DEF Queue!Next
<1>6. CASE RetrieveAll
  <2>1. readableBytes \in 0..MaxBytes /\ taken + readableBytes = put
    BY <1>2
  <2>2. Queue!Take(readableBytes)
    BY <1>1, <1>2, <1>6, <2>1 DEF Queue!Take, RetrieveAll
  <2> QED
    BY <2>1, <2>2 DEF Queue!Next
<1>7. CASE UNCHANGED bufferVars
  BY <1>7 DEF bufferVars, Queue!vars, readableBytes
<1> QED
  BY <1>3, <1>4, <1>5, <1>6, <1>7 DEF BufferNext

(* The vector and its two indices implement the queue of bytes of ByteQueue. *)
THEOREM ImplementsByteQueue == BufferSpec => RefinesByteQueue
<1>1. BufferInit => Queue!Init
  BY BufferStarts, InvInOrder DEF BufferInit, Queue!Init
<1>2. BufferInv /\ BufferInv' /\ [BufferNext]_bufferVars => [Queue!Next]_(Queue!vars)
  BY StepRefines
<1> QED
  BY <1>1, <1>2, BufferInvariant, PTL DEF BufferSpec, RefinesByteQueue, Queue!Spec

----------------------------------------------------------------------------
(* net/TcpConnection *)

(* What the io loop's queue may hold once connectEstablished() has run, with    *)
(* the other thread at place c of its call: the connectDestroyed() functor      *)
(* exactly if destroy, and the thread's shutdownInLoop() possibly, once queued. *)
Queues(destroy, c) ==
    LET D == "connectDestroyed"
        S == "shutdownInLoop"
    IN IF destroy THEN {<<D>>} \cup (IF c = "queued" THEN {<<S, D>>, <<D, S>>} ELSE {})
       ELSE {<<>>} \cup (IF c = "queued" THEN {<<S>>} ELSE {})

(* Before connectEstablished() nothing has happened but what the peer does. *)
NotYetUp ==
    /\ ioTasks = <<"connectEstablished">> /\ baseTasks = <<>>
    /\ events = {} /\ index = "kNew" /\ state = "kConnecting"
    /\ closes = 0 /\ downs = 0 /\ mapped = TRUE /\ caller = "none"

(* Up, and handleClose() has not been called: the connection is polled. *)
Open ==
    /\ closes = 0 /\ downs = 0 /\ mapped = TRUE /\ baseTasks = <<>>
    /\ index = "kAdded" /\ "read" \in events
    /\ state \in {"kConnected", "kDisconnecting"}
    /\ ioTasks \in Queues(FALSE, caller)

(* handleClose() has been called and connectDestroyed() not: the end of the     *)
(* connection waits in exactly one of the two loops.                            *)
Closing ==
    /\ closes = 1 /\ downs = 0
    /\ "read" \notin events
    /\ state \in {"kConnected", "kDisconnecting"}
    /\ \/ /\ mapped = TRUE /\ baseTasks = <<"removeConnectionInLoop">>
          /\ ioTasks \in Queues(FALSE, caller)
       \/ /\ mapped = FALSE /\ baseTasks = <<>>
          /\ ioTasks \in Queues(TRUE, caller)

(* connectDestroyed() has run.  state_ may be kDisconnecting again, when the    *)
(* other thread writes it late.                                                 *)
Destroyed ==
    /\ closes = 1 /\ downs = 1 /\ mapped = FALSE /\ baseTasks = <<>>
    /\ events = {} /\ index = "kNew"
    /\ state \in {"kDisconnected", "kDisconnecting"}
    /\ ioTasks \in Queues(FALSE, caller)

(* The inductive invariant: the connection is in one of its four phases. *)
Lifecycle ==
    \/ ups = 0 /\ NotYetUp
    \/ ups = 1 /\ (Open \/ Closing \/ Destroyed)

IInv == TypeOK /\ Lifecycle /\ BytesInOrder /\ NoStrandedBytes

----------------------------------------------------------------------------
(* The operators *)

(* Take and Drop cut a sequence in two parts that make it up again, of n and    *)
(* Len(s) - n elements.                                                         *)
LEMMA TakeDrop ==
    ASSUME NEW S, NEW s \in Seq(S), NEW n \in 0..Len(s)
    PROVE  /\ Take(s, n) \in Seq(S) /\ Drop(s, n) \in Seq(S)
           /\ Len(Take(s, n)) = n /\ Len(Drop(s, n)) = Len(s) - n
           /\ Take(s, n) \o Drop(s, n) = s
<1>1. Len(s) \in Nat /\ n \in Nat /\ n <= Len(s)
  BY LenProperties
<1>2. Take(s, n) \in Seq(S) /\ Len(Take(s, n)) = n
  <2>1. \A i \in 1..n : s[i] \in S
    BY <1>1, ElementOfSeq
  <2> QED
    BY <1>1, <2>1, SubSeqProperties DEF Take
<1>3. Drop(s, n) \in Seq(S) /\ Len(Drop(s, n)) = Len(s) - n
  <2>1. \A i \in (n + 1)..Len(s) : s[i] \in S
    BY <1>1, ElementOfSeq
  <2> QED
    BY <1>1, <2>1, SubSeqProperties DEF Drop
<1>4. SubSeq(s, 1, n) \o SubSeq(s, n + 1, Len(s)) = SubSeq(s, 1, Len(s))
  <2>1. 1 \in 1..(Len(s) + 1) /\ n \in (1 - 1)..Len(s) /\ Len(s) \in n..Len(s)
    BY <1>1
  <2> QED
    BY <2>1, ConcatAdjacentSubSeq, Zenon
<1>5. Take(s, n) \o Drop(s, n) = s
  BY <1>4, SubSeqFull DEF Take, Drop
<1> QED
  BY <1>2, <1>3, <1>5

(* Concatenation of sequences of bytes is associative. *)
LEMMA ConcatBytes ==
    ASSUME NEW s \in Seq(Nat), NEW t \in Seq(Nat), NEW u \in Seq(Nat)
    PROVE  (s \o t) \o u = s \o (t \o u)
BY ConcatAssociative

(* Nothing taken leaves everything. *)
LEMMA TakeNothing ==
    ASSUME NEW S, NEW s \in Seq(S)
    PROVE  Take(s, 0) = <<>> /\ Drop(s, 0) = s
<1>1. Len(s) \in Nat /\ 0 \in 0..Len(s)
  BY LenProperties
<1>2. /\ Take(s, 0) \in Seq(S) /\ Len(Take(s, 0)) = 0
      /\ Drop(s, 0) \in Seq(S) /\ Take(s, 0) \o Drop(s, 0) = s
  BY <1>1, TakeDrop
<1>3. Take(s, 0) = <<>>
  BY <1>2, EmptySeq
<1> QED
  BY <1>2, <1>3, ConcatEmptySeq

(* The bytes of a message continue the bytes sent before it. *)
LEMMA BytesContinue ==
    ASSUME NEW n \in Nat, sent \in Nat
    PROVE  /\ Bytes(n) \in Seq(Nat) /\ Len(Bytes(n)) = n
           /\ [i \in 1..sent |-> i] \o Bytes(n) = [i \in 1..(sent + n) |-> i]
<1> DEFINE before == [i \in 1..sent |-> i]
           after == [i \in 1..(sent + n) |-> i]
<1>1. Bytes(n) \in Seq(Nat) /\ Len(Bytes(n)) = n /\ \A i \in 1..n : Bytes(n)[i] = sent + i
  BY IsASeq DEF Bytes
<1>2. before \in Seq(Nat) /\ Len(before) = sent
  BY IsASeq
<1>3. after \in Seq(Nat) /\ Len(after) = sent + n
  BY IsASeq
<1>4. before \o Bytes(n) \in Seq(Nat) /\ Len(before \o Bytes(n)) = sent + n
  BY <1>1, <1>2
<1>5. ASSUME NEW i \in 1..(sent + n) PROVE (before \o Bytes(n))[i] = after[i]
  BY <1>1, <1>2, ConcatProperties
<1>6. before \o Bytes(n) = after
  <2> HIDE DEF before, after
  <2> QED BY <1>3, <1>4, <1>5, SeqEqual
<1> QED
  BY <1>1, <1>6

(* What sendInLoop() writes at once is part of the message and fits, and        *)
(* nothing is written past bytes that wait (TcpConnection.cc 67-86).            *)
LEMMA WrittenAtOnceFacts ==
    ASSUME TypeOK, NEW n \in Nat
    PROVE  /\ WrittenAtOnce(n) \in 0..n
           /\ inflight + WrittenAtOnce(n) <= SockBuf
           /\ WrittenAtOnce(n) = 0 \/ (output = <<>> /\ ~isWriting)
BY SockBufAssumption DEF WrittenAtOnce, TypeOK, Min, Room
(* What a handler's write does to the types: the bytes written leave the        *)
(* buffer, and the socket's buffer does not overflow.                           *)
LEMMA WriteBytesType ==
    ASSUME TypeOK, NEW s \in Seq(Nat), NEW n \in 0..Len(s), NEW rest \in Seq(Nat),
           inflight + n <= SockBuf, WriteBytes(s, n, rest)
    PROVE  wire' \in Seq(Nat) /\ output' \in Seq(Nat) /\ inflight' \in 0..SockBuf
<1>1. Take(s, n) \in Seq(Nat)
  BY TakeDrop
<1>2. wire \o Take(s, n) \in Seq(Nat)
  BY <1>1, ConcatProperties DEF TypeOK
<1>3. n \in Nat
  BY LenProperties
<1>4. inflight' \in 0..SockBuf
  BY <1>3, SockBufAssumption DEF WriteBytes, TypeOK
<1> QED
  BY <1>2, <1>4 DEF WriteBytes

----------------------------------------------------------------------------
(* Types *)

(* The initial state has the types. *)
LEMMA TypeInit == Init => TypeOK
<1> SUFFICES ASSUME Init PROVE TypeOK
  OBVIOUS
<1>1. <<>> \in Seq(Nat) /\ <<>> \in Seq({"removeConnectionInLoop"})
  OBVIOUS
<1>2. <<"connectEstablished">> \in Seq({"connectEstablished", "connectDestroyed", "shutdownInLoop"})
  OBVIOUS
<1>3. 0 \in 0..MaxSent /\ 0 \in 0..SockBuf /\ 0 \in Nat
  BY MaxSentAssumption, SockBufAssumption
<1> QED
  BY <1>1, <1>2, <1>3, Zenon DEF Init, TypeOK

(* Every step keeps the types (TcpConnection.cc, TcpServer.cc 60-100). *)
LEMMA TypeNext == TypeOK /\ [Next]_vars => TypeOK'
<1> SUFFICES ASSUME TypeOK, [Next]_vars PROVE TypeOK'
  OBVIOUS
<1> USE DEF channel, data, history
<1>0. ASSUME NEW ev \in SUBSET {"read", "write"}, UpdateChannel(ev)
      PROVE  events' \subseteq {"read", "write"} /\ index' \in {"kNew", "kAdded", "kDeleted"}
  BY <1>0 DEF UpdateChannel
<1>1. ASSUME NEW n \in 1..MaxSent, Send(n) PROVE TypeOK'
  <2> DEFINE w == WrittenAtOnce(n)
  <2>1. n \in Nat /\ sent \in Nat
    BY MaxSentAssumption DEF TypeOK
  <2>2. w \in 0..n /\ inflight + w <= SockBuf
    BY <2>1, WrittenAtOnceFacts
  <2>3. Bytes(n) \in Seq(Nat) /\ Len(Bytes(n)) = n
    BY <2>1, BytesContinue
  <2>4. WriteBytes(Bytes(n), w, output \o Drop(Bytes(n), w))
    BY <1>1 DEF Send
  <2> HIDE DEF w
  <2>5. output \o Drop(Bytes(n), w) \in Seq(Nat)
    BY <2>2, <2>3, TakeDrop, ConcatProperties DEF TypeOK
  <2>6. wire' \in Seq(Nat) /\ output' \in Seq(Nat) /\ inflight' \in 0..SockBuf
    BY <2>2, <2>3, <2>4, <2>5, WriteBytesType
  <2>7. sent' \in 0..MaxSent
    BY <1>1, <2>1, MaxSentAssumption DEF Send
  <2>8. events' \subseteq {"read", "write"} /\ index' \in {"kNew", "kAdded", "kDeleted"}
    BY <1>0, <1>1 DEF Send, TypeOK
  <2> QED
    BY <1>1, <2>6, <2>7, <2>8 DEF Send, TypeOK
<1>2. CASE Shutdown
  BY <1>2 DEF Shutdown, ShutdownInLoop, isWriting, TypeOK
<1>3. CASE ShutdownRead
  BY <1>3 DEF ShutdownRead, TypeOK
<1>4. CASE ShutdownSet
  BY <1>4 DEF ShutdownSet, TypeOK
<1>5. CASE ShutdownQueue
  BY <1>5 DEF ShutdownQueue, TypeOK
<1>6. CASE HandleRead
  <2>1. events' \subseteq {"read", "write"} /\ index' \in {"kNew", "kAdded", "kDeleted"}
    BY <1>0, <1>6 DEF HandleRead, HandleClose
  <2>2. /\ ioTasks' \in Seq({"connectEstablished", "connectDestroyed", "shutdownInLoop"})
        /\ baseTasks' \in Seq({"removeConnectionInLoop"})
        /\ closes' \in Nat
    <3>1. ioTasks' = Append(ioTasks, "connectDestroyed") \/ ioTasks' = ioTasks
      BY <1>6, Zenon DEF HandleRead, HandleClose, TellServer, RemoveConnection
    <3>2. baseTasks' = Append(baseTasks, "removeConnectionInLoop") \/ baseTasks' = baseTasks
      BY <1>6, Zenon DEF HandleRead, HandleClose, TellServer, RemoveConnection
    <3>3. closes' = closes + 1
      BY <1>6 DEF HandleRead, HandleClose
    <3>4. ioTasks' \in Seq({"connectEstablished", "connectDestroyed", "shutdownInLoop"})
      <4>1. ioTasks \in Seq({"connectEstablished", "connectDestroyed", "shutdownInLoop"})
        BY DEF TypeOK
      <4> QED
        BY <3>1, <4>1
    <3>5. baseTasks' \in Seq({"removeConnectionInLoop"})
      <4>1. baseTasks \in Seq({"removeConnectionInLoop"})
        BY DEF TypeOK
      <4> QED
        BY <3>2, <4>1
    <3> QED
      BY <3>3, <3>4, <3>5 DEF TypeOK
  <2>3. mapped' \in BOOLEAN
    BY <1>6, Zenon DEF HandleRead, HandleClose, TellServer, RemoveConnection, TypeOK
  <2> QED
    BY <1>6, <2>1, <2>2, <2>3 DEF HandleRead, TypeOK
<1>7. CASE HandleWrite
  <2> DEFINE w == Min(Len(output), Room)
  <2>1. Len(output) \in Nat /\ inflight \in Nat /\ SockBuf \in Nat /\ inflight <= SockBuf
    BY LenProperties, SockBufAssumption DEF TypeOK
  <2>2. w \in 0..Len(output) /\ inflight + w <= SockBuf
    BY <2>1 DEF Min, Room
  <2>3. WriteBytes(output, w, Drop(output, w))
    BY <1>7 DEF HandleWrite
  <2> HIDE DEF w
  <2>4. Drop(output, w) \in Seq(Nat)
    BY <2>2, TakeDrop DEF TypeOK
  <2>5. wire' \in Seq(Nat) /\ output' \in Seq(Nat) /\ inflight' \in 0..SockBuf
    BY <2>2, <2>3, <2>4, WriteBytesType DEF TypeOK
  <2>6. /\ events' \subseteq {"read", "write"} /\ index' \in {"kNew", "kAdded", "kDeleted"}
        /\ completing' \in BOOLEAN
    BY <1>0, <1>7 DEF HandleWrite, TypeOK
  <2> QED
    BY <1>7, <2>5, <2>6 DEF HandleWrite, TypeOK
<1>8. CASE WriteCompleted
  BY <1>8 DEF WriteCompleted, ShutdownInLoop, isWriting, TypeOK
<1>9. CASE ConnectEstablished
  BY <1>0, <1>9 DEF ConnectEstablished, TakeIoTask, TypeOK
<1>10. CASE RunShutdownInLoop
  BY <1>10 DEF RunShutdownInLoop, TakeIoTask, ShutdownInLoop, isWriting, TypeOK
<1>11. CASE RemoveConnectionInLoop
  <2>1. /\ ioTasks' \in Seq({"connectEstablished", "connectDestroyed", "shutdownInLoop"})
        /\ baseTasks' \in Seq({"removeConnectionInLoop"})
    BY <1>11 DEF RemoveConnectionInLoop, RemoveConnection, TypeOK
  <2>2. mapped' \in BOOLEAN
    BY <1>11, Zenon DEF RemoveConnectionInLoop, RemoveConnection
  <2> QED
    BY <1>11, <2>1, <2>2 DEF RemoveConnectionInLoop, TypeOK
<1>12. CASE ConnectDestroyed
  BY <1>12 DEF ConnectDestroyed, TakeIoTask, TypeOK
<1>13. CASE PeerDrains
  BY <1>13, SockBufAssumption DEF PeerDrains, TypeOK
<1>14. CASE PeerCloses
  BY <1>14 DEF PeerCloses, TypeOK
<1>15. CASE UNCHANGED vars
  BY <1>15 DEF vars, TypeOK
<1> QED
  BY <1>1, <1>2, <1>3, <1>4, <1>5, <1>6, <1>7, <1>8, <1>9, <1>10, <1>11, <1>12, <1>13, <1>14, <1>15
  DEF Next
----------------------------------------------------------------------------
(* The bytes *)

(* Every step keeps the order of the bytes: what is written is taken from the   *)
(* front of what waits, or is new while nothing waits (TcpConnection.cc 61-94,  *)
(* 121-150).                                                                    *)
LEMMA BytesNext ==
    TypeOK /\ BytesInOrder /\ [Next]_vars => BytesInOrder'
<1> SUFFICES ASSUME TypeOK, BytesInOrder, [Next]_vars PROVE BytesInOrder'
  OBVIOUS
<1> USE DEF BytesInOrder
<1>1. ASSUME NEW n \in 1..MaxSent, Send(n) PROVE BytesInOrder'
  <2> DEFINE w == WrittenAtOnce(n)
             B == Bytes(n)
  <2>1. n \in Nat /\ sent \in Nat
    BY MaxSentAssumption DEF TypeOK
  <2>2. w \in 0..n /\ (w = 0 \/ output = <<>>)
    BY <2>1, WrittenAtOnceFacts
  <2>3. B \in Seq(Nat) /\ Len(B) = n
    BY <2>1, BytesContinue
  <2>4. wire' = wire \o Take(B, w) /\ output' = output \o Drop(B, w) /\ sent' = sent + n
    BY <1>1 DEF Send, WriteBytes
  <2>5. [i \in 1..sent |-> i] \o B = [i \in 1..(sent + n) |-> i]
    BY <2>1, BytesContinue
  <2>6. wire \in Seq(Nat) /\ output \in Seq(Nat)
    BY DEF TypeOK
  <2> HIDE DEF w, B
  <2>7. /\ Take(B, w) \in Seq(Nat) /\ Drop(B, w) \in Seq(Nat)
        /\ Take(B, w) \o Drop(B, w) = B
    BY <2>2, <2>3, TakeDrop
  <2>8. wire' \o output' = (wire \o output) \o B
    <3>1. CASE w = 0
      <4>1. Take(B, w) = <<>> /\ Drop(B, w) = B
        BY <2>3, <3>1, TakeNothing
      <4>2. wire' = wire
        BY <2>4, <2>6, <4>1, ConcatEmptySeq
      <4>3. (wire \o output) \o B = wire \o (output \o B)
        BY <2>3, <2>6, ConcatBytes
      <4> QED
        BY <2>4, <4>1, <4>2, <4>3
    <3>2. CASE output = <<>>
      <4>1. wire \o output = wire /\ output' = Drop(B, w)
        BY <2>4, <2>6, <2>7, <3>2, ConcatEmptySeq
      <4>2. (wire \o Take(B, w)) \o Drop(B, w) = wire \o (Take(B, w) \o Drop(B, w))
        BY <2>6, <2>7, ConcatBytes
      <4> QED
        BY <2>4, <2>7, <4>1, <4>2
    <3> QED
      BY <2>2, <3>1, <3>2
  <2> QED
    BY <2>4, <2>5, <2>8
<1>2. CASE HandleWrite
  <2> DEFINE w == Min(Len(output), Room)
  <2>1. Len(output) \in Nat /\ inflight \in Nat /\ SockBuf \in Nat /\ inflight <= SockBuf
    BY LenProperties, SockBufAssumption DEF TypeOK
  <2>2. w \in 0..Len(output)
    BY <2>1 DEF Min, Room
  <2>3. wire' = wire \o Take(output, w) /\ output' = Drop(output, w) /\ sent' = sent
    BY <1>2 DEF HandleWrite, WriteBytes
  <2>4. wire \in Seq(Nat) /\ output \in Seq(Nat)
    BY DEF TypeOK
  <2> HIDE DEF w
  <2>5. /\ Take(output, w) \in Seq(Nat) /\ Drop(output, w) \in Seq(Nat)
        /\ Take(output, w) \o Drop(output, w) = output
    BY <2>2, <2>4, TakeDrop
  <2>6. (wire \o Take(output, w)) \o Drop(output, w)
           = wire \o (Take(output, w) \o Drop(output, w))
    BY <2>4, <2>5, ConcatBytes
  <2> QED
    BY <2>3, <2>5, <2>6
<1>3. ASSUME UNCHANGED <<output, wire, sent>> PROVE BytesInOrder'
  BY <1>3
<1>4. CASE Shutdown \/ ShutdownRead \/ ShutdownSet \/ ShutdownQueue
  BY <1>3, <1>4 DEF Shutdown, ShutdownRead, ShutdownSet, ShutdownQueue, data
<1>5. CASE HandleRead \/ WriteCompleted
  BY <1>3, <1>5 DEF HandleRead, WriteCompleted, data
<1>6. CASE ConnectEstablished \/ RunShutdownInLoop \/ RemoveConnectionInLoop \/ ConnectDestroyed
  BY <1>3, <1>6
  DEF ConnectEstablished, RunShutdownInLoop, RemoveConnectionInLoop, ConnectDestroyed, data
<1>7. CASE PeerDrains \/ PeerCloses
  BY <1>3, <1>7 DEF PeerDrains, PeerCloses, data
<1>8. CASE UNCHANGED vars
  BY <1>3, <1>8 DEF vars
<1> QED
  BY <1>1, <1>2, <1>4, <1>5, <1>6, <1>7, <1>8 DEF Next
----------------------------------------------------------------------------
(* The life of the connection *)

(* Running the head of the io loop's queue: connectDestroyed() is there only if *)
(* it is due, and then once.                                                    *)
LEMMA QueueHead ==
    ASSUME NEW d \in BOOLEAN, NEW c, NEW q \in Queues(d, c), q # <<>>
    PROVE  /\ Head(q) # "connectEstablished"
           /\ Head(q) = "connectDestroyed" => d /\ Tail(q) \in Queues(FALSE, c)
           /\ Head(q) = "shutdownInLoop" => Tail(q) \in Queues(d, c)
<1> DEFINE D == "connectDestroyed"
           S == "shutdownInLoop"
<1>1. q \in {<<>>, <<D>>, <<S>>, <<S, D>>, <<D, S>>}
  BY DEF Queues
<1>2. CASE q = <<D>>
  BY <1>2 DEF Queues
<1>3. CASE q = <<S>>
  BY <1>3 DEF Queues
<1>4. CASE q = <<S, D>>
  BY <1>4 DEF Queues
<1>5. CASE q = <<D, S>>
  BY <1>5 DEF Queues
<1> QED
  BY <1>1, <1>2, <1>3, <1>4, <1>5

(* A second functor follows the first. *)
LEMMA AppendPair ==
    ASSUME NEW a, NEW b
    PROVE  Append(<<>>, a) = <<a>> /\ Append(<<a>>, b) = <<a, b>>
<1>1. <<a>> \in Seq({a, b}) /\ <<a, b>> \in Seq({a, b})
  OBVIOUS
<1>2. /\ Append(<<a>>, b) \in Seq({a, b}) /\ Len(Append(<<a>>, b)) = 2
      /\ Append(<<a>>, b)[1] = a /\ Append(<<a>>, b)[2] = b
  OBVIOUS
<1>3. Len(<<a, b>>) = 2 /\ <<a, b>>[1] = a /\ <<a, b>>[2] = b
  OBVIOUS
<1>4. \A i \in 1..2 : Append(<<a>>, b)[i] = <<a, b>>[i]
  BY <1>2, <1>3
<1>5. Append(<<a>>, b) = <<a, b>>
  BY <1>1, <1>2, <1>3, <1>4, SeqEqual
<1>6. Append(<<>>, a) = <<a>>
  OBVIOUS
<1> QED
  BY <1>5, <1>6

(* Queueing: the server's connectDestroyed() comes to a queue without one, the  *)
(* other thread's shutdownInLoop() to a queue without one.                      *)
LEMMA QueueAppend ==
    ASSUME NEW d \in BOOLEAN, NEW c, NEW q
    PROVE  /\ q \in Queues(FALSE, c) => Append(q, "connectDestroyed") \in Queues(TRUE, c)
           /\ q \in Queues(d, c) /\ c # "queued" =>
                 Append(q, "shutdownInLoop") \in Queues(d, "queued")
<1> DEFINE D == "connectDestroyed"
           S == "shutdownInLoop"
<1>1. /\ Append(<<>>, D) = <<D>> /\ Append(<<S>>, D) = <<S, D>>
      /\ Append(<<>>, S) = <<S>> /\ Append(<<D>>, S) = <<D, S>>
  BY AppendPair
<1>2. ASSUME q \in Queues(FALSE, c) PROVE Append(q, D) \in Queues(TRUE, c)
  <2>1. q = <<>> \/ (c = "queued" /\ q = <<S>>)
    BY <1>2 DEF Queues
  <2> QED
    BY <1>1, <2>1 DEF Queues
<1>3. ASSUME q \in Queues(d, c), c # "queued" PROVE Append(q, S) \in Queues(d, "queued")
  <2>1. (~d /\ q = <<>>) \/ (d /\ q = <<D>>)
    BY <1>3 DEF Queues
  <2> QED
    BY <1>1, <2>1 DEF Queues
<1> QED
  BY <1>2, <1>3

(* Until the other thread has queued its functor, its place does not matter. *)
LEMMA QueueCaller ==
    ASSUME NEW d \in BOOLEAN, NEW c, NEW e, c # "queued"
    PROVE  Queues(d, c) \subseteq Queues(d, e)
BY DEF Queues

(* Initially the connection is not yet up, and has nothing to write. *)
LEMMA IInvInit == Init => IInv
<1> SUFFICES ASSUME Init PROVE IInv
  OBVIOUS
<1>1. TypeOK
  BY TypeInit
<1>2. Lifecycle
  BY DEF Init, Lifecycle, NotYetUp
<1>3. wire = <<>> /\ output = <<>> /\ sent = 0
  BY DEF Init
<1>4. BytesInOrder
  <2>1. [i \in 1..0 |-> i] = <<>>
    OBVIOUS
  <2> QED
    BY <1>3, <2>1 DEF BytesInOrder
<1>5. NoStrandedBytes
  BY <1>3 DEF Init, NoStrandedBytes, isWriting
<1> QED
  BY <1>1, <1>2, <1>4, <1>5 DEF IInv

(* Every step keeps the connection in one of its phases: the end of the stream  *)
(* is handled once, its news is in one loop at a time, and the functors of the  *)
(* other thread come between without harm.                                      *)
LEMMA LifecycleNext ==
    TypeOK /\ Lifecycle /\ [Next]_vars => Lifecycle'
<1> SUFFICES ASSUME TypeOK, Lifecycle, [Next]_vars PROVE Lifecycle'
  OBVIOUS
<1> DEFINE lifecycle == <<state, mapped, ioTasks, baseTasks, events, index, caller, closes, ups, downs>>
<1>0. ASSUME UNCHANGED lifecycle PROVE Lifecycle'
  BY <1>0 DEF Lifecycle, NotYetUp, Open, Closing, Destroyed
<1>a. ASSUME ups' = ups, ups = 1,
             Open => Open', Closing => Closing', Destroyed => Destroyed'
      PROVE  Lifecycle'
  <2>1. Open \/ Closing \/ Destroyed
    BY <1>a DEF Lifecycle
  <2>2. Open' \/ Closing' \/ Destroyed'
    BY <1>a, <2>1
  <2> QED
    BY <1>a, <2>2 DEF Lifecycle
<1>1. ASSUME NEW n \in 1..MaxSent, Send(n) PROVE Lifecycle'
  <2>1. ups = 1 /\ downs = 0
    BY <1>1 DEF Send, InCallback
  <2>2. /\ UNCHANGED <<state, mapped, ioTasks, baseTasks, caller, closes, ups, downs>>
        /\ UNCHANGED <<events, index>> \/ (events' = events \cup {"write"} /\ index' = "kAdded")
    BY <1>1 DEF Send, UpdateChannel, channel, history
  <2>3. Open => Open'
    BY <2>2 DEF Open
  <2>4. Closing => Closing'
    <3>1. "read" \notin events => "read" \notin events'
      BY <2>2
    <3> QED
      BY <2>2, <3>1 DEF Closing
  <2>5. ~Destroyed
    BY <2>1 DEF Destroyed
  <2> QED
    BY <1>a, <2>1, <2>2, <2>3, <2>4, <2>5
<1>2. CASE Shutdown
  <2>1. /\ ups = 1 /\ downs = 0 /\ state' = "kDisconnecting"
        /\ UNCHANGED <<mapped, ioTasks, baseTasks, events, index, caller, closes, ups, downs>>
    BY <1>2 DEF Shutdown, InCallback, channel, history
  <2>2. Open => Open'
    BY <2>1 DEF Open
  <2>3. Closing => Closing'
    BY <2>1 DEF Closing
  <2>4. ~Destroyed
    BY <2>1 DEF Destroyed
  <2> QED
    BY <1>a, <2>1, <2>2, <2>3, <2>4
<1>3. CASE ShutdownRead
  <2>1. /\ caller = "none" /\ caller' = "read" /\ state = "kConnected"
        /\ UNCHANGED <<state, mapped, ioTasks, baseTasks, events, index, closes, ups, downs>>
    BY <1>3 DEF ShutdownRead, channel, history
  <2>2. ups = 1
    BY <2>1 DEF Lifecycle, NotYetUp
  <2>3. \A d \in BOOLEAN : ioTasks \in Queues(d, caller) => ioTasks' \in Queues(d, caller')
    BY <2>1, QueueCaller
  <2>4. Open => Open'
    BY <2>1, <2>3 DEF Open
  <2>5. Closing => Closing'
    BY <2>1, <2>3 DEF Closing
  <2>6. Destroyed => Destroyed'
    BY <2>1, <2>3 DEF Destroyed
  <2> QED
    BY <1>a, <2>1, <2>2, <2>4, <2>5, <2>6
<1>4. CASE ShutdownSet
  <2>1. /\ caller = "read" /\ caller' = "set" /\ state' = "kDisconnecting"
        /\ UNCHANGED <<mapped, ioTasks, baseTasks, events, index, closes, ups, downs>>
    BY <1>4 DEF ShutdownSet, channel, history
  <2>2. ups = 1
    BY <2>1 DEF Lifecycle, NotYetUp
  <2>3. \A d \in BOOLEAN : ioTasks \in Queues(d, caller) => ioTasks' \in Queues(d, caller')
    BY <2>1, QueueCaller
  <2>4. Open => Open'
    BY <2>1, <2>3 DEF Open
  <2>5. Closing => Closing'
    BY <2>1, <2>3 DEF Closing
  <2>6. Destroyed => Destroyed'
    BY <2>1, <2>3 DEF Destroyed
  <2> QED
    BY <1>a, <2>1, <2>2, <2>4, <2>5, <2>6
<1>5. CASE ShutdownQueue
  <2>1. /\ caller = "set" /\ caller' = "queued" /\ ioTasks' = Append(ioTasks, "shutdownInLoop")
        /\ UNCHANGED <<state, mapped, baseTasks, events, index, closes, ups, downs>>
    BY <1>5 DEF ShutdownQueue, channel, history
  <2>2. ups = 1
    BY <2>1 DEF Lifecycle, NotYetUp
  <2>3. \A d \in BOOLEAN : ioTasks \in Queues(d, caller) => ioTasks' \in Queues(d, caller')
    BY <2>1, QueueAppend
  <2>4. Open => Open'
    BY <2>1, <2>3 DEF Open
  <2>5. Closing => Closing'
    BY <2>1, <2>3 DEF Closing
  <2>6. Destroyed => Destroyed'
    BY <2>1, <2>3 DEF Destroyed
  <2> QED
    BY <1>a, <2>1, <2>2, <2>4, <2>5, <2>6
<1>6. CASE HandleRead
  <2>1. "read" \in events /\ UNCHANGED <<state, caller, ups, downs>>
    BY <1>6 DEF HandleRead, Polled
  <2>2. ups = 1 /\ Open
    BY <2>1 DEF Lifecycle, NotYetUp, Closing, Destroyed
  <2>3. closes' = closes + 1 /\ events' = {}
    BY <1>6 DEF HandleRead, HandleClose, UpdateChannel
  <2>4. \/ /\ mapped' = FALSE /\ baseTasks' = baseTasks
           /\ ioTasks' = Append(ioTasks, "connectDestroyed")
        \/ /\ mapped' = mapped /\ ioTasks' = ioTasks
           /\ baseTasks' = Append(baseTasks, "removeConnectionInLoop")
    BY <1>6, Zenon DEF HandleRead, HandleClose, TellServer, RemoveConnection
  <2>5. Append(<<>>, "removeConnectionInLoop") = <<"removeConnectionInLoop">>
    OBVIOUS
  <2>6. ioTasks \in Queues(FALSE, caller) =>
            Append(ioTasks, "connectDestroyed") \in Queues(TRUE, caller)
    BY QueueAppend
  <2>7. Closing'
    <3>1. closes' = 1 /\ downs' = 0 /\ "read" \notin events'
      BY <2>1, <2>2, <2>3 DEF Open
    <3>2. state' \in {"kConnected", "kDisconnecting"}
      BY <2>1, <2>2 DEF Open
    <3>3. \/ /\ mapped' = TRUE /\ baseTasks' = <<"removeConnectionInLoop">>
             /\ ioTasks' \in Queues(FALSE, caller')
          \/ /\ mapped' = FALSE /\ baseTasks' = <<>>
             /\ ioTasks' \in Queues(TRUE, caller')
      BY <2>1, <2>2, <2>4, <2>5, <2>6 DEF Open
    <3> QED
      BY <3>1, <3>2, <3>3 DEF Closing
  <2> QED
    BY <2>1, <2>2, <2>7 DEF Lifecycle
<1>7. CASE HandleWrite
  <2>1. /\ index = "kAdded" /\ "write" \in events
        /\ UNCHANGED <<state, mapped, ioTasks, baseTasks, caller, closes, ups, downs>>
        /\ \/ UNCHANGED <<events, index>>
           \/ events' = events \ {"write"} /\ ("read" \in events => index' = "kAdded")
    BY <1>7 DEF HandleWrite, Polled, UpdateChannel, channel, history
  <2>2. ups = 1 /\ ~Destroyed
    BY <2>1 DEF Lifecycle, NotYetUp, Destroyed
  <2>3. Open => Open'
    BY <2>1 DEF Open
  <2>4. Closing => Closing'
    BY <2>1 DEF Closing
  <2> QED
    BY <1>a, <2>1, <2>2, <2>3, <2>4
<1>8. CASE WriteCompleted
  BY <1>0, <1>8 DEF WriteCompleted, channel, history
<1>9. CASE ConnectEstablished
  <2>1. /\ ioTasks # <<>> /\ Head(ioTasks) = "connectEstablished" /\ ioTasks' = Tail(ioTasks)
        /\ state' = "kConnected" /\ events' = events \cup {"read"} /\ index' = "kAdded"
        /\ ups' = ups + 1
        /\ UNCHANGED <<mapped, baseTasks, caller, closes, downs>>
    BY <1>9 DEF ConnectEstablished, TakeIoTask, UpdateChannel
  <2>2. ups = 0 /\ NotYetUp
    BY <2>1, QueueHead DEF Lifecycle, Open, Closing, Destroyed
  <2>3. ioTasks' = <<>>
    BY <2>1, <2>2 DEF NotYetUp
  <2>4. ioTasks' \in Queues(FALSE, caller)
    BY <2>3 DEF Queues
  <2>5. Open'
    BY <2>1, <2>2, <2>3, <2>4 DEF NotYetUp, Open
  <2> QED
    BY <2>1, <2>2, <2>5 DEF Lifecycle
<1>10. CASE RunShutdownInLoop
  <2>1. /\ ioTasks # <<>> /\ Head(ioTasks) = "shutdownInLoop" /\ ioTasks' = Tail(ioTasks)
        /\ UNCHANGED <<state, mapped, baseTasks, events, index, caller, closes, ups, downs>>
    BY <1>10 DEF RunShutdownInLoop, TakeIoTask, channel, history
  <2>2. ups = 1
    BY <2>1 DEF Lifecycle, NotYetUp
  <2>3. \A d \in BOOLEAN : ioTasks \in Queues(d, caller) =>
            ioTasks' \in Queues(d, caller)
    BY <2>1, QueueHead
  <2>4. Open => Open'
    BY <2>1, <2>3 DEF Open
  <2>5. Closing => Closing'
    BY <2>1, <2>3 DEF Closing
  <2>6. Destroyed => Destroyed'
    BY <2>1, <2>3 DEF Destroyed
  <2> QED
    BY <1>a, <2>1, <2>2, <2>4, <2>5, <2>6
<1>11. CASE RemoveConnectionInLoop
  <2>1. /\ baseTasks # <<>> /\ baseTasks' = Tail(baseTasks) /\ mapped' = FALSE
        /\ ioTasks' = Append(ioTasks, "connectDestroyed")
        /\ UNCHANGED <<state, events, index, caller, closes, ups, downs>>
    BY <1>11 DEF RemoveConnectionInLoop, RemoveConnection, channel, history
  <2>2. /\ ups = 1 /\ Closing
        /\ baseTasks = <<"removeConnectionInLoop">>
        /\ ioTasks \in Queues(FALSE, caller)
    BY <2>1 DEF Lifecycle, NotYetUp, Open, Closing, Destroyed
  <2>3. baseTasks' = <<>>
    BY <2>1, <2>2
  <2>4. ioTasks' \in Queues(TRUE, caller)
    BY <2>1, <2>2, QueueAppend
  <2>5. Closing'
    BY <2>1, <2>2, <2>3, <2>4 DEF Closing
  <2> QED
    BY <2>1, <2>2, <2>5 DEF Lifecycle
<1>12. CASE ConnectDestroyed
  <2>1. /\ ioTasks # <<>> /\ Head(ioTasks) = "connectDestroyed" /\ ioTasks' = Tail(ioTasks)
        /\ state' = "kDisconnected" /\ downs' = downs + 1
        /\ events' = {} /\ index' = "kNew"
        /\ UNCHANGED <<mapped, baseTasks, caller, closes, ups>>
    BY <1>12 DEF ConnectDestroyed, TakeIoTask
  <2>2. ~(ioTasks \in Queues(FALSE, caller))
    BY <2>1, QueueHead
  <2>3. ups = 1 /\ Closing
    <3>1. ~NotYetUp
      BY <2>1 DEF NotYetUp
    <3>2. ~Open /\ ~Destroyed
      BY <2>2 DEF Open, Destroyed
    <3> QED
      BY <3>1, <3>2 DEF Lifecycle
  <2>4. mapped = FALSE /\ baseTasks = <<>> /\ ioTasks \in Queues(TRUE, caller)
    BY <2>2, <2>3 DEF Closing
  <2>5. ioTasks' \in Queues(FALSE, caller)
    BY <2>1, <2>4, QueueHead
  <2>6. Destroyed'
    <3>1. closes' = 1 /\ downs' = 1
      BY <2>1, <2>3 DEF Closing
    <3> QED
      BY <2>1, <2>4, <2>5, <3>1 DEF Destroyed
  <2> QED
    BY <2>1, <2>3, <2>6 DEF Lifecycle
<1>13. CASE PeerDrains \/ PeerCloses
  BY <1>0, <1>13 DEF PeerDrains, PeerCloses, channel, history
<1>14. CASE UNCHANGED vars
  BY <1>0, <1>14 DEF vars
<1> QED
  BY <1>1, <1>2, <1>3, <1>4, <1>5, <1>6, <1>7, <1>8, <1>9, <1>10, <1>11, <1>12, <1>13, <1>14
  DEF Next
(* Every step keeps the writable event where bytes wait: a buffered remainder   *)
(* switches it on, the last byte off, and only the end of the stream or the end *)
(* of the connection takes it away (TcpConnection.cc 88-93, 129-130, 157-163).  *)
LEMMA StrandedNext ==
    TypeOK /\ Lifecycle /\ NoStrandedBytes /\ [Next]_vars => NoStrandedBytes'
<1> SUFFICES ASSUME TypeOK, Lifecycle, NoStrandedBytes, [Next]_vars PROVE NoStrandedBytes'
  OBVIOUS
<1>0. ASSUME UNCHANGED <<events, output, closes>> PROVE NoStrandedBytes'
  BY <1>0 DEF NoStrandedBytes, isWriting
<1>1. ASSUME NEW n \in 1..MaxSent, Send(n) PROVE NoStrandedBytes'
  <2> DEFINE w == WrittenAtOnce(n)
             B == Bytes(n)
  <2>1. n \in Nat /\ sent \in Nat /\ n > 0 /\ output \in Seq(Nat)
    BY MaxSentAssumption DEF TypeOK
  <2>2. w \in 0..n /\ (w = 0 \/ (output = <<>> /\ "write" \notin events))
    BY <2>1, WrittenAtOnceFacts DEF isWriting
  <2>3. B \in Seq(Nat) /\ Len(B) = n
    BY <2>1, BytesContinue
  <2>4. output' = output \o Drop(B, w) /\ closes' = closes
    BY <1>1 DEF Send, WriteBytes, history
  <2>5. IF w < n /\ "write" \notin events THEN events' = events \cup {"write"}
        ELSE events' = events
    BY <1>1 DEF Send, UpdateChannel, isWriting, channel
  <2> HIDE DEF w, B
  <2>6. Drop(B, w) \in Seq(Nat) /\ Len(Drop(B, w)) = n - w
    BY <2>2, <2>3, TakeDrop
  <2>7. Drop(B, w) = <<>> <=> w = n
    BY <2>1, <2>2, <2>6, EmptySeq
  <2>8. output' = <<>> <=> (output = <<>> /\ Drop(B, w) = <<>>)
    BY <2>1, <2>4, <2>6, ConcatEqualIffEmpty
  <2> QED
    BY <2>1, <2>2, <2>4, <2>5, <2>7, <2>8 DEF NoStrandedBytes, isWriting
<1>2. CASE HandleRead
  <2>1. closes' = closes + 1 /\ closes \in Nat
    BY <1>2 DEF HandleRead, HandleClose, TypeOK
  <2> QED
    BY <2>1 DEF NoStrandedBytes
<1>3. CASE HandleWrite
  <2> DEFINE w == Min(Len(output), Room)
  <2>1. /\ Len(output) \in Nat /\ output \in Seq(Nat)
        /\ inflight \in Nat /\ SockBuf \in Nat /\ inflight <= SockBuf
    BY LenProperties, SockBufAssumption DEF TypeOK
  <2>2. w \in 0..Len(output)
    BY <2>1 DEF Min, Room
  <2>3. /\ "write" \in events /\ output' = Drop(output, w) /\ closes' = closes
        /\ IF w = Len(output) THEN events' = events \ {"write"} ELSE events' = events
    BY <1>3 DEF HandleWrite, WriteBytes, UpdateChannel, Polled, channel, history
  <2> HIDE DEF w
  <2>4. output' \in Seq(Nat) /\ Len(output') = Len(output) - w
    BY <2>1, <2>2, <2>3, TakeDrop
  <2>5. output' = <<>> <=> w = Len(output)
    BY <2>1, <2>2, <2>4, EmptySeq
  <2> QED
    BY <2>3, <2>5 DEF NoStrandedBytes, isWriting
<1>4. CASE ConnectEstablished
  <2>1. events' = events \cup {"read"} /\ UNCHANGED <<output, closes>>
    BY <1>4 DEF ConnectEstablished, UpdateChannel, data
  <2> QED
    BY <2>1 DEF NoStrandedBytes, isWriting
<1>5. CASE ConnectDestroyed
  <2>1. ioTasks # <<>> /\ Head(ioTasks) = "connectDestroyed" /\ closes' = closes
    BY <1>5 DEF ConnectDestroyed, TakeIoTask
  <2>2. ~NotYetUp
    BY <2>1 DEF NotYetUp
  <2>3. ~Open
    BY <2>1, QueueHead DEF Open
  <2>4. closes = 1
    BY <2>2, <2>3 DEF Lifecycle, Closing, Destroyed
  <2> QED
    BY <2>1, <2>4 DEF NoStrandedBytes
<1>6. CASE Shutdown \/ ShutdownRead \/ ShutdownSet \/ ShutdownQueue
  BY <1>0, <1>6 DEF Shutdown, ShutdownRead, ShutdownSet, ShutdownQueue, data, channel, history
<1>7. CASE WriteCompleted \/ RunShutdownInLoop \/ RemoveConnectionInLoop
  BY <1>0, <1>7
  DEF WriteCompleted, RunShutdownInLoop, RemoveConnectionInLoop, data, channel, history
<1>8. CASE PeerDrains \/ PeerCloses
  BY <1>0, <1>8 DEF PeerDrains, PeerCloses, data, channel, history
<1>9. CASE UNCHANGED vars
  BY <1>0, <1>9 DEF vars
<1> QED
  BY <1>1, <1>2, <1>3, <1>4, <1>5, <1>6, <1>7, <1>8, <1>9 DEF Next

----------------------------------------------------------------------------
(* The theorems *)

(* IInv is an invariant. *)
LEMMA IInvHolds == Spec => []IInv
<1>1. IInv /\ [Next]_vars => IInv'
  BY TypeNext, LifecycleNext, BytesNext, StrandedNext DEF IInv
<1> QED
  BY <1>1, IInvInit, PTL DEF Spec

(* Every reachable state is type correct. *)
THEOREM TypeCorrect == Spec => []TypeOK
<1>1. IInv => TypeOK
  BY DEF IInv
<1> QED
  BY <1>1, IInvHolds, PTL

(* Direct, partial, failed and buffered writes keep the bytes in the order of   *)
(* send() (TcpConnection.cc 61-94, 121-150).                                    *)
THEOREM BytesStayInOrder == Spec => []BytesInOrder
<1>1. IInv => BytesInOrder
  BY DEF IInv
<1> QED
  BY <1>1, IInvHolds, PTL

(* Until the end of the stream, bytes wait exactly while the writable event is  *)
(* enabled (TcpConnection.cc 88-93, 129-130).                                   *)
THEOREM BytesNeverStranded == Spec => []NoStrandedBytes
<1>1. IInv => NoStrandedBytes
  BY DEF IInv
<1> QED
  BY <1>1, IInvHolds, PTL

(* One beginning and one end, and the assertions on state_ and on the server's  *)
(* map hold in every interleaving (TcpConnection.cc 99, 157, 192, TcpServer.cc  *)
(* 89).                                                                         *)
THEOREM OneLifecycleHolds == Spec => []OneLifecycle
<1>1. TypeOK /\ Lifecycle => OneLifecycle
  <2> SUFFICES ASSUME TypeOK, Lifecycle PROVE OneLifecycle
    OBVIOUS
  <2>1. closes <= 1 /\ ups <= 1 /\ downs <= closes
    <3>1. /\ ups = 0 \/ ups = 1
          /\ (closes = 0 /\ downs = 0) \/ (closes = 1 /\ downs = 0) \/ (closes = 1 /\ downs = 1)
      BY Zenon DEF Lifecycle, NotYetUp, Open, Closing, Destroyed
    <3> QED
      BY <3>1
  <2>2. Polled("read") => state \in {"kConnected", "kDisconnecting"}
    BY DEF Lifecycle, NotYetUp, Open, Closing, Destroyed, Polled
  <2>3. baseTasks # <<>> => mapped = TRUE /\ Len(baseTasks) = 1
    <3>1. baseTasks = <<>> \/ (mapped = TRUE /\ baseTasks = <<"removeConnectionInLoop">>)
      BY DEF Lifecycle, NotYetUp, Open, Closing, Destroyed
    <3> QED
      BY <3>1
  <2>4. ASSUME ioTasks # <<>>, Head(ioTasks) = "connectEstablished"
        PROVE  state = "kConnecting" /\ ups = 0
    <3>1. \A d \in BOOLEAN : ~(ioTasks \in Queues(d, caller))
      BY <2>4, QueueHead
    <3> QED
      BY <3>1 DEF Lifecycle, NotYetUp, Open, Closing, Destroyed
  <2>5. ASSUME ioTasks # <<>>, Head(ioTasks) = "connectDestroyed"
        PROVE  state \in {"kConnected", "kDisconnecting"} /\ mapped = FALSE /\ downs = 0
    <3>1. ~(ioTasks \in Queues(FALSE, caller))
      BY <2>5, QueueHead
    <3>2. ~NotYetUp
      BY <2>5 DEF NotYetUp
    <3>3. Closing /\ mapped = FALSE
      BY <3>1, <3>2 DEF Lifecycle, Open, Closing, Destroyed
    <3> QED
      BY <3>3 DEF Closing
  <2> QED
    BY <2>1, <2>2, <2>3, <2>4, <2>5 DEF OneLifecycle
<1>2. IInv => OneLifecycle
  BY <1>1 DEF IInv
<1> QED
  BY <1>2, IInvHolds, PTL

(* The write side is never shut down before bytes that wait, unless the end of  *)
(* the stream came first (TcpConnection.cc 135-137, 180-186): shutdownInLoop()  *)
(* looks at the writable event, which by NoStrandedBytes tells of the buffer.   *)
THEOREM NothingTruncated == Spec => NoTruncation
<1>1. IInv /\ [Next]_vars => [writeShut' /\ ~writeShut => output = <<>> \/ closes > 0]_vars
  <2> SUFFICES ASSUME IInv, Next, writeShut', ~writeShut
               PROVE  output = <<>> \/ closes > 0
    BY DEF vars
  <2>1. CASE Shutdown \/ WriteCompleted \/ RunShutdownInLoop
    <3>1. ~isWriting
      BY <2>1 DEF Shutdown, WriteCompleted, RunShutdownInLoop, ShutdownInLoop
    <3> QED
      BY <3>1 DEF IInv, TypeOK, NoStrandedBytes
  <2>2. ASSUME writeShut' = writeShut PROVE FALSE
    BY <2>2
  <2>3. ASSUME NEW n \in 1..MaxSent, Send(n) PROVE FALSE
    BY <2>2, <2>3 DEF Send
  <2>4. CASE ShutdownRead \/ ShutdownSet \/ ShutdownQueue \/ HandleRead \/ HandleWrite
    BY <2>2, <2>4 DEF ShutdownRead, ShutdownSet, ShutdownQueue, HandleRead, HandleWrite
  <2>5. CASE ConnectEstablished \/ RemoveConnectionInLoop \/ ConnectDestroyed
    BY <2>2, <2>5 DEF ConnectEstablished, RemoveConnectionInLoop, ConnectDestroyed
  <2>6. CASE PeerDrains \/ PeerCloses
    BY <2>2, <2>6 DEF PeerDrains, PeerCloses
  <2> QED
    BY <2>1, <2>3, <2>4, <2>5, <2>6 DEF Next
<1> QED
  BY <1>1, IInvHolds, PTL DEF Spec, NoTruncation
=============================================================================
