------------------------- MODULE AsyncLoggingProofs -------------------------
(***************************************************************************)
(* Proofs about AsyncLogging and its LogFile, for any number of lines,     *)
(* buffers of any size and all times at which files are rolled.            *)
(***************************************************************************)
EXTENDS AsyncLogging, SequenceTheorems, WellFoundedInduction, TLAPS

Lines == Seq(Nat)
Buffer == Lines \cup {Null}
Fresh == {<<>>, Null}

(* The variables of the LogFile have their types. *)
FileTypeOK ==
    /\ now \in 0..MaxNow /\ name \in 0..now /\ stdio \in Lines /\ disk \in [0..MaxNow -> Lines]
    /\ written \in Nat /\ startDay \in Nat /\ lastFlush \in 0..now /\ stamps \in Seq(Nat)
    /\ relocking \in BOOLEAN

(* The others have theirs; the spare buffers are empty, or gone. *)
BufferTypeOK ==
    /\ current \in Buffer /\ next \in Fresh /\ new1 \in Fresh /\ new2 \in Fresh
    /\ buffers \in Seq(Buffer) /\ toWrite \in Seq(Buffer)
    /\ running \in BOOLEAN /\ at \in {"loop", "none", "enter", "waiting", "writing", "done"}
    /\ notified \in BOOLEAN /\ stopping \in {"no", "set", "joining", "stopped"}
    /\ lines \in Nat /\ crashed \in BOOLEAN

TypeOK == FileTypeOK /\ BufferTypeOK

(* Files are made in the order of their names. *)
LaterEmpty == \A s \in 0..MaxNow : s > name => disk[s] = <<>>

(* What is in the LogFile are the first lines, each with its time. *)
UpTo(n) == [i \in 1..n |-> i]
LoggedFirst == Logged = UpTo(Len(stamps))
Stamped ==
    /\ \A s \in 0..MaxNow : ToSet(disk[s]) \subseteq 1..Len(stamps)
    /\ ToSet(stdio) \subseteq 1..Len(stamps)

(* The open file has lines of its own day only. *)
Day(t) == t \div SecondsPerDay
OpenOfOneDay ==
    /\ startDay = Day(name)
    /\ \A n \in ToSet(disk[name]) \cup ToSet(stdio) : Day(stamps[n]) = startDay

(* A file that was closed has lines of its own day, and possibly of one later   *)
(* call of append() at its end.                                                 *)
LastOf(q) == q[Len(q)]
ClosedOfOneDay ==
    \A s \in 0..MaxNow : s # name =>
        \A n \in ToSet(disk[s]) : Day(stamps[n]) = Day(s) \/ stamps[n] = stamps[LastOf(disk[s])]

FileInv ==
    FileTypeOK /\ LaterEmpty /\ LoggedFirst /\ Stamped /\ OpenOfOneDay /\ ClosedOfOneDay

(* The backend holds buffers only while it writes them; without a backend there *)
(* are none, and every line has gone to the LogFile.                            *)
Held ==
    /\ at # "writing" => toWrite = <<>>
    /\ at = "none" => current = <<>> /\ buffers = <<>> /\ lines = Len(stamps)

IInv == FileInv /\ BufferTypeOK /\ Held /\ LinesInOrder

----------------------------------------------------------------------------
(* FlattenSeq *)

(* Induction over the natural numbers, for a set instead of a predicate: the    *)
(* least number that is not in the set has no predecessor.                      *)
LEMMA Induction ==
    ASSUME NEW T \in SUBSET Nat, 0 \in T, \A n \in T : n + 1 \in T
    PROVE  T = Nat
<1> DEFINE less == {ss \in Nat \X Nat : ss[1] < ss[2]}
           rest == Nat \ T
<1>1. IsWellFoundedOn(less, Nat)
  BY NatLessThanWellFounded DEF OpToRel
<1>2. SUFFICES ASSUME rest # {} PROVE FALSE
  OBVIOUS
<1>3. rest \subseteq Nat
  OBVIOUS
<1> HIDE DEF less, rest
<1>4. PICK x \in rest : \A y \in rest : ~(<<y, x>> \in less)
  BY <1>1, <1>2, <1>3, WFMin, Zenon
<1>5. x \in Nat /\ x \notin T /\ x # 0
  BY <1>4 DEF rest
<1>6. x - 1 \in Nat /\ (x - 1) + 1 = x /\ <<x - 1, x>> \in less
  BY <1>5 DEF less
<1>7. x - 1 \notin T
  BY <1>5, <1>6
<1> QED
  BY <1>4, <1>6, <1>7 DEF rest

(* The sequences FlattenSeq joins, and how far it has come at each of them. *)
Pieces == Seq(Seq(Nat))
Joining(s, n, f) ==
    f = [i \in 1..n |-> IF i = 1 THEN s[i] ELSE f[i - 1] \o s[i]]
Joined(s) == CHOOSE f : Joining(s, Len(s), f)

(* The recursion that defines FlattenSeq has a solution. *)
LEMMA JoiningExists ==
    ASSUME NEW s
    PROVE  \A n \in Nat : \E f : Joining(s, n, f)
<1> DEFINE T == {n \in Nat : \E f : Joining(s, n, f)}
<1>1. 0 \in T
  <2>1. Joining(s, 0, [i \in 1..0 |-> s[i]])
    BY DEF Joining
  <2> QED
    BY <2>1
<1>2. ASSUME NEW n \in T PROVE n + 1 \in T
  <2>1. PICK f : Joining(s, n, f)
    OBVIOUS
  <2> DEFINE g == [i \in 1..(n + 1) |->
                     IF i = 1 THEN s[i]
                     ELSE IF i = n + 1 THEN f[n] \o s[i] ELSE f[i]]
  <2>2. ASSUME NEW i \in 1..(n + 1)
        PROVE  g[i] = IF i = 1 THEN s[i] ELSE g[i - 1] \o s[i]
    <3>1. CASE i = 1
      BY <3>1
    <3>2. CASE i # 1 /\ i = n + 1
      <4>1. n \in 1..n /\ n \in 1..(n + 1) /\ i - 1 = n /\ n # n + 1
        BY <3>2
      <4>2. g[n] = f[n]
        BY <2>1, <4>1 DEF Joining
      <4> QED
        BY <3>2, <4>1, <4>2
    <3>3. CASE i # 1 /\ i # n + 1
      <4>1. /\ i \in 1..n /\ i - 1 \in 1..n /\ i - 1 \in 1..(n + 1) /\ i - 1 # n + 1
        BY <3>3
      <4>2. f[i] = f[i - 1] \o s[i]
        BY <2>1, <3>3, <4>1 DEF Joining
      <4>3. g[i] = f[i]
        BY <3>3
      <4>4. g[i - 1] = f[i - 1]
        BY <2>1, <4>1 DEF Joining
      <4> QED
        BY <3>3, <4>2, <4>3, <4>4
    <3> QED
      BY <3>1, <3>2, <3>3
  <2>3. Joining(s, n + 1, g)
    <3> HIDE DEF g
    <3>1. g = [i \in 1..(n + 1) |-> g[i]]
      BY DEF g
    <3> QED
      BY <2>2, <3>1 DEF Joining
  <2> QED
    BY <2>3
<1> HIDE DEF T
<1>3. T = Nat
  <2>1. T \in SUBSET Nat
    BY DEF T
  <2> QED
    BY <1>1, <1>2, <2>1, Induction
<1> QED
  BY <1>3 DEF T

(* The pieces are joined from the left. *)
LEMMA JoinedFacts ==
    ASSUME NEW s \in Pieces
    PROVE  \A i \in 1..Len(s) :
               /\ Joined(s)[i] = IF i = 1 THEN s[i] ELSE Joined(s)[i - 1] \o s[i]
               /\ Joined(s)[i] \in Seq(Nat)
<1> DEFINE n == Len(s)
           f == Joined(s)
<1>1. n \in Nat /\ \A i \in 1..n : s[i] \in Seq(Nat)
  BY LenProperties, ElementOfSeq DEF Pieces
<1>2. Joining(s, n, f)
  BY <1>1, JoiningExists DEF Joined
<1> HIDE DEF n, f
<1>3. \A i \in 1..n : f[i] = IF i = 1 THEN s[i] ELSE f[i - 1] \o s[i]
  BY <1>2 DEF Joining
<1> DEFINE T == {m \in Nat : m \in 1..n => f[m] \in Seq(Nat)}
<1>4. 0 \in T
  OBVIOUS
<1>5. ASSUME NEW m \in T PROVE m + 1 \in T
  <2> SUFFICES ASSUME m + 1 \in 1..n PROVE f[m + 1] \in Seq(Nat)
    OBVIOUS
  <2>1. CASE m = 0
    BY <1>1, <1>3, <2>1
  <2>2. CASE m # 0
    <3>1. m \in 1..n /\ m + 1 # 1 /\ (m + 1) - 1 = m
      BY <1>1, <2>2
    <3>2. f[m] \in Seq(Nat) /\ s[m + 1] \in Seq(Nat)
      BY <1>1, <3>1
    <3>3. f[m + 1] = f[m] \o s[m + 1]
      BY <1>3, <3>1
    <3> QED
      BY <3>2, <3>3, ConcatProperties
  <2> QED
    BY <2>1, <2>2
<1> HIDE DEF T
<1>6. T = Nat
  <2>1. T \in SUBSET Nat
    BY DEF T
  <2> QED
    BY <1>4, <1>5, <2>1, Induction
<1>7. \A i \in 1..n : f[i] \in Seq(Nat)
  BY <1>1, <1>6 DEF T
<1> QED
  BY <1>3, <1>7 DEF f, n

(* FlattenSeq gives what has been joined at the end. *)
LEMMA FlattenFacts ==
    ASSUME NEW s \in Pieces
    PROVE  /\ s = <<>> => FlattenSeq(s) = <<>>
           /\ s # <<>> => Len(s) \in 1..Len(s) /\ FlattenSeq(s) = Joined(s)[Len(s)]
           /\ FlattenSeq(s) \in Seq(Nat)
<1>1. Len(s) \in Nat /\ (s # <<>> => Len(s) # 0)
  BY EmptySeq, LenProperties DEF Pieces
<1>2. CASE s = <<>>
  <2>1. Len(s) = 0
    BY <1>2
  <2>2. FlattenSeq(s) = s
    BY <2>1 DEF FlattenSeq
  <2> QED
    BY <1>2, <2>2, EmptySeq
<1>3. CASE s # <<>>
  <2>1. FlattenSeq(s) = Joined(s)[Len(s)]
    BY <1>1, <1>3 DEF FlattenSeq, Joined, Joining
  <2>2. Len(s) \in 1..Len(s)
    BY <1>1, <1>3
  <2> QED
    BY <1>3, <2>1, <2>2, JoinedFacts
<1> QED
  BY <1>2, <1>3

(* Joining lines is associative. *)
LEMMA ConcatLines ==
    ASSUME NEW s \in Seq(Nat), NEW t \in Seq(Nat), NEW u \in Seq(Nat)
    PROVE  (s \o t) \o u = s \o (t \o u) /\ s \o t \in Seq(Nat)
<1>1. (s \o t) \o u = s \o (t \o u)
  BY ConcatAssociative
<1>2. s \o t \in Seq(Nat)
  BY ConcatProperties
<1> QED
  BY <1>1, <1>2

(* Pieces that begin alike are joined alike. *)
LEMMA JoinedPrefix ==
    ASSUME NEW s \in Pieces, NEW t \in Pieces, NEW k \in Nat, k <= Len(s), k <= Len(t),
           \A i \in 1..k : s[i] = t[i]
    PROVE  \A i \in 1..k : Joined(s)[i] = Joined(t)[i]
<1> DEFINE T == {m \in Nat : m \in 1..k => Joined(s)[m] = Joined(t)[m]}
<1>1. Len(s) \in Nat /\ Len(t) \in Nat
  BY LenProperties DEF Pieces
<1>2. 0 \in T
  OBVIOUS
<1>3. ASSUME NEW m \in T PROVE m + 1 \in T
  <2> SUFFICES ASSUME m + 1 \in 1..k PROVE Joined(s)[m + 1] = Joined(t)[m + 1]
    OBVIOUS
  <2>1. /\ m + 1 \in 1..Len(s) /\ m + 1 \in 1..Len(t) /\ (m + 1) - 1 = m
        /\ m + 1 # 1 => m \in 1..k
    BY <1>1
  <2>2. /\ Joined(s)[m + 1] = IF m + 1 = 1 THEN s[m + 1] ELSE Joined(s)[m] \o s[m + 1]
        /\ Joined(t)[m + 1] = IF m + 1 = 1 THEN t[m + 1] ELSE Joined(t)[m] \o t[m + 1]
    BY <2>1, JoinedFacts
  <2> QED
    BY <2>1, <2>2
<1> HIDE DEF T
<1>4. T = Nat
  <2>1. T \in SUBSET Nat
    BY DEF T
  <2> QED
    BY <1>2, <1>3, <2>1, Induction
<1> QED
  BY <1>4 DEF T

(* A piece at the end is joined last. *)
LEMMA FlattenAppend ==
    ASSUME NEW s \in Pieces, NEW x \in Seq(Nat)
    PROVE  Append(s, x) \in Pieces /\ FlattenSeq(Append(s, x)) = FlattenSeq(s) \o x
<1> DEFINE t == Append(s, x)
           n == Len(s)
<1>1. /\ t \in Pieces /\ t # <<>> /\ Len(t) = n + 1 /\ n \in Nat
      /\ \A i \in 1..n : t[i] = s[i]
      /\ t[n + 1] = x
  BY AppendProperties, LenProperties DEF Pieces
<1> HIDE DEF t
<1>2. FlattenSeq(t) = Joined(t)[n + 1]
  BY <1>1, FlattenFacts
<1>3. n + 1 \in 1..Len(t) /\ (n + 1) - 1 = n
  BY <1>1
<1>4. CASE s = <<>>
  <2>1. n = 0
    BY <1>4
  <2>2. Joined(t)[n + 1] = x
    BY <1>1, <1>3, <2>1, JoinedFacts
  <2>3. FlattenSeq(s) \o x = x
    BY <1>4, FlattenFacts, ConcatEmptySeq
  <2> QED
    BY <1>1, <1>2, <2>2, <2>3 DEF t
<1>5. CASE s # <<>>
  <2>1. n # 0 /\ n \in 1..n
    BY <1>1, <1>5, FlattenFacts
  <2>2. Joined(t)[n + 1] = Joined(t)[n] \o x
    <3>1. Joined(t)[n + 1] =
             IF n + 1 = 1 THEN t[n + 1] ELSE Joined(t)[(n + 1) - 1] \o t[n + 1]
      BY <1>1, <1>3, JoinedFacts
    <3>2. n + 1 # 1
      BY <1>1, <2>1
    <3> QED
      BY <1>1, <1>3, <3>1, <3>2
  <2>3. Joined(s)[n] = Joined(t)[n]
    BY <1>1, <2>1, JoinedPrefix
  <2>4. FlattenSeq(s) = Joined(s)[n]
    BY <1>5, FlattenFacts
  <2> QED
    BY <1>1, <1>2, <2>2, <2>3, <2>4 DEF t
<1> QED
  BY <1>4, <1>5

(* The first piece comes first. *)
LEMMA FlattenTail ==
    ASSUME NEW s \in Pieces, s # <<>>
    PROVE  /\ Tail(s) \in Pieces /\ Head(s) \in Seq(Nat)
           /\ FlattenSeq(s) = Head(s) \o FlattenSeq(Tail(s))
<1> DEFINE t == Tail(s)
           n == Len(s)
<1>1. /\ t \in Pieces /\ Len(t) = n - 1 /\ n \in Nat \ {0}
      /\ \A i \in 1..(n - 1) : t[i] = s[i + 1]
      /\ s[1] \in Seq(Nat) /\ Head(s) = s[1]
  BY HeadTailProperties, EmptySeq DEF Pieces
<1> HIDE DEF t, n
<1> DEFINE from2(m) == Joined(s)[m + 1]
           T == {m \in Nat : m \in 1..(n - 1) => from2(m) = s[1] \o Joined(t)[m]}
<1>2. n = Len(s) /\ 1 \in 1..n
  BY <1>1 DEF n
<1>3. Joined(s)[1] = s[1]
  BY <1>2, JoinedFacts
<1>4. 0 \in T
  OBVIOUS
<1>5. ASSUME NEW m \in T PROVE m + 1 \in T
  <2>1. m \in Nat /\ m + 1 \in Nat /\ (m \in 1..(n - 1) => from2(m) = s[1] \o Joined(t)[m])
    <3>1. m \in Nat /\ (m \in 1..(n - 1) => from2(m) = s[1] \o Joined(t)[m])
      BY Zenon
    <3>2. m + 1 \in Nat
      BY <3>1
    <3> QED
      BY <3>1, <3>2, Zenon
  <2>2. ASSUME m + 1 \in 1..(n - 1) PROVE from2(m + 1) = s[1] \o Joined(t)[m + 1]
    <3> DEFINE k == m + 1
    <3>1. /\ k + 1 \in 1..n /\ k + 1 # 1 /\ (k + 1) - 1 = k /\ k \in 1..Len(t) /\ k - 1 = m
          /\ k \in 1..(n - 1)
      BY <1>1, <2>1, <2>2
    <3>2. t[k] \in Seq(Nat) /\ t[k] = s[k + 1]
      BY <1>1, <3>1, ElementOfSeq DEF Pieces
    <3>3. Joined(s)[k + 1] = Joined(s)[k] \o t[k]
      <4>1. Joined(s)[k + 1] =
               IF k + 1 = 1 THEN s[k + 1] ELSE Joined(s)[(k + 1) - 1] \o s[k + 1]
        BY <1>2, <3>1, JoinedFacts
      <4> QED
        BY <3>1, <3>2, <4>1
    <3>4. /\ Joined(t)[k] = IF k = 1 THEN t[k] ELSE Joined(t)[k - 1] \o t[k]
      BY <1>1, <3>1, JoinedFacts
    <3>5. CASE m = 0
      <4>1. k = 1
        BY <3>5
      <4> QED
        BY <1>3, <3>3, <3>4, <4>1
    <3>6. CASE m # 0
      <4>1. m \in 1..(n - 1) /\ m \in 1..Len(t) /\ k # 1
        BY <1>1, <2>1, <2>2, <3>6
      <4>2. Joined(t)[m] \in Seq(Nat)
        BY <1>1, <4>1, JoinedFacts
      <4>3. Joined(s)[k] = s[1] \o Joined(t)[m]
        BY <2>1, <4>1
      <4>4. Joined(t)[k] = Joined(t)[m] \o t[k]
        BY <3>1, <3>4, <4>1
      <4>5. (s[1] \o Joined(t)[m]) \o t[k] = s[1] \o (Joined(t)[m] \o t[k])
        BY <1>1, <3>2, <4>2, ConcatLines
      <4> QED
        BY <3>3, <4>3, <4>4, <4>5
    <3> QED
      BY <3>5, <3>6
  <2> HIDE DEF from2
  <2> QED
    BY <2>1, <2>2
<1> HIDE DEF T
<1>6. T = Nat
  <2>1. T \in SUBSET Nat
    BY DEF T
  <2> QED
    BY <1>4, <1>5, <2>1, Induction
<1>7. FlattenSeq(s) = Joined(s)[n]
  BY <1>2, FlattenFacts
<1>8. CASE n = 1
  <2>1. t = <<>>
    BY <1>1, <1>8, EmptySeq DEF Pieces
  <2>2. FlattenSeq(t) = <<>>
    BY <1>1, <2>1, FlattenFacts
  <2>3. s[1] \o FlattenSeq(t) = s[1]
    BY <1>1, <2>2, ConcatEmptySeq
  <2> QED
    BY <1>1, <1>3, <1>7, <1>8, <2>3 DEF t
<1>9. CASE n # 1
  <2>1. n - 1 \in 1..(n - 1) /\ n - 1 \in Nat /\ (n - 1) + 1 = n /\ Len(t) # 0
    BY <1>1, <1>9
  <2>2. Joined(s)[n] = s[1] \o Joined(t)[n - 1]
    BY <1>6, <2>1 DEF T
  <2>3. t # <<>>
    BY <2>1
  <2>4. FlattenSeq(t) = Joined(t)[n - 1]
    BY <1>1, <2>3, FlattenFacts
  <2> QED
    BY <1>1, <1>7, <2>2, <2>4 DEF t
<1> QED
  BY <1>8, <1>9

(* Pieces that are all empty give nothing. *)
LEMMA FlattenEmpty ==
    ASSUME NEW s \in Pieces, \A i \in 1..Len(s) : s[i] = <<>>
    PROVE  FlattenSeq(s) = <<>>
<1> DEFINE n == Len(s)
           T == {m \in Nat : m \in 1..n => Joined(s)[m] = <<>>}
<1>1. n \in Nat
  BY LenProperties DEF Pieces
<1>2. 0 \in T
  OBVIOUS
<1>3. ASSUME NEW m \in T PROVE m + 1 \in T
  <2>1. m \in Nat /\ (m \in 1..n => Joined(s)[m] = <<>>)
    BY Zenon
  <2>2. ASSUME m + 1 \in 1..n PROVE Joined(s)[m + 1] = <<>>
    <3>1. s[m + 1] = <<>> /\ (m + 1) - 1 = m /\ (m + 1 # 1 => m \in 1..n)
      BY <1>1, <2>1, <2>2
    <3>2. Joined(s)[m + 1] = IF m + 1 = 1 THEN s[m + 1] ELSE Joined(s)[(m + 1) - 1] \o s[m + 1]
      BY <2>2, JoinedFacts
    <3>3. <<>> \o <<>> = <<>>
      OBVIOUS
    <3> QED
      BY <2>1, <3>1, <3>2, <3>3
  <2>3. m + 1 \in Nat
    BY <2>1
  <2> QED
    BY <2>2, <2>3, Zenon
<1> HIDE DEF T
<1>4. T = Nat
  <2>1. T \in SUBSET Nat
    BY DEF T
  <2> QED
    BY <1>2, <1>3, <2>1, Induction
<1>5. \A i \in 1..n : Joined(s)[i] = <<>>
  BY <1>1, <1>4 DEF T
<1> QED
  BY <1>5, FlattenFacts

(* What is added to the last piece that is not empty is added at the end. *)
LEMMA FlattenUpdate ==
    ASSUME NEW s \in Pieces, NEW t \in Pieces, NEW x \in Seq(Nat), Len(t) = Len(s),
           NEW k \in 1..Len(s), t[k] = s[k] \o x,
           \A i \in 1..Len(s) : i # k => t[i] = s[i],
           \A i \in 1..Len(s) : i > k => s[i] = <<>>
    PROVE  FlattenSeq(t) = FlattenSeq(s) \o x
<1> DEFINE n == Len(s)
           T == {m \in Nat : m \in k..n => Joined(t)[m] = Joined(s)[m] \o x}
<1>1. n \in Nat /\ k \in Nat /\ k # 0 /\ k <= n
  BY LenProperties DEF Pieces
<1>2. s[k] \in Seq(Nat)
  BY ElementOfSeq DEF Pieces
<1>3. Joined(t)[k] = Joined(s)[k] \o x
  <2>1. CASE k = 1
    BY <2>1, JoinedFacts
  <2>2. CASE k # 1
    <3>1. k - 1 \in Nat /\ k - 1 <= Len(s) /\ k - 1 \in 1..(k - 1) /\ k - 1 \in 1..Len(s)
      BY <1>1, <2>2
    <3>2. \A i \in 1..(k - 1) : s[i] = t[i]
      BY <1>1
    <3>3. Joined(s)[k - 1] = Joined(t)[k - 1]
      BY <3>1, <3>2, JoinedPrefix
    <3>4. Joined(s)[k] = Joined(s)[k - 1] \o s[k] /\ Joined(t)[k] = Joined(t)[k - 1] \o t[k]
      BY <2>2, JoinedFacts
    <3>5. Joined(s)[k - 1] \in Seq(Nat)
      BY <3>1, JoinedFacts
    <3>6. (Joined(s)[k - 1] \o s[k]) \o x = Joined(s)[k - 1] \o (s[k] \o x)
      BY <1>2, <3>5, ConcatLines
    <3> QED
      BY <3>3, <3>4, <3>6
  <2> QED
    BY <2>1, <2>2
<1>4. 0 \in T
  BY <1>1
<1>5. ASSUME NEW m \in T PROVE m + 1 \in T
  <2>1. m \in Nat /\ (m \in k..n => Joined(t)[m] = Joined(s)[m] \o x)
    BY Zenon
  <2>2. ASSUME m + 1 \in k..n PROVE Joined(t)[m + 1] = Joined(s)[m + 1] \o x
    <3> DEFINE j == m + 1
    <3>1. CASE j = k
      BY <1>3, <3>1
    <3>2. CASE j # k
      <4>1. /\ j \in 1..n /\ j # 1 /\ j - 1 = m /\ j > k /\ m \in k..n /\ m \in 1..n /\ j # k
        <5>1. m \in Nat /\ n \in Nat /\ k \in Nat /\ k # 0
          BY <1>1, <2>1, Zenon
        <5>2. m + 1 >= k /\ m + 1 <= n /\ m + 1 # k
          <6> HIDE DEF n, T
          <6> QED
            BY <2>2, <3>2, <5>1
        <5> HIDE DEF n, T
        <5>3. m >= k /\ m <= n /\ m # 0
          BY <5>1, <5>2
        <5> QED
          BY <5>1, <5>2, <5>3
      <4>2. s[j] = <<>> /\ t[j] = <<>>
        BY <4>1
      <4>3. Joined(s)[j] = Joined(s)[j - 1] \o s[j] /\ Joined(t)[j] = Joined(t)[j - 1] \o t[j]
        BY <4>1, JoinedFacts
      <4>4. Joined(s)[m] \in Seq(Nat) /\ Joined(t)[m] \in Seq(Nat)
        BY <4>1, JoinedFacts
      <4>5. Joined(s)[m] \o <<>> = Joined(s)[m] /\ Joined(t)[m] \o <<>> = Joined(t)[m]
        BY <4>4, ConcatEmptySeq
      <4> QED
        BY <2>1, <4>1, <4>2, <4>3, <4>5
    <3> QED
      BY <3>1, <3>2
  <2>3. m + 1 \in Nat
    BY <2>1
  <2> QED
    BY <2>2, <2>3, Zenon
<1> HIDE DEF T
<1>6. T = Nat
  <2>1. T \in SUBSET Nat
    BY DEF T
  <2> QED
    BY <1>4, <1>5, <2>1, Induction
<1>7. Joined(t)[n] = Joined(s)[n] \o x
  <2>1. n \in k..n
    BY <1>1
  <2> QED
    BY <1>1, <1>6, <2>1 DEF T
<1>8. s # <<>> /\ t # <<>>
  BY <1>1
<1> QED
  BY <1>7, <1>8, FlattenFacts

----------------------------------------------------------------------------
(* Buffers and files *)

(* Null is no buffer, and has no lines. *)
LEMMA ContentFacts ==
    ASSUME NEW b \in Buffer
    PROVE  /\ Content(b) \in Seq(Nat) /\ (b # Null => Content(b) = b)
           /\ (b \in Fresh => Content(b) = <<>>)
<1>1. b # Null => b \in Seq(Nat)
  BY DEF Buffer, Lines
<1>2. Content(b) = IF b = Null THEN <<>> ELSE b
  BY DEF Content
<1> QED
  BY <1>1, <1>2, EmptySeq DEF Fresh

(* The lines of each of some buffers. *)
Parts(bs) == [i \in 1..Len(bs) |-> Content(bs[i])]

(* The lines of some buffers are those of each, one after the other. *)
LEMMA PartsFacts ==
    ASSUME NEW bs \in Seq(Buffer)
    PROVE  Parts(bs) \in Pieces /\ Len(Parts(bs)) = Len(bs) /\ Contents(bs) = FlattenSeq(Parts(bs))
           /\ Contents(bs) \in Seq(Nat)
<1>1. Len(bs) \in Nat /\ \A i \in 1..Len(bs) : Content(bs[i]) \in Seq(Nat)
  BY LenProperties, ElementOfSeq, ContentFacts
<1>2. Parts(bs) \in Pieces /\ Len(Parts(bs)) = Len(bs)
  BY <1>1 DEF Parts, Pieces
<1>3. Contents(bs) = FlattenSeq(Parts(bs))
  BY DEF Contents, Parts
<1> QED
  BY <1>2, <1>3, FlattenFacts

(* No buffers, no lines. *)
LEMMA ContentsEmpty == Contents(<<>>) = <<>>
<1>1. <<>> \in Seq(Buffer) /\ Len(<<>>) = 0
  BY EmptySeq
<1>2. Parts(<<>>) \in Pieces /\ Len(Parts(<<>>)) = 0 /\ Contents(<<>>) = FlattenSeq(Parts(<<>>))
  BY <1>1, PartsFacts
<1>3. Parts(<<>>) = <<>>
  BY <1>2, EmptySeq DEF Pieces
<1> QED
  BY <1>2, <1>3, FlattenFacts

(* push_back() of a buffer. *)
LEMMA ContentsAppend ==
    ASSUME NEW bs \in Seq(Buffer), NEW b \in Buffer
    PROVE  Append(bs, b) \in Seq(Buffer) /\ Contents(Append(bs, b)) = Contents(bs) \o Content(b)
<1> DEFINE n == Len(bs)
           cs == Append(bs, b)
           left == Parts(cs)
           right == Append(Parts(bs), Content(b))
<1>1. /\ cs \in Seq(Buffer) /\ Len(cs) = n + 1 /\ n \in Nat
      /\ \A i \in 1..n : cs[i] = bs[i]
      /\ cs[n + 1] = b
  BY AppendProperties, LenProperties
<1> HIDE DEF cs
<1>2. Parts(bs) \in Pieces /\ Len(Parts(bs)) = n /\ Content(b) \in Seq(Nat)
  BY PartsFacts, ContentFacts
<1>3. left \in Pieces /\ Len(left) = n + 1 /\ Contents(cs) = FlattenSeq(left)
  BY <1>1, PartsFacts
<1>4. /\ right \in Pieces /\ Len(right) = n + 1
      /\ \A i \in 1..n : right[i] = Parts(bs)[i]
      /\ right[n + 1] = Content(b)
  BY <1>2, AppendProperties DEF Pieces
<1>5. ASSUME NEW i \in 1..(n + 1) PROVE left[i] = right[i]
  <2>1. left[i] = Content(cs[i])
    BY <1>1 DEF Parts
  <2>2. CASE i = n + 1
    BY <1>1, <1>4, <2>1, <2>2
  <2>3. CASE i # n + 1
    <3>1. i \in 1..n
      BY <1>1, <2>3
    <3>2. right[i] = Content(bs[i])
      BY <1>4, <3>1 DEF Parts
    <3> QED
      BY <1>1, <2>1, <3>1, <3>2
  <2> QED
    BY <2>2, <2>3
<1>6. left = right
  <2> HIDE DEF left, right
  <2> QED
    BY <1>3, <1>4, <1>5, SeqEqual DEF Pieces
<1>7. FlattenSeq(right) = FlattenSeq(Parts(bs)) \o Content(b)
  BY <1>2, FlattenAppend
<1>8. Contents(bs) = FlattenSeq(Parts(bs))
  BY PartsFacts
<1> QED
  BY <1>1, <1>3, <1>6, <1>7, <1>8 DEF cs

(* The first buffer and the rest. *)
LEMMA ContentsTail ==
    ASSUME NEW bs \in Seq(Buffer), bs # <<>>
    PROVE  /\ Head(bs) \in Buffer /\ Tail(bs) \in Seq(Buffer)
           /\ Contents(bs) = Content(Head(bs)) \o Contents(Tail(bs))
<1> DEFINE n == Len(bs)
           cs == Tail(bs)
           left == Tail(Parts(bs))
           right == Parts(cs)
<1>1. /\ cs \in Seq(Buffer) /\ Len(cs) = n - 1 /\ n \in Nat \ {0} /\ Head(bs) \in Buffer
      /\ \A i \in 1..(n - 1) : cs[i] = bs[i + 1]
      /\ Head(bs) = bs[1]
  BY HeadTailProperties, EmptySeq
<1> HIDE DEF cs
<1>2. Parts(bs) \in Pieces /\ Len(Parts(bs)) = n /\ Contents(bs) = FlattenSeq(Parts(bs))
  BY PartsFacts
<1>3. right \in Pieces /\ Len(right) = n - 1 /\ Contents(cs) = FlattenSeq(right)
  BY <1>1, PartsFacts
<1>4. Parts(bs) # <<>>
  BY <1>1, <1>2
<1>5. /\ left \in Pieces /\ Len(left) = n - 1
      /\ \A i \in 1..(n - 1) : left[i] = Parts(bs)[i + 1]
  BY <1>2, <1>4, HeadTailProperties DEF Pieces
<1>6. ASSUME NEW i \in 1..(n - 1) PROVE left[i] = right[i]
  <2>1. right[i] = Content(cs[i])
    BY <1>1 DEF Parts
  <2>2. i + 1 \in 1..n
    BY <1>1
  <2>3. left[i] = Content(bs[i + 1])
    BY <1>5, <2>2 DEF Parts
  <2> QED
    BY <1>1, <2>1, <2>3
<1>7. left = right
  <2> HIDE DEF left, right
  <2> QED
    BY <1>3, <1>5, <1>6, SeqEqual DEF Pieces
<1>8. Head(Parts(bs)) = Content(Head(bs))
  <2>1. Head(Parts(bs)) = Parts(bs)[1] /\ 1 \in 1..n
    BY <1>1, <1>2, <1>4
  <2> QED
    BY <1>1, <2>1 DEF Parts
<1>9. FlattenSeq(Parts(bs)) = Head(Parts(bs)) \o FlattenSeq(left)
  BY <1>2, <1>4, FlattenTail
<1> QED
  BY <1>1, <1>2, <1>3, <1>7, <1>8, <1>9 DEF cs

(* The elements of two sequences of lines in one. *)
LEMMA ConcatSet ==
    ASSUME NEW q \in Seq(Nat), NEW r \in Seq(Nat)
    PROVE  /\ q \o r \in Seq(Nat) /\ ToSet(q \o r) = ToSet(q) \cup ToSet(r)
           /\ r # <<>> => LastOf(q \o r) \in ToSet(r)
<1> DEFINE c == q \o r
           m == Len(q)
           n == Len(r)
<1>1. /\ c \in Seq(Nat) /\ Len(c) = m + n /\ m \in Nat /\ n \in Nat
      /\ \A i \in 1..(m + n) : c[i] = IF i <= m THEN q[i] ELSE r[i - m]
  BY ConcatProperties, LenProperties
<1> HIDE DEF c
<1>2. DOMAIN c = 1..(m + n) /\ DOMAIN q = 1..m /\ DOMAIN r = 1..n
  BY <1>1, LenProperties
<1> HIDE DEF m, n
<1>3. ASSUME NEW x \in ToSet(c) PROVE x \in ToSet(q) \cup ToSet(r)
  <2>1. PICK i \in 1..(m + n) : x = c[i]
    BY <1>2, <1>3 DEF ToSet
  <2>2. CASE i <= m
    <3>1. i \in 1..m
      BY <1>1, <2>2
    <3> QED
      BY <1>1, <1>2, <2>1, <2>2, <3>1 DEF ToSet
  <2>3. CASE ~(i <= m)
    <3>1. i - m \in 1..n
      BY <1>1, <2>3
    <3> QED
      BY <1>1, <1>2, <2>1, <2>3, <3>1 DEF ToSet
  <2> QED
    BY <2>2, <2>3
<1>4. ASSUME NEW x \in ToSet(q) PROVE x \in ToSet(c)
  <2>1. PICK i \in 1..m : x = q[i]
    BY <1>2, <1>4 DEF ToSet
  <2>2. i \in 1..(m + n) /\ i <= m
    BY <1>1
  <2> QED
    BY <1>1, <1>2, <2>1, <2>2 DEF ToSet
<1>5. ASSUME NEW x \in ToSet(r) PROVE x \in ToSet(c)
  <2>1. PICK i \in 1..n : x = r[i]
    BY <1>2, <1>5 DEF ToSet
  <2>2. m + i \in 1..(m + n) /\ ~(m + i <= m) /\ (m + i) - m = i
    BY <1>1
  <2>3. c[m + i] = r[i]
    BY <1>1, <2>2
  <2> QED
    BY <1>2, <2>1, <2>2, <2>3 DEF ToSet
<1>6. ASSUME r # <<>> PROVE LastOf(c) \in ToSet(r)
  <2>1. n # 0
    BY <1>6, EmptySeq DEF n
  <2>2. m + n \in 1..(m + n) /\ ~(m + n <= m) /\ (m + n) - m = n /\ n \in 1..n
    BY <1>1, <2>1
  <2>3. c[m + n] = r[n]
    BY <1>1, <2>2
  <2> QED
    BY <1>1, <1>2, <2>2, <2>3 DEF LastOf, ToSet
<1> QED
  BY <1>1, <1>3, <1>4, <1>5, <1>6 DEF c

(* The files as FlattenSeq joins them. *)
Shelf(d) == [i \in 1..(MaxNow + 1) |-> d[i - 1]]

(* There are MaxNow + 1 of them, each a sequence of lines. *)
LEMMA ShelfFacts ==
    ASSUME NEW d \in [0..MaxNow -> Seq(Nat)]
    PROVE  /\ Shelf(d) \in Pieces /\ Len(Shelf(d)) = MaxNow + 1
           /\ \A i \in 1..(MaxNow + 1) : i - 1 \in 0..MaxNow /\ Shelf(d)[i] = d[i - 1]
           /\ FlattenSeq(Shelf(d)) \in Seq(Nat)
<1>1. MaxNow \in Nat
  BY NumbersAssumption
<1>2. \A i \in 1..(MaxNow + 1) : i - 1 \in 0..MaxNow
  BY <1>1
<1>3. Shelf(d) \in Pieces /\ Len(Shelf(d)) = MaxNow + 1
  BY <1>1, <1>2 DEF Shelf, Pieces
<1> QED
  BY <1>2, <1>3, FlattenFacts DEF Shelf

(* The lines of all files, and those with stdio's buffer, are sequences. *)
LEMMA LoggedFacts ==
    ASSUME FileTypeOK
    PROVE  Files = FlattenSeq(Shelf(disk)) /\ Files \in Seq(Nat) /\ Logged \in Seq(Nat)
<1>1. Files = FlattenSeq(Shelf(disk))
  BY DEF Files, Shelf
<1>2. Files \in Seq(Nat)
  BY <1>1, ShelfFacts DEF FileTypeOK, Lines
<1> QED
  BY <1>1, <1>2, ConcatProperties DEF Logged, FileTypeOK, Lines

(* fflush() or fclose() adds the buffer to the open file, which is the last one *)
(* that has lines.                                                              *)
LEMMA WriteOutFacts ==
    ASSUME FileTypeOK, LaterEmpty, NEW buf \in Seq(Nat), WriteOut(buf)
    PROVE  /\ disk' \in [0..MaxNow -> Seq(Nat)] /\ disk'[name] = disk[name] \o buf
           /\ \A s \in 0..MaxNow : s # name => disk'[s] = disk[s]
           /\ Files' = Files \o buf
<1>1. /\ MaxNow \in Nat /\ now \in 0..MaxNow /\ name \in 0..now
      /\ disk \in [0..MaxNow -> Seq(Nat)]
  BY NumbersAssumption DEF FileTypeOK, Lines
<1>2. name \in 0..MaxNow
  BY <1>1
<1>3. disk[name] \o buf \in Seq(Nat)
  BY <1>1, <1>2, ConcatProperties
<1>4. /\ disk' \in [0..MaxNow -> Seq(Nat)] /\ disk'[name] = disk[name] \o buf
      /\ \A s \in 0..MaxNow : s # name => disk'[s] = disk[s]
  BY <1>1, <1>2, <1>3 DEF WriteOut
<1> DEFINE a == Shelf(disk)
           b == Shelf(disk')
           k == name + 1
<1>5. /\ a \in Pieces /\ Len(a) = MaxNow + 1
      /\ \A i \in 1..(MaxNow + 1) : i - 1 \in 0..MaxNow /\ a[i] = disk[i - 1]
  BY <1>1, ShelfFacts
<1>6. /\ b \in Pieces /\ Len(b) = MaxNow + 1
      /\ \A i \in 1..(MaxNow + 1) : b[i] = disk'[i - 1]
  BY <1>4, ShelfFacts
<1>7. Files = FlattenSeq(a) /\ Files' = FlattenSeq(b)
  BY DEF Files, Shelf
<1> HIDE DEF a, b
<1>8. k \in 1..(MaxNow + 1) /\ k - 1 = name
  BY <1>1, <1>2
<1>9. b[k] = a[k] \o buf
  BY <1>4, <1>5, <1>6, <1>8
<1>10. \A i \in 1..(MaxNow + 1) : i # k => i - 1 # name
  BY <1>1, <1>2
<1>11. \A i \in 1..(MaxNow + 1) : i # k => b[i] = a[i]
  BY <1>4, <1>5, <1>6, <1>10
<1>12. \A i \in 1..(MaxNow + 1) : i > k => a[i] = <<>>
  <2> SUFFICES ASSUME NEW i \in 1..(MaxNow + 1), i > k PROVE a[i] = <<>>
    OBVIOUS
  <2>1. i - 1 \in 0..MaxNow /\ i - 1 > name
    BY <1>1, <1>2
  <2> QED
    BY <1>5, <2>1 DEF LaterEmpty
<1> HIDE DEF k
<1>13. FlattenSeq(b) = FlattenSeq(a) \o buf
  <2>1. /\ a \in Pieces /\ b \in Pieces /\ Len(b) = Len(a) /\ k \in 1..Len(a)
        /\ \A i \in 1..Len(a) : i # k => b[i] = a[i]
        /\ \A i \in 1..Len(a) : i > k => a[i] = <<>>
    BY <1>5, <1>6, <1>8, <1>11, <1>12
  <2> QED
    BY <1>9, <2>1, FlattenUpdate, Zenon
<1> QED
  BY <1>4, <1>7, <1>13

(* Numbers in order, and a sequence that begins with them. *)
LEMMA UpToFacts ==
    ASSUME NEW n \in Nat
    PROVE  /\ UpTo(n) \in Seq(Nat) /\ Len(UpTo(n)) = n /\ ToSet(UpTo(n)) = 1..n
           /\ UpTo(n + 1) = UpTo(n) \o <<n + 1>>
<1>1. /\ UpTo(n) \in Seq(Nat) /\ Len(UpTo(n)) = n /\ DOMAIN UpTo(n) = 1..n
      /\ \A i \in 1..n : UpTo(n)[i] = i
  BY DEF UpTo
<1>2. ToSet(UpTo(n)) = 1..n
  BY <1>1 DEF ToSet
<1>3. UpTo(n + 1) = UpTo(n) \o <<n + 1>>
  <2> DEFINE l == UpTo(n + 1)
             r == UpTo(n) \o <<n + 1>>
  <2>1. l \in Seq(Nat) /\ Len(l) = n + 1 /\ \A i \in 1..(n + 1) : l[i] = i
    BY DEF UpTo
  <2>2. <<n + 1>> \in Seq(Nat) /\ Len(<<n + 1>>) = 1 /\ <<n + 1>>[1] = n + 1
    OBVIOUS
  <2>3. /\ r \in Seq(Nat) /\ Len(r) = n + 1
        /\ \A i \in 1..(n + 1) : r[i] = IF i <= n THEN UpTo(n)[i] ELSE <<n + 1>>[i - n]
    BY <1>1, <2>2, ConcatProperties
  <2>4. ASSUME NEW i \in 1..(n + 1) PROVE r[i] = i
    <3>1. CASE i <= n
      <4>1. i \in 1..n
        BY <3>1
      <4> QED
        BY <1>1, <2>3, <3>1, <4>1
    <3>2. CASE ~(i <= n)
      <4>1. i = n + 1 /\ i - n = 1
        BY <3>2
      <4>2. r[i] = <<n + 1>>[1]
        BY <2>3, <3>2, <4>1
      <4> QED
        BY <2>2, <4>1, <4>2
    <3> QED
      BY <3>1, <3>2
  <2> HIDE DEF l, r
  <2>5. l = r
    BY <2>1, <2>3, <2>4, SeqEqual
  <2> QED
    BY <2>5 DEF l, r
<1> QED
  BY <1>1, <1>2, <1>3

(* What follows the first numbers continues them. *)
LEMMA UpToPrefix ==
    ASSUME NEW m \in Nat, NEW n \in Nat, NEW b \in Seq(Nat), NEW r \in Seq(Nat),
           UpTo(m) \o (b \o r) = UpTo(n)
    PROVE  /\ UpTo(m) \o b = UpTo(m + Len(b))
           /\ \A x \in ToSet(b) : x \in (m + 1)..(m + Len(b))
<1> DEFINE a == UpTo(m)
           k == Len(b)
           c == a \o b
           d == c \o r
<1>1. a \in Seq(Nat) /\ Len(a) = m
  BY UpToFacts
<1>2. k \in Nat /\ DOMAIN b = 1..k /\ Len(r) \in Nat
  BY LenProperties
<1>3. d = UpTo(n)
  BY <1>1, ConcatLines
<1>4. /\ c \in Seq(Nat) /\ Len(c) = m + k
      /\ \A i \in 1..(m + k) : c[i] = IF i <= m THEN a[i] ELSE b[i - m]
  <2> HIDE DEF a
  <2>1. /\ c \in Seq(Nat) /\ Len(c) = Len(a) + Len(b)
        /\ \A i \in 1..(Len(a) + Len(b)) : c[i] = IF i <= Len(a) THEN a[i] ELSE b[i - Len(a)]
    BY <1>1, ConcatProperties
  <2> QED
    BY <1>1, <2>1
<1> HIDE DEF a, c
<1>5. /\ Len(d) = (m + k) + Len(r)
      /\ \A i \in 1..((m + k) + Len(r)) : d[i] = IF i <= m + k THEN c[i] ELSE r[i - (m + k)]
  BY <1>4, ConcatProperties
<1> HIDE DEF d
<1>6. Len(d) = n /\ \A i \in 1..n : d[i] = i
  <2>1. Len(UpTo(n)) = n /\ \A i \in 1..n : UpTo(n)[i] = i
    BY DEF UpTo
  <2> QED
    BY <1>3, <2>1
<1> HIDE DEF k
<1>7. ASSUME NEW i \in 1..(m + k) PROVE c[i] = i
  <2>1. i \in 1..n /\ i \in 1..((m + k) + Len(r)) /\ i <= m + k
    BY <1>2, <1>5, <1>6
  <2> QED
    BY <1>5, <1>6, <2>1
<1>8. c = UpTo(m + k)
  <2>1. m + k \in Nat
    BY <1>2
  <2>2. UpTo(m + k) \in Seq(Nat) /\ Len(UpTo(m + k)) = m + k /\ \A i \in 1..(m + k) : UpTo(m + k)[i] = i
    BY <2>1 DEF UpTo
  <2> QED
    BY <1>4, <1>7, <2>2, SeqEqual
<1>9. ASSUME NEW x \in ToSet(b) PROVE x \in (m + 1)..(m + k)
  <2>1. PICK i \in 1..k : x = b[i]
    BY <1>2, <1>9 DEF ToSet
  <2>2. m + i \in 1..(m + k) /\ ~(m + i <= m) /\ (m + i) - m = i
    BY <1>2
  <2>3. x = m + i
    BY <1>4, <1>7, <2>1, <2>2
  <2> QED
    BY <1>2, <2>2, <2>3
<1> QED
  BY <1>8, <1>9 DEF a, c, k

----------------------------------------------------------------------------
(* The LogFile *)

(* The times of the lines of one append(). *)
LEMMA StampsFacts ==
    ASSUME FileTypeOK, NEW logline \in Seq(Nat),
           stamps' = stamps \o [i \in 1..Len(logline) |-> now]
    PROVE  /\ stamps' \in Seq(Nat) /\ Len(stamps') = Len(stamps) + Len(logline)
           /\ Len(stamps) \in Nat /\ Len(logline) \in Nat
           /\ \A n \in 1..Len(stamps) : stamps'[n] = stamps[n]
           /\ \A n \in (Len(stamps) + 1)..(Len(stamps) + Len(logline)) : stamps'[n] = now
<1> DEFINE k == Len(logline)
           new == [i \in 1..k |-> now]
           m == Len(stamps)
<1>1. k \in Nat /\ m \in Nat /\ stamps \in Seq(Nat) /\ now \in Nat
  BY LenProperties DEF FileTypeOK
<1>2. new \in Seq(Nat) /\ Len(new) = k /\ \A i \in 1..k : new[i] = now
  BY <1>1
<1>3. stamps' = stamps \o new
  OBVIOUS
<1> HIDE DEF new
<1>4. /\ stamps' \in Seq(Nat) /\ Len(stamps') = Len(stamps) + Len(new)
      /\ \A i \in 1..(Len(stamps) + Len(new)) :
             stamps'[i] = IF i <= Len(stamps) THEN stamps[i] ELSE new[i - Len(stamps)]
  BY <1>1, <1>2, <1>3, ConcatProperties
<1> HIDE DEF k, m
<1>5. /\ Len(stamps') = m + k
      /\ \A i \in 1..(m + k) : stamps'[i] = IF i <= m THEN stamps[i] ELSE new[i - m]
  BY <1>2, <1>4 DEF m
<1>6. ASSUME NEW n \in 1..m PROVE stamps'[n] = stamps[n]
  <2>1. n \in 1..(m + k) /\ n <= m
    BY <1>1
  <2> QED
    BY <1>5, <2>1
<1>7. ASSUME NEW n \in (m + 1)..(m + k) PROVE stamps'[n] = now
  <2>1. n \in 1..(m + k) /\ ~(n <= m) /\ n - m \in 1..k
    BY <1>1
  <2> QED
    BY <1>2, <1>5, <2>1
<1> QED
  BY <1>1, <1>4, <1>5, <1>6, <1>7 DEF k, m

(* What append_unlocked() does, in the two ways that matter: the lines go to    *)
(* the open file, or to its buffer, and the file stays open or is rolled.       *)
LEMMA AppendCases ==
    ASSUME FileTypeOK, LaterEmpty, NEW logline \in Seq(Nat), NEW safe \in BOOLEAN,
           AppendUnlocked(logline, safe)
    PROVE  LET buf == stdio \o logline IN
           /\ \/ WriteOut(buf) /\ stdio' = <<>> /\ name' = now /\ startDay' = Day(now)
              \/ WriteOut(buf) /\ stdio' = <<>> /\ name' = name /\ startDay' = startDay
                 /\ Day(now) = startDay
              \/ disk' = disk /\ stdio' = buf /\ name' = name /\ startDay' = startDay
                 /\ Day(now) = startDay
           /\ written' \in Nat /\ lastFlush' \in {lastFlush, now} /\ relocking' \in BOOLEAN
<1> DEFINE buf == stdio \o logline
           size == written + Len(logline)
<1>1. size \in Nat
  BY LenProperties DEF FileTypeOK
<1>2. CASE MustRoll(size) /\ RollFile(buf) /\ UNCHANGED relocking
  BY <1>2 DEF RollFile, Day, FileTypeOK
<1>3. CASE /\ ~MustRoll(size) /\ FlushDue
           /\ written' = size
           /\ lastFlush' = now
           /\ relocking' = safe
           /\ IF safe THEN stdio' = buf /\ UNCHANGED disk ELSE stdio' = <<>> /\ WriteOut(buf)
           /\ UNCHANGED <<name, startDay>>
  BY <1>1, <1>3 DEF MustRoll, Day
<1>4. CASE /\ ~MustRoll(size) /\ ~FlushDue
           /\ written' = size
           /\ stdio' = buf
           /\ UNCHANGED <<name, disk, startDay, lastFlush, relocking>>
  BY <1>1, <1>4 DEF MustRoll, Day, FileTypeOK
<1> QED
  BY <1>2, <1>3, <1>4 DEF AppendUnlocked

(* The open file's name is a second that has been. *)
LEMMA NameFacts ==
    ASSUME FileTypeOK
    PROVE  /\ MaxNow \in Nat /\ now \in 0..MaxNow /\ name \in 0..MaxNow /\ name <= now
           /\ now \in Nat /\ name \in Nat /\ \A t \in Nat : Day(t) \in Nat
<1>1. MaxNow \in Nat /\ SecondsPerDay \in Nat \ {0}
  BY NumbersAssumption
<1>2. \A t \in Nat : Day(t) \in Nat
  BY <1>1 DEF Day
<1> QED
  BY <1>1, <1>2 DEF FileTypeOK

(* append_unlocked() of the next lines keeps what is known of the files, and    *)
(* adds the lines at their end (LogFile.cc 99-137).                             *)
LEMMA FileAppend ==
    ASSUME FileInv, NEW logline \in Seq(Nat), NEW safe \in BOOLEAN,
           AppendUnlocked(logline, safe), now' = now,
           UpTo(Len(stamps)) \o logline = UpTo(Len(stamps) + Len(logline)),
           ToSet(logline) \subseteq (Len(stamps) + 1)..(Len(stamps) + Len(logline))
    PROVE  /\ FileInv' /\ Logged' = Logged \o logline
           /\ Len(stamps') = Len(stamps) + Len(logline)
<1> USE DEF FileInv
<1> DEFINE buf == stdio \o logline
           m == Len(stamps)
           k == Len(logline)
<1>1. /\ MaxNow \in Nat /\ now \in 0..MaxNow /\ name \in 0..MaxNow /\ name <= now
      /\ now \in Nat /\ name \in Nat /\ \A t \in Nat : Day(t) \in Nat
  BY NameFacts
<1>2. /\ stamps' \in Seq(Nat) /\ Len(stamps') = m + k /\ m \in Nat /\ k \in Nat
      /\ \A n \in 1..m : stamps'[n] = stamps[n]
      /\ \A n \in (m + 1)..(m + k) : stamps'[n] = now
  <2>1. stamps' = stamps \o [i \in 1..Len(logline) |-> now]
    BY DEF AppendUnlocked
  <2> QED
    BY <2>1, StampsFacts
<1>3. stdio \in Seq(Nat) /\ disk \in [0..MaxNow -> Seq(Nat)] /\ disk[name] \in Seq(Nat)
  BY <1>1 DEF FileTypeOK, Lines
<1>4. /\ buf \in Seq(Nat) /\ ToSet(buf) = ToSet(stdio) \cup ToSet(logline)
      /\ disk[name] \o buf \in Seq(Nat)
      /\ ToSet(disk[name] \o buf) = (ToSet(disk[name]) \cup ToSet(stdio)) \cup ToSet(logline)
  <2>1. buf \in Seq(Nat) /\ ToSet(buf) = ToSet(stdio) \cup ToSet(logline)
    BY <1>3, ConcatSet
  <2> HIDE DEF buf
  <2>2. disk[name] \o buf \in Seq(Nat) /\ ToSet(disk[name] \o buf) = ToSet(disk[name]) \cup ToSet(buf)
    BY <1>3, <2>1, ConcatSet
  <2> QED
    BY <2>1, <2>2
<1> DEFINE whole == disk[name] \o buf
<1>5. /\ written' \in Nat /\ lastFlush' \in {lastFlush, now} /\ relocking' \in BOOLEAN
      /\ \/ WriteOut(buf) /\ stdio' = <<>> /\ name' = now /\ startDay' = Day(now)
         \/ WriteOut(buf) /\ stdio' = <<>> /\ name' = name /\ startDay' = startDay
            /\ Day(now) = startDay
         \/ disk' = disk /\ stdio' = buf /\ name' = name /\ startDay' = startDay
            /\ Day(now) = startDay
  BY AppendCases
<1>6. /\ disk' \in [0..MaxNow -> Seq(Nat)] /\ stdio' \in Seq(Nat)
      /\ \A s \in 0..MaxNow : s # name => disk'[s] = disk[s]
      /\ \/ stdio' = <<>> /\ disk'[name] = whole /\ Files' = Files \o buf
         \/ stdio' = buf /\ disk'[name] = disk[name] /\ Files' = Files
  <2>1. CASE WriteOut(buf) /\ stdio' = <<>>
    <3>1. /\ disk' \in [0..MaxNow -> Seq(Nat)] /\ disk'[name] = whole
          /\ \A s \in 0..MaxNow : s # name => disk'[s] = disk[s]
          /\ Files' = Files \o buf
      BY <1>4, <2>1, WriteOutFacts
    <3> QED
      BY <2>1, <3>1, EmptySeq
  <2>2. CASE disk' = disk /\ stdio' = buf
    <3>1. Files' = Files
      BY <2>2 DEF Files
    <3> QED
      BY <1>3, <1>4, <2>2, <3>1
  <2> QED
    BY <1>5, <2>1, <2>2
<1>7. /\ name' \in 0..MaxNow /\ name <= name' /\ name' <= now /\ name' \in Nat
      /\ startDay' = Day(name') /\ (name' # name => name' = now /\ stdio' = <<>>)
      /\ (name' = name => Day(now) = startDay)
  <2>1. /\ MaxNow \in Nat /\ now \in 0..MaxNow /\ name \in 0..MaxNow /\ name <= now
        /\ startDay = Day(name)
    BY <1>1 DEF OpenOfOneDay
  <2>2. CASE stdio' = <<>> /\ name' = now /\ startDay' = Day(now)
    BY <2>1, <2>2
  <2>3. CASE name' = name /\ startDay' = startDay /\ Day(now) = startDay
    BY <2>1, <2>3
  <2> QED
    BY <1>5, <2>2, <2>3
<1>7a. name' \in Nat /\ name <= name' /\ name \in Nat /\ now \in Nat /\ name <= now
  BY <1>1, <1>7
<1>8. FileTypeOK'
  <2>1. startDay' \in Nat
    BY <1>1, <1>7
  <2>2. lastFlush' \in 0..now
    <3>1. lastFlush \in 0..now /\ now \in 0..now
      BY <1>7a DEF FileTypeOK
    <3> QED
      BY <1>5, <3>1
  <2>3. now' \in 0..MaxNow /\ name' \in 0..now'
    BY <1>1, <1>7
  <2> QED
    BY <1>2, <1>5, <1>6, <2>1, <2>2, <2>3 DEF FileTypeOK, Lines
<1>9. LaterEmpty'
  <2> SUFFICES ASSUME NEW s \in 0..MaxNow, s > name' PROVE disk'[s] = <<>>
    BY DEF LaterEmpty
  <2>1. s > name /\ s # name
    BY <1>7a
  <2> QED
    BY <1>6, <2>1 DEF LaterEmpty
<1>10. Logged' = Logged \o logline
  <2>1. Files \in Seq(Nat) /\ Logged = Files \o stdio
    BY LoggedFacts DEF Logged
  <2>2. (Files \o stdio) \o logline = Files \o buf
    BY <1>3, <2>1, ConcatLines
  <2>3. Files \o buf \in Seq(Nat)
    BY <1>4, <2>1, ConcatProperties
  <2>4. Logged' = Files' \o stdio'
    BY DEF Logged
  <2> HIDE DEF buf
  <2>5. (Files \o buf) \o <<>> = Files \o buf
    BY <2>3, ConcatEmptySeq
  <2> QED
    BY <1>6, <2>1, <2>2, <2>4, <2>5
<1>11. LoggedFirst'
  BY <1>2, <1>10 DEF LoggedFirst
<1> HIDE DEF buf, m, k, whole
<1>12. ToSet(<<>>) = {}
  BY DEF ToSet
<1>13. ToSet(logline) \subseteq (m + 1)..(m + k)
  BY DEF m, k
<1>14. /\ \A s \in 0..MaxNow : ToSet(disk[s]) \subseteq 1..m
       /\ ToSet(stdio) \subseteq 1..m
  BY DEF Stamped, m
<1>15. (1..m) \subseteq 1..(m + k) /\ ((m + 1)..(m + k)) \subseteq 1..(m + k)
  BY <1>2
<1>16. /\ ToSet(whole) = (ToSet(disk[name]) \cup ToSet(stdio)) \cup ToSet(logline)
       /\ ToSet(buf) = ToSet(stdio) \cup ToSet(logline)
  BY <1>4 DEF whole
<1>17. Stamped'
  <2>1. ToSet(whole) \subseteq 1..(m + k) /\ ToSet(buf) \subseteq 1..(m + k)
    BY <1>1, <1>13, <1>14, <1>15, <1>16
  <2>2. \A s \in 0..MaxNow : ToSet(disk'[s]) \subseteq 1..(m + k)
    <3> SUFFICES ASSUME NEW s \in 0..MaxNow PROVE ToSet(disk'[s]) \subseteq 1..(m + k)
      OBVIOUS
    <3>1. CASE s = name
      BY <1>6, <1>14, <1>15, <2>1, <3>1
    <3>2. CASE s # name
      BY <1>6, <1>14, <1>15, <3>2
    <3> QED
      BY <3>1, <3>2
  <2>3. ToSet(stdio') \subseteq 1..(m + k)
    BY <1>6, <1>12, <2>1
  <2> QED
    BY <1>2, <2>2, <2>3 DEF Stamped
<1>18. ASSUME NEW n \in ToSet(disk[name]) \cup ToSet(stdio)
       PROVE  stamps'[n] = stamps[n] /\ Day(stamps'[n]) = Day(name)
  <2>1. n \in 1..m
    BY <1>1, <1>14
  <2>2. Day(stamps[n]) = startDay /\ startDay = Day(name)
    BY DEF OpenOfOneDay
  <2>3. stamps'[n] = stamps[n]
    BY <1>2, <2>1
  <2> QED
    BY <2>2, <2>3
<1>19. \A n \in ToSet(logline) : stamps'[n] = now
  BY <1>2, <1>13
<1>20. OpenOfOneDay'
  <2>1. CASE name' # name
    <3>1. disk[name'] = <<>>
      <4>1. name' > name
        BY <1>7a, <2>1
      <4> QED
        BY <1>7, <4>1 DEF LaterEmpty
    <3>2. disk'[name'] = <<>> /\ stdio' = <<>>
      BY <1>6, <1>7, <2>1, <3>1
    <3> QED
      BY <1>7, <1>12, <3>2 DEF OpenOfOneDay
  <2>2. CASE name' = name
    <3>1. ToSet(disk'[name]) \cup ToSet(stdio')
            \subseteq (ToSet(disk[name]) \cup ToSet(stdio)) \cup ToSet(logline)
      BY <1>6, <1>12, <1>16
    <3>2. Day(now) = Day(name) /\ startDay' = Day(name)
      BY <1>7, <2>2 DEF OpenOfOneDay
    <3>3. \A n \in ToSet(disk'[name]) \cup ToSet(stdio') : Day(stamps'[n]) = Day(name)
      BY <1>18, <1>19, <3>1, <3>2
    <3> QED
      BY <1>7, <2>2, <3>2, <3>3 DEF OpenOfOneDay
  <2> QED
    BY <2>1, <2>2
<1>21. ClosedOfOneDay'
  <2> SUFFICES ASSUME NEW s \in 0..MaxNow, s # name', NEW n \in ToSet(disk'[s])
               PROVE  Day(stamps'[n]) = Day(s) \/ stamps'[n] = stamps'[LastOf(disk'[s])]
    BY DEF ClosedOfOneDay
  <2>1. CASE s = name
    <3>1. disk'[s] = whole
      <4>1. stdio' = <<>> /\ name' = now
        BY <1>7, <2>1
      <4>2. WriteOut(buf)
        BY <1>5, <2>1 DEF buf
      <4>3. disk'[name] = disk[name] \o buf
        BY <1>4, <4>2, WriteOutFacts DEF buf
      <4> QED
        BY <2>1, <4>3 DEF whole
    <3>2. CASE n \in ToSet(disk[name]) \cup ToSet(stdio)
      BY <1>18, <2>1, <3>2
    <3>3. CASE n \in ToSet(logline)
      <4>1. logline # <<>>
        BY <1>12, <3>3
      <4>2. whole = (disk[name] \o stdio) \o logline /\ disk[name] \o stdio \in Seq(Nat)
        BY <1>3, ConcatLines DEF whole, buf
      <4>3. LastOf(whole) \in ToSet(logline)
        BY <4>1, <4>2, ConcatSet
      <4> QED
        BY <1>19, <3>1, <3>3, <4>3
    <3> QED
      BY <1>16, <3>1, <3>2, <3>3
  <2>2. CASE s # name
    <3>1. disk'[s] = disk[s] /\ n \in ToSet(disk[s]) /\ disk[s] \in Seq(Nat)
      BY <1>3, <1>6, <2>2
    <3>2. LastOf(disk[s]) \in ToSet(disk[s])
      <4>1. Len(disk[s]) \in DOMAIN disk[s]
        BY <3>1, LenProperties, EmptySeq DEF ToSet
      <4> QED
        BY <4>1 DEF LastOf, ToSet
    <3>3. stamps'[n] = stamps[n] /\ stamps'[LastOf(disk[s])] = stamps[LastOf(disk[s])]
      BY <1>2, <1>14, <3>1, <3>2
    <3>4. Day(stamps[n]) = Day(s) \/ stamps[n] = stamps[LastOf(disk[s])]
      BY <2>2, <3>1 DEF ClosedOfOneDay
    <3> QED
      BY <3>1, <3>3, <3>4
  <2> QED
    BY <2>1, <2>2
<1> QED
  BY <1>2, <1>8, <1>9, <1>10, <1>11, <1>17, <1>20, <1>21 DEF m, k

(* File::flush() moves stdio's buffer to the disk. *)
LEMMA FileFlush ==
    ASSUME FileInv, FlushFile, now' = now
    PROVE  FileInv' /\ Logged' = Logged /\ stamps' = stamps
<1> USE DEF FileInv
<1>1. /\ WriteOut(stdio) /\ stdio' = <<>>
      /\ UNCHANGED <<name, written, startDay, lastFlush, stamps, relocking>>
  BY DEF FlushFile
<1>2. stdio \in Seq(Nat) /\ disk \in [0..MaxNow -> Seq(Nat)] /\ name \in 0..MaxNow
  BY NameFacts DEF FileTypeOK, Lines
<1>3. disk[name] \in Seq(Nat)
  BY <1>2
<1>4. /\ disk' \in [0..MaxNow -> Seq(Nat)] /\ disk'[name] = disk[name] \o stdio
      /\ \A s \in 0..MaxNow : s # name => disk'[s] = disk[s]
      /\ Files' = Files \o stdio
  BY <1>1, <1>2, WriteOutFacts
<1>5. ToSet(disk[name] \o stdio) = ToSet(disk[name]) \cup ToSet(stdio) /\ ToSet(<<>>) = {}
  <2>1. ToSet(disk[name] \o stdio) = ToSet(disk[name]) \cup ToSet(stdio)
    BY <1>2, <1>3, ConcatSet
  <2>2. ToSet(<<>>) = {}
    BY DEF ToSet
  <2> QED
    BY <2>1, <2>2
<1>6. FileTypeOK'
  BY <1>1, <1>4, EmptySeq DEF FileTypeOK, Lines
<1>7. LaterEmpty'
  <2> SUFFICES ASSUME NEW s \in 0..MaxNow, s > name PROVE disk'[s] = <<>>
    BY <1>1 DEF LaterEmpty
  <2>1. s # name
    BY <1>2
  <2> QED
    BY <1>4, <2>1 DEF LaterEmpty
<1>8. Logged' = Logged
  <2>1. Files \in Seq(Nat)
    BY LoggedFacts
  <2>2. Files \o stdio \in Seq(Nat)
    BY <1>2, <2>1, ConcatProperties
  <2>3. (Files \o stdio) \o <<>> = Files \o stdio
    BY <2>2, ConcatEmptySeq
  <2> QED
    BY <1>1, <1>4, <2>3 DEF Logged
<1>9. LoggedFirst'
  BY <1>1, <1>8 DEF LoggedFirst
<1>10. Stamped'
  <2>1. ASSUME NEW s \in 0..MaxNow PROVE ToSet(disk'[s]) \subseteq 1..Len(stamps)
    <3>1. CASE s = name
      BY <1>4, <1>5, <3>1 DEF Stamped
    <3>2. CASE s # name
      BY <1>4, <3>2 DEF Stamped
    <3> QED
      BY <3>1, <3>2
  <2> QED
    BY <1>1, <1>5, <2>1 DEF Stamped
<1>11. OpenOfOneDay'
  BY <1>1, <1>4, <1>5 DEF OpenOfOneDay
<1>12. ClosedOfOneDay'
  BY <1>1, <1>4 DEF ClosedOfOneDay
<1> QED
  BY <1>1, <1>6, <1>7, <1>8, <1>9, <1>10, <1>11, <1>12

(* Time passes, and nothing else. *)
LEMMA FileTick ==
    ASSUME FileInv, UNCHANGED <<file, relocking>>, now' = now \/ (now < MaxNow /\ now' = now + 1)
    PROVE  FileInv' /\ Logged' = Logged /\ stamps' = stamps
<1> USE DEF FileInv
<1>1. UNCHANGED <<name, stdio, disk, written, startDay, lastFlush, stamps, relocking>>
  BY DEF file
<1>2. /\ MaxNow \in Nat /\ now \in 0..MaxNow /\ name \in 0..now /\ lastFlush \in 0..now
  BY NameFacts DEF FileTypeOK
<1>3. now' \in 0..MaxNow /\ name \in 0..now' /\ lastFlush \in 0..now'
  BY <1>2
<1>4. FileTypeOK'
  BY <1>1, <1>3 DEF FileTypeOK
<1>5. Files' = Files /\ Logged' = Logged
  BY <1>1 DEF Files, Logged
<1>6. LaterEmpty' /\ LoggedFirst' /\ Stamped' /\ OpenOfOneDay' /\ ClosedOfOneDay'
  BY <1>1, <1>5 DEF LaterEmpty, LoggedFirst, Stamped, OpenOfOneDay, ClosedOfOneDay
<1> QED
  BY <1>1, <1>4, <1>5, <1>6

----------------------------------------------------------------------------
(* The buffers *)

(* All lines, in order: in the files, with the backend and with the threads. *)
LEMMA OrderFacts ==
    ASSUME IInv
    PROVE  /\ Logged \in Seq(Nat) /\ Contents(toWrite) \in Seq(Nat) /\ Contents(buffers) \in Seq(Nat)
           /\ Content(current) \in Seq(Nat) /\ lines \in Nat
           /\ ((Logged \o Contents(toWrite)) \o Contents(buffers)) \o Content(current) = UpTo(lines)
<1>1. Logged \in Seq(Nat)
  BY LoggedFacts DEF IInv, FileInv
<1>2. Contents(toWrite) \in Seq(Nat) /\ Contents(buffers) \in Seq(Nat)
  BY PartsFacts DEF IInv, BufferTypeOK
<1>3. Content(current) \in Seq(Nat) /\ lines \in Nat
  BY ContentFacts DEF IInv, BufferTypeOK
<1>4. ((Logged \o Contents(toWrite)) \o Contents(buffers)) \o Content(current) = UpTo(lines)
  BY DEF IInv, LinesInOrder, UpTo
<1> QED
  BY <1>1, <1>2, <1>3, <1>4

(* A thread appends a line to the current buffer. *)
LEMMA InvAppendFits == ASSUME IInv, AppendFits PROVE IInv'
<1> USE DEF IInv
<1>1. /\ at # "none" /\ current # Null /\ lines' = lines + 1 /\ current' = Append(current, lines + 1)
      /\ UNCHANGED <<next, buffers, spare, toWrite, running, at, notified, stopping, logVars, crashed>>
  BY DEF AppendFits
<1>2. FileInv' /\ Logged' = Logged /\ stamps' = stamps
  BY <1>1, FileTick DEF logVars
<1>3. /\ Logged \in Seq(Nat) /\ Contents(toWrite) \in Seq(Nat) /\ Contents(buffers) \in Seq(Nat)
      /\ Content(current) \in Seq(Nat) /\ lines \in Nat
      /\ ((Logged \o Contents(toWrite)) \o Contents(buffers)) \o Content(current) = UpTo(lines)
  BY OrderFacts
<1>4. current \in Seq(Nat) /\ Content(current) = current
  BY <1>1, ContentFacts DEF BufferTypeOK, Buffer, Lines
<1>5. lines + 1 \in Nat /\ <<lines + 1>> \in Seq(Nat)
  BY <1>3
<1>6. current' = current \o <<lines + 1>> /\ current' \in Seq(Nat)
  BY <1>1, <1>4, <1>5, AppendIsConcat, AppendProperties
<1>7. current' \in Buffer /\ Content(current') = current'
  <2>1. current' \in Buffer /\ current' # Null
    BY <1>6, NullAssumption DEF Buffer, Lines
  <2> QED
    BY <2>1, ContentFacts
<1>8. BufferTypeOK'
  BY <1>1, <1>5, <1>7 DEF BufferTypeOK, spare
<1>9. Held'
  BY <1>1 DEF Held
<1> DEFINE x == (Logged \o Contents(toWrite)) \o Contents(buffers)
<1>10. x \in Seq(Nat)
  BY <1>3, ConcatLines
<1>11. LinesInOrder'
  <2>1. (x \o current) \o <<lines + 1>> = x \o (current \o <<lines + 1>>)
    BY <1>4, <1>5, <1>10, ConcatLines
  <2>2. UpTo(lines + 1) = UpTo(lines) \o <<lines + 1>>
    BY <1>3, UpToFacts
  <2>3. x \o Content(current') = UpTo(lines')
    BY <1>1, <1>3, <1>4, <1>6, <1>7, <2>1, <2>2
  <2>4. x' = x /\ Content(current)' = Content(current')
    BY <1>1, <1>2 DEF Content, Contents
  <2> QED
    BY <2>3, <2>4 DEF LinesInOrder, UpTo
<1> QED
  BY <1>2, <1>8, <1>9, <1>11

(* The lines after a step, in terms of the variables after it. *)
LEMMA OrderNext ==
    LinesInOrder' <=>
        ((Logged' \o Contents(toWrite')) \o Contents(buffers')) \o Content(current') = UpTo(lines')
BY DEF LinesInOrder, UpTo, Contents, Content

(* A thread fills the current buffer, and continues in an empty one. *)
LEMMA InvAppendFull == ASSUME IInv, AppendFull PROVE IInv'
<1> USE DEF IInv
<1>1. /\ at # "none" /\ current # Null /\ lines' = lines + 1 /\ current' = <<lines + 1>>
      /\ buffers' = Append(buffers, current) /\ next' = Null
      /\ UNCHANGED <<spare, toWrite, running, at, stopping, logVars, crashed>>
  BY DEF AppendFull
<1>2. FileInv' /\ Logged' = Logged /\ stamps' = stamps
  BY <1>1, FileTick DEF logVars
<1>3. /\ Logged \in Seq(Nat) /\ Contents(toWrite) \in Seq(Nat) /\ Contents(buffers) \in Seq(Nat)
      /\ Content(current) \in Seq(Nat) /\ lines \in Nat
      /\ ((Logged \o Contents(toWrite)) \o Contents(buffers)) \o Content(current) = UpTo(lines)
  BY OrderFacts
<1>4. lines + 1 \in Nat /\ <<lines + 1>> \in Seq(Nat)
  BY <1>3
<1>5. current' \in Buffer /\ Content(current') = <<lines + 1>>
  <2>1. current' \in Buffer /\ current' # Null
    BY <1>1, <1>4, NullAssumption DEF Buffer, Lines
  <2> QED
    BY <1>1, <2>1, ContentFacts
<1>6. buffers' \in Seq(Buffer) /\ Contents(buffers') = Contents(buffers) \o Content(current)
  <2>1. buffers \in Seq(Buffer) /\ current \in Buffer
    BY DEF BufferTypeOK
  <2> QED
    BY <1>1, <2>1, ContentsAppend
<1>7. notified' \in BOOLEAN
  BY Zenon DEF AppendFull, Notify, BufferTypeOK
<1>8. BufferTypeOK'
  BY <1>1, <1>4, <1>5, <1>6, <1>7 DEF BufferTypeOK, spare, Fresh
<1>9. Held'
  BY <1>1 DEF Held
<1>10. LinesInOrder'
  <2> DEFINE x == Logged \o Contents(toWrite)
             b == Contents(buffers)
             c == Content(current)
  <2>1. x \in Seq(Nat)
    BY <1>3, ConcatLines
  <2>2. (x \o b) \o c = x \o (b \o c)
    BY <1>3, <2>1, ConcatLines
  <2>3. UpTo(lines + 1) = UpTo(lines) \o <<lines + 1>>
    BY <1>3, UpToFacts
  <2>4. (x \o Contents(buffers')) \o Content(current') = UpTo(lines')
    BY <1>1, <1>3, <1>5, <1>6, <2>2, <2>3
  <2>5. Contents(toWrite') = Contents(toWrite)
    BY <1>1
  <2> QED
    BY <1>2, <2>4, <2>5, OrderNext
<1> QED
  BY <1>2, <1>8, <1>9, <1>10

(* The backend takes the full buffers and the current one, in this order. *)
LEMMA InvSwap ==
    ASSUME IInv, Swap, at # "writing", at # "none", at' = "writing",
           UNCHANGED <<running, notified, stopping, logVars, lines, crashed>>
    PROVE  IInv'
<1> USE DEF IInv
<1>1. toWrite = <<>>
  BY DEF Held
<1>2. FileInv' /\ Logged' = Logged /\ stamps' = stamps
  BY FileTick DEF logVars
<1>3. /\ Logged \in Seq(Nat) /\ Contents(toWrite) \in Seq(Nat) /\ Contents(buffers) \in Seq(Nat)
      /\ Content(current) \in Seq(Nat) /\ lines \in Nat
      /\ ((Logged \o Contents(toWrite)) \o Contents(buffers)) \o Content(current) = UpTo(lines)
  BY OrderFacts
<1>4. /\ toWrite' = Append(buffers, current) /\ buffers' = <<>> /\ current' = new1 /\ new1' = Null
      /\ next' \in Fresh /\ new2' \in Fresh /\ current' \in Fresh /\ current' \in Buffer
  <2>1. /\ toWrite' = Append(buffers, current) /\ buffers' = <<>> /\ current' = new1 /\ new1' = Null
    BY DEF Swap
  <2>2. next' \in Fresh /\ new2' \in Fresh
    BY DEF Swap, BufferTypeOK, Fresh
  <2>3. current' \in Fresh /\ current' \in Buffer
    BY <2>1, EmptySeq DEF BufferTypeOK, Fresh, Buffer, Lines
  <2> QED
    BY <2>1, <2>2, <2>3
<1>5. toWrite' \in Seq(Buffer) /\ Contents(toWrite') = Contents(buffers) \o Content(current)
  <2>1. buffers \in Seq(Buffer) /\ current \in Buffer
    BY DEF BufferTypeOK
  <2> QED
    BY <1>4, <2>1, ContentsAppend
<1>6. Contents(buffers') = <<>> /\ Content(current') = <<>> /\ Contents(toWrite) = <<>>
  BY <1>1, <1>4, ContentsEmpty, ContentFacts
<1>7. BufferTypeOK'
  <2>1. /\ running' \in BOOLEAN /\ notified' \in BOOLEAN /\ stopping' \in {"no", "set", "joining", "stopped"}
        /\ lines' \in Nat /\ crashed' \in BOOLEAN
    BY DEF BufferTypeOK
  <2>2. buffers' \in Seq(Buffer) /\ new1' \in Fresh
    BY <1>4, EmptySeq DEF Fresh
  <2> QED
    BY <1>4, <1>5, <2>1, <2>2 DEF BufferTypeOK
<1>8. Held'
  BY DEF Held
<1>9. LinesInOrder'
  <2> DEFINE b == Contents(buffers)
             c == Content(current)
  <2>1. Logged \o <<>> = Logged
    BY <1>3, ConcatEmptySeq
  <2>2. (Logged \o b) \o c = Logged \o (b \o c)
    BY <1>3, ConcatLines
  <2>3. Logged \o (b \o c) \in Seq(Nat)
    BY <1>3, ConcatLines
  <2>4. Logged \o (b \o c) = UpTo(lines)
    BY <1>3, <1>6, <2>1, <2>2
  <2> HIDE DEF b, c
  <2>5. ((Logged \o (b \o c)) \o <<>>) \o <<>> = Logged \o (b \o c)
    BY <2>3, ConcatEmptySeq
  <2>6. Contents(toWrite') = b \o c
    BY <1>5 DEF b, c
  <2> QED
    BY <1>2, <1>6, <2>4, <2>5, <2>6, OrderNext
<1> QED
  BY <1>2, <1>7, <1>8, <1>9

(* The backend writes the next buffer to its LogFile. *)
LEMMA InvWriteBuffer == ASSUME IInv, WriteBuffer PROVE IInv'
<1> USE DEF IInv
<1>1. /\ at = "writing" /\ toWrite # <<>> /\ Head(toWrite) # Null
      /\ AppendUnlocked(Head(toWrite), FALSE) /\ toWrite' = Tail(toWrite)
      /\ UNCHANGED <<now, shared, spare, running, at, notified, stopping, lines, crashed>>
  BY DEF WriteBuffer
<1>2. /\ Logged \in Seq(Nat) /\ Contents(toWrite) \in Seq(Nat) /\ Contents(buffers) \in Seq(Nat)
      /\ Content(current) \in Seq(Nat) /\ lines \in Nat
      /\ ((Logged \o Contents(toWrite)) \o Contents(buffers)) \o Content(current) = UpTo(lines)
  BY OrderFacts
<1> DEFINE h == Head(toWrite)
           r == Contents(Tail(toWrite))
           b == Contents(buffers)
           c == Content(current)
           m == Len(stamps)
<1>3. /\ h \in Buffer /\ Tail(toWrite) \in Seq(Buffer)
      /\ Contents(toWrite) = Content(h) \o r
  <2>1. toWrite \in Seq(Buffer)
    BY DEF BufferTypeOK
  <2> QED
    BY <1>1, <2>1, ContentsTail
<1>4. h \in Seq(Nat) /\ Content(h) = h
  BY <1>1, <1>3, ContentFacts DEF Buffer, Lines
<1>5. r \in Seq(Nat)
  BY <1>3, PartsFacts
<1>6. m \in Nat /\ Logged = UpTo(m)
  BY LenProperties DEF FileInv, FileTypeOK, LoggedFirst
<1> HIDE DEF h, r, b, c, m
<1>6a. Logged \in Seq(Nat)
  BY <1>2
<1>7. r \o (b \o c) \in Seq(Nat) /\ UpTo(m) \o (h \o (r \o (b \o c))) = UpTo(lines)
  <2>1. b \in Seq(Nat) /\ c \in Seq(Nat)
    BY <1>2 DEF b, c
  <2>2. h \o r \in Seq(Nat) /\ b \o c \in Seq(Nat) /\ r \o (b \o c) \in Seq(Nat)
    BY <1>4, <1>5, <2>1, ConcatLines
  <2>3. ((Logged \o (h \o r)) \o b) \o c = UpTo(lines)
    BY <1>2, <1>3, <1>4 DEF b, c
  <2>4. ((Logged \o (h \o r)) \o b) \o c = (Logged \o (h \o r)) \o (b \o c)
    <3>1. Logged \o (h \o r) \in Seq(Nat)
      BY <1>2, <2>2, ConcatLines
    <3> QED
      BY <2>1, <3>1, ConcatLines
  <2>5. (Logged \o (h \o r)) \o (b \o c) = Logged \o ((h \o r) \o (b \o c))
    BY <1>6a, <2>2, ConcatLines
  <2>6. (h \o r) \o (b \o c) = h \o (r \o (b \o c))
    BY <1>4, <1>5, <2>2, ConcatLines
  <2> QED
    BY <1>6, <2>2, <2>3, <2>4, <2>5, <2>6
<1>8. /\ UpTo(m) \o h = UpTo(m + Len(h))
      /\ \A x \in ToSet(h) : x \in (m + 1)..(m + Len(h))
  BY <1>2, <1>4, <1>6, <1>7, UpToPrefix
<1>9. FileInv' /\ Logged' = Logged \o h
  <2>1. /\ FileInv /\ FALSE \in BOOLEAN /\ AppendUnlocked(h, FALSE) /\ now' = now
        /\ UpTo(Len(stamps)) \o h = UpTo(Len(stamps) + Len(h))
        /\ ToSet(h) \subseteq (Len(stamps) + 1)..(Len(stamps) + Len(h))
    BY <1>1, <1>8 DEF h, m
  <2> QED
    BY <1>4, <2>1, FileAppend, Zenon
<1>10. BufferTypeOK'
  BY <1>1, <1>3 DEF BufferTypeOK, shared, spare
<1>11. Held'
  BY <1>1 DEF Held
<1>12. LinesInOrder'
  <2>1. (Logged \o h) \o r = Logged \o (h \o r)
    BY <1>4, <1>5, <1>6a, ConcatLines
  <2>2. (((Logged \o h) \o r) \o b) \o c = UpTo(lines)
    BY <1>2, <1>3, <1>4, <2>1 DEF b, c
  <2>3. Contents(toWrite') = r /\ Contents(buffers') = b /\ Content(current') = c /\ lines' = lines
    BY <1>1 DEF shared, r, b, c
  <2> QED
    BY <1>9, <2>2, <2>3, OrderNext
<1> QED
  BY <1>9, <1>10, <1>11, <1>12

(* A step that keeps the buffers and the lines, and leaves the LogFile as it    *)
(* is, flushes it or lets time pass.                                            *)
LEMMA InvSameBuffers ==
    ASSUME IInv, FileInv', Logged' = Logged, stamps' = stamps, BufferTypeOK',
           UNCHANGED <<shared, toWrite, lines>>,
           at' = at \/ (at # "none" /\ at' # "none" /\ toWrite = <<>>)
    PROVE  IInv'
<1> USE DEF IInv
<1>1. UNCHANGED <<current, next, buffers, toWrite, lines>>
  BY DEF shared
<1>2. Held'
  BY <1>1 DEF Held
<1>3. LinesInOrder'
  <2>1. ((Logged \o Contents(toWrite)) \o Contents(buffers)) \o Content(current) = UpTo(lines)
    BY OrderFacts
  <2> QED
    BY <1>1, <2>1, OrderNext
<1> QED
  BY <1>2, <1>3

(* The steps of the backend that take and write no buffers. *)
LEMMA InvBackend ==
    ASSUME IInv, TestRunning \/ Wait \/ Written
    PROVE  IInv'
<1> USE DEF IInv
<1>1. CASE TestRunning
  <2>1. /\ at = "loop" /\ at' \in {"enter", "done"}
        /\ UNCHANGED <<now, relocking, shared, spare, toWrite, running, notified, stopping, lines, crashed>>
    BY <1>1 DEF TestRunning
  <2>2. FileInv' /\ Logged' = Logged /\ stamps' = stamps
    <3>1. CASE FlushFile
      BY <2>1, <3>1, FileFlush
    <3>2. CASE UNCHANGED file
      BY <2>1, <3>2, FileTick
    <3> QED
      BY <1>1, <3>1, <3>2 DEF TestRunning
  <2>3. BufferTypeOK'
    BY <2>1 DEF BufferTypeOK, shared, spare
  <2>4. toWrite = <<>> /\ at # "none" /\ at' # "none"
    BY <2>1 DEF Held
  <2> QED
    BY <2>1, <2>2, <2>3, <2>4, InvSameBuffers
<1>2. CASE Wait
  <2>1. /\ at = "enter" /\ at' = "waiting" /\ notified' = FALSE
        /\ UNCHANGED <<shared, spare, toWrite, running, stopping, logVars, lines, crashed>>
    BY <1>2 DEF Wait
  <2>2. FileInv' /\ Logged' = Logged /\ stamps' = stamps
    BY <2>1, FileTick DEF logVars
  <2>3. BufferTypeOK'
    BY <2>1 DEF BufferTypeOK, shared, spare
  <2>4. toWrite = <<>> /\ at # "none" /\ at' # "none"
    BY <2>1 DEF Held
  <2> QED
    BY <2>1, <2>2, <2>3, <2>4, InvSameBuffers
<1>3. CASE Written
  <2>1. /\ at = "writing" /\ at' = "loop" /\ toWrite = <<>> /\ FlushFile
        /\ UNCHANGED <<now, shared, spare, toWrite, running, notified, stopping, lines, crashed>>
    BY <1>3 DEF Written, Refill
  <2>2. FileInv' /\ Logged' = Logged /\ stamps' = stamps
    BY <2>1, FileFlush
  <2>3. BufferTypeOK'
    BY <2>1 DEF BufferTypeOK, shared, spare
  <2>4. at # "none" /\ at' # "none"
    BY <2>1
  <2> QED
    BY <2>1, <2>2, <2>3, <2>4, InvSameBuffers
<1> QED
  BY <1>1, <1>2, <1>3

(* stop(), a crash, time that passes and a step of nobody change no buffer. *)
LEMMA InvOthers ==
    ASSUME IInv,
           \/ AppendNull \/ WriteNull \/ StopSet \/ StopNotify \/ StopJoin
           \/ TimePasses \/ UNCHANGED vars
    PROVE  IInv'
<1> USE DEF IInv
<1>1. /\ UNCHANGED <<shared, toWrite, lines, at, spare, file, relocking>>
      /\ now' = now \/ (now < MaxNow /\ now' = now + 1)
  BY DEF AppendNull, WriteNull, Crash, StopSet, StopNotify, StopJoin, TimePasses, Tick, vars, logVars,
         shared, spare
<1>2. FileInv' /\ Logged' = Logged /\ stamps' = stamps
  BY <1>1, FileTick
<1>3. notified' \in BOOLEAN /\ running' \in BOOLEAN /\ crashed' \in BOOLEAN
  <2>1. notified \in BOOLEAN /\ running \in BOOLEAN /\ crashed \in BOOLEAN
    BY DEF BufferTypeOK
  <2>2. notified' \in {notified, notified \/ at = "waiting"} /\ running' \in {running, FALSE}
        /\ crashed' \in {crashed, TRUE}
    BY Zenon DEF AppendNull, WriteNull, Crash, StopSet, StopNotify, StopJoin, TimePasses, Notify, vars
  <2> QED
    BY <2>1, <2>2, Zenon
<1>4. stopping' \in {"no", "set", "joining", "stopped"}
  BY DEF AppendNull, WriteNull, Crash, StopSet, StopNotify, StopJoin, TimePasses, vars, BufferTypeOK
<1>5. BufferTypeOK'
  BY <1>1, <1>3, <1>4 DEF BufferTypeOK, shared, spare
<1> QED
  BY <1>1, <1>2, <1>5, InvSameBuffers

(* Without a backend every line goes straight to the LogFile. *)
LEMMA InvDirect == ASSUME IInv, DirectAppend \/ DirectFlush PROVE IInv'
<1> USE DEF IInv
<1>1. CASE DirectAppend
  <2> DEFINE m == Len(stamps)
             l == <<m + 1>>
  <2>1. /\ at = "none" /\ AppendUnlocked(l, TRUE) /\ now' = now /\ lines' = lines + 1
        /\ UNCHANGED <<shared, spare, toWrite, running, at, notified, stopping, crashed>>
    BY <1>1 DEF DirectAppend, SafeAppend
  <2>2. current = <<>> /\ buffers = <<>> /\ toWrite = <<>> /\ lines = m
    BY <2>1 DEF Held
  <2>3. m \in Nat
    BY LenProperties DEF FileInv, FileTypeOK
  <2>4. l \in Seq(Nat) /\ Len(l) = 1 /\ ToSet(l) \subseteq (m + 1)..(m + 1)
    BY <2>3 DEF ToSet
  <2>5. UpTo(m) \o l = UpTo(m + 1)
    BY <2>3, UpToFacts
  <2> HIDE DEF m, l
  <2>6. FileInv' /\ Len(stamps') = m + 1
    <3>1. /\ FileInv /\ TRUE \in BOOLEAN /\ AppendUnlocked(l, TRUE) /\ now' = now
          /\ UpTo(Len(stamps)) \o l = UpTo(Len(stamps) + Len(l))
          /\ ToSet(l) \subseteq (Len(stamps) + 1)..(Len(stamps) + Len(l))
      BY <2>1, <2>4, <2>5 DEF m
    <3>2. FileInv' /\ Len(stamps') = Len(stamps) + Len(l)
      BY <2>4, <3>1, FileAppend, Zenon
    <3> QED
      BY <2>4, <3>2 DEF m
  <2>7. lines' = m + 1 /\ lines' \in Nat
    BY <2>1, <2>2, <2>3
  <2>8. BufferTypeOK'
    BY <2>1, <2>7 DEF BufferTypeOK, shared, spare
  <2>9. Held'
    BY <2>1, <2>2, <2>6, <2>7 DEF Held, shared
  <2>10. LinesInOrder'
    <3>1. Logged' = UpTo(m + 1)
      BY <2>6 DEF FileInv, LoggedFirst
    <3>2. UpTo(m + 1) \in Seq(Nat)
      <4>1. m + 1 \in Nat
        BY <2>3
      <4> QED
        BY <4>1, UpToFacts
    <3>3. UpTo(m + 1) \o <<>> = UpTo(m + 1)
      BY <3>2, ConcatEmptySeq
    <3>4. Contents(toWrite') = <<>> /\ Contents(buffers') = <<>> /\ Content(current') = <<>>
      <4>1. toWrite' = <<>> /\ buffers' = <<>> /\ current' = <<>>
        BY <2>1, <2>2 DEF shared
      <4>2. Content(<<>>) = <<>>
        BY DEF Content
      <4> QED
        BY <4>1, <4>2, ContentsEmpty
    <3> QED
      BY <2>7, <3>1, <3>3, <3>4, OrderNext
  <2> QED
    BY <2>6, <2>8, <2>9, <2>10
<1>2. CASE DirectFlush
  <2>1. /\ FlushFile /\ now' = now
        /\ UNCHANGED <<shared, spare, toWrite, running, at, notified, stopping, lines, crashed>>
    BY <1>2 DEF DirectFlush, SafeFlush
  <2>2. FileInv' /\ Logged' = Logged /\ stamps' = stamps
    BY <2>1, FileFlush
  <2>3. BufferTypeOK'
    BY <2>1 DEF BufferTypeOK, shared, spare
  <2> QED
    BY <2>1, <2>2, <2>3, InvSameBuffers
<1> QED
  BY <1>1, <1>2

(* The constructors. *)
LEMMA InvInit == ASSUME Init PROVE IInv
<1>1. /\ current = <<>> /\ next = <<>> /\ buffers = <<>> /\ new1 = <<>> /\ new2 = <<>> /\ toWrite = <<>>
      /\ running = TRUE /\ at \in {"loop", "none"} /\ notified = FALSE /\ stopping = "no"
      /\ lines = 0 /\ crashed = FALSE
  BY DEF Init
<1>2. /\ now = 0 /\ name = 0 /\ stdio = <<>> /\ disk = [s \in 0..MaxNow |-> <<>>]
      /\ written = 0 /\ startDay = 0 /\ lastFlush = 0 /\ stamps = <<>> /\ relocking = FALSE
  BY DEF Init, LogInit
<1>3. <<>> \in Seq(Nat) /\ <<>> \in Seq(Buffer) /\ <<>> \in Fresh /\ <<>> \in Buffer /\ Len(<<>>) = 0
  BY EmptySeq DEF Fresh, Buffer, Lines
<1>4. MaxNow \in Nat /\ SecondsPerDay \in Nat \ {0} /\ 0 \in 0..MaxNow /\ 0 \in 0..0
  BY NumbersAssumption
<1>5. disk \in [0..MaxNow -> Seq(Nat)] /\ \A s \in 0..MaxNow : disk[s] = <<>>
  BY <1>2, <1>3
<1>6. FileTypeOK
  BY <1>2, <1>3, <1>4, <1>5 DEF FileTypeOK, Lines
<1>7. BufferTypeOK
  BY <1>1, <1>3 DEF BufferTypeOK
<1>8. Logged = <<>>
  <2>1. /\ Shelf(disk) \in Pieces /\ Len(Shelf(disk)) = MaxNow + 1
        /\ \A i \in 1..(MaxNow + 1) : i - 1 \in 0..MaxNow /\ Shelf(disk)[i] = disk[i - 1]
    BY <1>5, ShelfFacts
  <2>2. \A i \in 1..Len(Shelf(disk)) : Shelf(disk)[i] = <<>>
    BY <1>5, <2>1
  <2>3. Files = <<>>
    BY <1>6, <2>1, <2>2, FlattenEmpty, LoggedFacts
  <2>4. <<>> \o <<>> = <<>>
    OBVIOUS
  <2> QED
    BY <1>2, <2>3, <2>4 DEF Logged
<1>9. UpTo(0) = <<>>
  <2>1. UpTo(0) \in Seq(Nat) /\ Len(UpTo(0)) = 0
    BY UpToFacts
  <2> QED
    BY <2>1, EmptySeq
<1>10. ToSet(<<>>) = {}
  BY DEF ToSet
<1>11. FileInv
  <2>1. LaterEmpty /\ LoggedFirst
    BY <1>2, <1>3, <1>5, <1>8, <1>9 DEF LaterEmpty, LoggedFirst
  <2>2. Stamped
    BY <1>2, <1>5, <1>10 DEF Stamped
  <2>3. OpenOfOneDay
    <3>1. Day(0) = 0
      BY <1>4 DEF Day
    <3> QED
      BY <1>2, <1>4, <1>5, <1>10, <3>1 DEF OpenOfOneDay
  <2>4. ClosedOfOneDay
    BY <1>5, <1>10 DEF ClosedOfOneDay
  <2> QED
    BY <1>6, <2>1, <2>2, <2>3, <2>4 DEF FileInv
<1>12. Held
  BY <1>1, <1>2, <1>3 DEF Held
<1>13. LinesInOrder
  <2>1. Contents(toWrite) = <<>> /\ Contents(buffers) = <<>> /\ Content(current) = <<>>
    <3>1. Content(<<>>) = <<>>
      BY DEF Content
    <3> QED
      BY <1>1, <3>1, ContentsEmpty
  <2>2. ((<<>> \o <<>>) \o <<>>) \o <<>> = <<>>
    OBVIOUS
  <2>3. ((Logged \o Contents(toWrite)) \o Contents(buffers)) \o Content(current) = UpTo(lines)
    BY <1>1, <1>8, <1>9, <2>1, <2>2
  <2> QED
    BY <2>3 DEF LinesInOrder, UpTo
<1> QED
  BY <1>7, <1>11, <1>12, <1>13 DEF IInv

----------------------------------------------------------------------------
(* The theorems *)

(* The inductive invariant holds in every state the logger can be in, with or   *)
(* without a backend (AsyncLoggingDoubleBuffering.h 36-133, LogFile.cc 68-137). *)
THEOREM InvHolds == Spec => []IInv
<1>1. Init => IInv
  BY InvInit
<1>2. IInv /\ [Next]_vars => IInv'
  <2> SUFFICES ASSUME IInv, [Next]_vars PROVE IInv'
    OBVIOUS
  <2>1. CASE AppendFits
    BY <2>1, InvAppendFits
  <2>2. CASE AppendFull
    BY <2>2, InvAppendFull
  <2>3. CASE TakeBuffers
    <3>1. /\ Swap /\ at # "writing" /\ at # "none" /\ at' = "writing"
          /\ UNCHANGED <<running, notified, stopping, logVars, lines, crashed>>
      BY <2>3 DEF TakeBuffers
    <3> QED
      BY <3>1, InvSwap
  <2>4. CASE WakeUp
    <3>1. /\ Swap /\ at # "writing" /\ at # "none" /\ at' = "writing"
          /\ UNCHANGED <<running, notified, stopping, logVars, lines, crashed>>
      BY <2>4 DEF WakeUp
    <3> QED
      BY <3>1, InvSwap
  <2>5. CASE WriteBuffer
    BY <2>5, InvWriteBuffer
  <2>6. CASE TestRunning \/ Wait \/ Written
    BY <2>6, InvBackend
  <2>7. CASE DirectAppend \/ DirectFlush
    BY <2>7, InvDirect
  <2>8. CASE \/ AppendNull \/ WriteNull \/ StopSet \/ StopNotify \/ StopJoin
             \/ TimePasses \/ UNCHANGED vars
    BY <2>8, InvOthers
  <2> QED
    BY <2>1, <2>2, <2>3, <2>4, <2>5, <2>6, <2>7, <2>8 DEF Next
<1> QED
  BY <1>1, <1>2, PTL DEF Spec

(* Every variable always has its type. *)
THEOREM TypeCorrect == Spec => []TypeOK
<1>1. IInv => TypeOK
  BY DEF IInv, FileInv, TypeOK
<1> QED
  BY <1>1, InvHolds, PTL

(* No line is lost, repeated or moved before an earlier one between append()    *)
(* and the files, whatever the threads, the backend and the clock do            *)
(* (AsyncLoggingDoubleBuffering.h 57-111, LogFile.cc 99-137).                   *)
THEOREM LinesStayInOrder == Spec => []LinesInOrder
<1>1. IInv => LinesInOrder
  BY DEF IInv
<1> QED
  BY <1>1, InvHolds, PTL

(* A file never gets lines of another day than its own, except the ones of the  *)
(* call of append() after which it is closed (LogFile.cc 116-123).              *)
THEOREM FilesStayOfOneDay == Spec => []FilesOfOneDay
<1>1. IInv => FilesOfOneDay
  <2> SUFFICES ASSUME IInv, NEW s \in 0..MaxNow
               PROVE  LET content == disk[s] \o (IF s = name THEN stdio ELSE <<>>)
                      IN \A i \in 1..Len(content) :
                            \/ stamps[content[i]] \div SecondsPerDay = s \div SecondsPerDay
                            \/ stamps[content[i]] = stamps[content[Len(content)]]
    BY DEF FilesOfOneDay
  <2> DEFINE end == IF s = name THEN stdio ELSE <<>>
             content == disk[s] \o end
  <2>1. disk[s] \in Seq(Nat) /\ stdio \in Seq(Nat) /\ end \in Seq(Nat)
    BY EmptySeq DEF IInv, FileInv, FileTypeOK, Lines
  <2>2. content \in Seq(Nat) /\ ToSet(content) = ToSet(disk[s]) \cup ToSet(end)
    <3> HIDE DEF end
    <3> QED
      BY <2>1, ConcatSet
  <2>3. SUFFICES ASSUME NEW i \in 1..Len(content)
                 PROVE  \/ Day(stamps[content[i]]) = Day(s)
                        \/ stamps[content[i]] = stamps[LastOf(content)]
    BY DEF Day, LastOf
  <2>4. content[i] \in ToSet(content)
    <3> HIDE DEF content
    <3>1. DOMAIN content = 1..Len(content)
      BY <2>2, LenProperties
    <3> QED
      BY <3>1 DEF ToSet
  <2>5. CASE s = name
    <3>1. content[i] \in ToSet(disk[name]) \cup ToSet(stdio)
      BY <2>2, <2>4, <2>5
    <3> QED
      BY <2>5, <3>1 DEF IInv, FileInv, OpenOfOneDay
  <2>6. CASE s # name
    <3>1. content = disk[s]
      BY <2>1, <2>6, ConcatEmptySeq
    <3>2. content[i] \in ToSet(disk[s])
      BY <2>4, <3>1
    <3> QED
      BY <2>6, <3>1, <3>2 DEF IInv, FileInv, ClosedOfOneDay
  <2> QED
    BY <2>5, <2>6
<1> QED
  BY <1>1, InvHolds, PTL
=============================================================================
