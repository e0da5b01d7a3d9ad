----------------------------- MODULE KcpProofs ------------------------------
(***************************************************************************)
(* Proofs about Kcp and KcpLayer, for all window, segment and buffer       *)
(* sizes, messages of any length, any number of clients and any faults.    *)
(* Both rest on the same lemmas about the control blocks of Ikcp.          *)
(***************************************************************************)
EXTENDS Kcp, KcpLayer, SequenceTheorems, WellFoundedInduction, TLAPS

-----------------------------------------------------------------------------
(* Numbers, recursion and sequences *)

(* Induction over the natural numbers, for a set instead of a predicate: the   *)
(* least number that is not in the set has no predecessor.                     *)
LEMMA Induction ==
  ASSUME NEW T \in SUBSET Nat, 0 \in T, \A n \in T : n + 1 \in T
  PROVE  T = Nat
<1> DEFINE less == {ss \in Nat \X Nat : ss[1] < ss[2]}
           rest == Nat \ T
<1>1. IsWellFoundedOn(less, Nat)
  BY NatLessThanWellFounded DEF OpToRel
<1>2. SUFFICES ASSUME rest # {} PROVE FALSE
  OBVIOUS
<1>3. rest \subseteq Nat
  OBVIOUS
<1> HIDE DEF less, rest
<1>4. PICK x \in rest : \A y \in rest : ~(<<y, x>> \in less)
  BY <1>1, <1>2, <1>3, WFMin, Zenon
<1>5. x \in Nat /\ x \notin T /\ x # 0
  BY <1>4 DEF rest
<1>6. x - 1 \in Nat /\ (x - 1) + 1 = x /\ <<x - 1, x>> \in less
  BY <1>5 DEF less
<1>7. x - 1 \notin T
  BY <1>5, <1>6
<1> QED
  BY <1>4, <1>6, <1>7 DEF rest

(* Min of a set of natural numbers is its least element. *)
LEMMA MinFacts ==
  ASSUME NEW S \in SUBSET Nat, S # {}
  PROVE  Min(S) \in S /\ \A y \in S : Min(S) <= y
<1> DEFINE less == {ss \in Nat \X Nat : ss[1] < ss[2]}
<1>1. IsWellFoundedOn(less, Nat)
  BY NatLessThanWellFounded DEF OpToRel
<1> HIDE DEF less
<1>2. PICK x \in S : \A y \in S : ~(<<y, x>> \in less)
  BY <1>1, WFMin, Zenon
<1>3. \A y \in S : x <= y
  <2> TAKE y \in S
  <2>1. x \in Nat /\ y \in Nat /\ ~(<<y, x>> \in less)
    BY <1>2
  <2> QED
    BY <2>1 DEF less
<1> QED
  BY <1>3 DEF Min

(* Max of a set of numbers up to n is its greatest element. *)
LEMMA MaxFacts ==
  ASSUME NEW n \in Nat, NEW S \in SUBSET (0..n), S # {}
  PROVE  Max(S) \in S /\ \A y \in S : Max(S) >= y
<1> DEFINE T == {n - x : x \in S}
<1>1. T \in SUBSET Nat /\ T # {}
  <2>1. \A x \in S : n - x \in Nat
    OBVIOUS
  <2> QED
    BY <2>1
<1>2. Min(T) \in T /\ \A y \in T : Min(T) <= y
  BY <1>1, MinFacts
<1>3. PICK x \in S : Min(T) = n - x
  BY <1>2
<1>4. \A y \in S : x >= y
  <2> TAKE y \in S
  <2>1. n - y \in T
    OBVIOUS
  <2>2. n - x <= n - y /\ x \in Nat /\ y \in Nat
    BY <1>2, <1>3, <2>1
  <2> QED
    BY <2>2
<1> QED
  BY <1>4 DEF Max

(* Min and Max of two numbers. *)
LEMMA TwoFacts ==
  ASSUME NEW a \in Int, NEW b \in Int
  PROVE  /\ Min({a, b}) = IF a <= b THEN a ELSE b
         /\ Max({a, b}) = IF a >= b THEN a ELSE b
<1>1. Min({a, b}) = IF a <= b THEN a ELSE b
  <2>1. \E x \in {a, b} : \A y \in {a, b} : x <= y
    OBVIOUS
  <2>2. Min({a, b}) \in {a, b} /\ \A y \in {a, b} : Min({a, b}) <= y
    BY <2>1 DEF Min
  <2> QED
    BY <2>2
<1>2. Max({a, b}) = IF a >= b THEN a ELSE b
  <2>1. \E x \in {a, b} : \A y \in {a, b} : x >= y
    OBVIOUS
  <2>2. Max({a, b}) \in {a, b} /\ \A y \in {a, b} : Max({a, b}) >= y
    BY <2>1 DEF Max
  <2> QED
    BY <2>2
<1> QED
  BY <1>1, <1>2

(* f repeats the steps g, from x, n times, and stays in S. *)
Repeats(f, S, x, n, g) ==
  f \in [0..n -> S] /\ f[0] = x /\ \A i \in 1..n : f[i] = g[i][f[i - 1]]

(* A recursion over 0 .. n that stays in a set has a solution. *)
LEMMA Recursion ==
  ASSUME NEW S, NEW x \in S, NEW n \in Nat, NEW g \in [Nat -> [S -> S]]
  PROVE  \E f : Repeats(f, S, x, n, g)
<1> USE DEF Repeats
<1> DEFINE Solves(f, m) == Repeats(f, S, x, m, g)
           T == {m \in Nat : \E f : Solves(f, m)}
<1>1. 0 \in T
  <2>1. Solves([i \in 0..0 |-> x], 0)
    OBVIOUS
  <2> QED
    BY <2>1
<1>2. ASSUME NEW m \in T PROVE m + 1 \in T
  <2>1. PICK f : Solves(f, m)
    OBVIOUS
  <2> DEFINE h == [i \in 0..(m + 1) |-> IF i = m + 1 THEN g[i][f[m]] ELSE f[i]]
  <2>2. m \in Nat /\ m \in 0..m /\ f[m] \in S
    BY <2>1
  <2>3. h \in [0..(m + 1) -> S]
    <3>1. ASSUME NEW i \in 0..(m + 1)
          PROVE (IF i = m + 1 THEN g[i][f[m]] ELSE f[i]) \in S
      <4>1. CASE i = m + 1
        BY <2>2, <4>1
      <4>2. CASE i # m + 1
        <5>1. i \in 0..m
          BY <2>2, <4>2
        <5> QED
          BY <2>1, <4>2, <5>1
      <4> QED
        BY <4>1, <4>2
    <3> QED
      BY <3>1
  <2>4. h[0] = x
    <3>1. 0 \in 0..(m + 1) /\ 0 # m + 1
      BY <2>2
    <3> QED
      BY <2>1, <3>1
  <2>5. ASSUME NEW i \in 1..(m + 1) PROVE h[i] = g[i][h[i - 1]]
    <3>1. i \in 0..(m + 1) /\ i - 1 \in 0..(m + 1) /\ i - 1 # m + 1
      BY <2>2
    <3>2. h[i - 1] = f[i - 1]
      BY <3>1
    <3>3. CASE i = m + 1
      <4>1. i - 1 = m
        BY <2>2, <3>3
      <4> QED
        BY <3>1, <3>2, <3>3, <4>1
    <3>4. CASE i # m + 1
      <4>1. i \in 1..m
        BY <2>2, <3>4
      <4>2. f[i] = g[i][f[i - 1]]
        BY <2>1, <4>1
      <4> QED
        BY <3>1, <3>2, <3>4, <4>2
    <3> QED
      BY <3>3, <3>4
  <2> HIDE DEF h
  <2>6. Solves(h, m + 1)
    BY <2>3, <2>4, <2>5
  <2> QED
    BY <2>2, <2>6
<1>3. T \in SUBSET Nat
  OBVIOUS
<1> HIDE DEF T
<1>4. T = Nat
  BY <1>1, <1>2, <1>3, Induction
<1>5. n \in T
  BY <1>4
<1> QED
  BY <1>5 DEF T

(* How far FlattenSeq has come at each of the sequences it joins. *)
Joining(s, f) ==
  f = [i \in 1..Len(s) |-> IF i = 1 THEN s[i] ELSE f[i - 1] \o s[i]]
Joined(s) == CHOOSE f : Joining(s, f)

(* FlattenSeq joins the sequences from the left. *)
LEMMA FlattenRuns ==
  ASSUME NEW X, NEW s \in Seq(Seq(X))
  PROVE  \E f \in [0..Len(s) -> Seq(X)] :
           /\ f[0] = <<>>
           /\ \A i \in 1..Len(s) : f[i] = f[i - 1] \o s[i]
           /\ FlattenSeq(s) = f[Len(s)]
<1> DEFINE n == Len(s)
           g == [i \in Nat |-> [x \in Seq(X) |-> IF i \in 1..n THEN x \o s[i] ELSE x]]
<1>1. n \in Nat /\ \A i \in 1..n : s[i] \in Seq(X)
  BY LenProperties, ElementOfSeq
<1>2. g \in [Nat -> [Seq(X) -> Seq(X)]]
  <2>1. ASSUME NEW i \in Nat, NEW x \in Seq(X)
        PROVE (IF i \in 1..n THEN x \o s[i] ELSE x) \in Seq(X)
    BY <1>1, ConcatProperties
  <2> QED
    BY <2>1
<1>3. <<>> \in Seq(X)
  BY EmptySeq
<1> HIDE DEF n, g
<1>4. PICK f : Repeats(f, Seq(X), <<>>, n, g)
  BY <1>1, <1>2, <1>3, Recursion
<1>0. f \in [0..n -> Seq(X)] /\ f[0] = <<>> /\ \A i \in 1..n : f[i] = g[i][f[i - 1]]
  BY <1>4 DEF Repeats
<1> USE DEF n
<1>5. ASSUME NEW i \in 1..n
      PROVE  f[i] = f[i - 1] \o s[i] /\ f[i - 1] \in Seq(X)
  <2>1. i \in Nat /\ i - 1 \in 0..n
    BY <1>1
  <2>2. f[i - 1] \in Seq(X)
    BY <1>0, <2>1
  <2> QED
    BY <1>0, <2>1, <2>2 DEF g
<1>6. FlattenSeq(s) = f[n]
  <2>1. CASE n = 0
    <3>1. s = <<>>
      BY <2>1, EmptySeq
    <3>2. FlattenSeq(s) = s
      BY <2>1 DEF FlattenSeq
    <3> QED
      BY <1>0, <2>1, <3>1, <3>2
  <2>2. CASE n # 0
    <3> DEFINE h == [i \in 1..n |-> f[i]]
               j == Joined(s)
    <3>1. Joining(s, h)
      <4>1. ASSUME NEW i \in 1..n
            PROVE  h[i] = IF i = 1 THEN s[i] ELSE h[i - 1] \o s[i]
        <5>1. CASE i = 1
          <6>1. i - 1 = 0
            BY <5>1
          <6>2. f[i] = f[i - 1] \o s[i] /\ s[i] \in Seq(X)
            BY <1>1, <1>5
          <6> QED
            BY <1>0, <5>1, <6>1, <6>2, ConcatEmptySeq
        <5>2. CASE i # 1
          <6>1. i - 1 \in 1..n
            BY <1>1, <5>2
          <6> QED
            BY <1>5, <5>2, <6>1
        <5> QED
          BY <5>1, <5>2
      <4>2. h = [i \in 1..n |-> h[i]]
        OBVIOUS
      <4> HIDE DEF h
      <4> QED
        BY <4>1, <4>2 DEF Joining
    <3>2. Joining(s, j)
      BY <3>1 DEF Joined
    <3> HIDE DEF j
    <3>3. \A i \in 1..n : j[i] = IF i = 1 THEN s[i] ELSE j[i - 1] \o s[i]
      BY <3>2 DEF Joining
    <3> DEFINE T == {i \in Nat : i \in 1..n => j[i] = f[i]}
    <3>4. 0 \in T
      OBVIOUS
    <3>5. ASSUME NEW i \in T PROVE i + 1 \in T
      <4> SUFFICES ASSUME i + 1 \in 1..n PROVE j[i + 1] = f[i + 1]
        OBVIOUS
      <4>1. i \in Nat /\ (i + 1) - 1 = i
        OBVIOUS
      <4>2. f[i + 1] = f[i] \o s[i + 1] /\ s[i + 1] \in Seq(X)
        BY <1>1, <1>5, <4>1
      <4>3. CASE i = 0
        <5>1. i + 1 = 1 /\ j[i + 1] = s[i + 1]
          BY <3>3, <4>3
        <5>2. f[i] = <<>>
          BY <1>0, <4>3
        <5> QED
          BY <4>2, <5>1, <5>2, ConcatEmptySeq
      <4>4. CASE i # 0
        <5>1. i \in 1..n /\ i + 1 # 1
          BY <1>1, <4>1, <4>4
        <5>2. j[i] = f[i]
          BY <5>1
        <5>3. j[i + 1] = j[i] \o s[i + 1]
          BY <3>3, <4>1, <5>1
        <5> QED
          BY <4>2, <5>2, <5>3
      <4> QED
        BY <4>3, <4>4
    <3>6. T \in SUBSET Nat
      OBVIOUS
    <3> HIDE DEF T
    <3>7. T = Nat
      BY <3>4, <3>5, <3>6, Induction
    <3>8. j[n] = f[n]
      BY <1>1, <2>2, <3>7 DEF T
    <3>9. FlattenSeq(s) = j[n]
      BY <2>2 DEF FlattenSeq, Joined, Joining, j
    <3> QED
      BY <3>8, <3>9
  <2> QED
    BY <2>1, <2>2
<1> QED
  BY <1>0, <1>5, <1>6

(* Joining sequences over X gives a sequence over X. *)
LEMMA FlattenType ==
  ASSUME NEW X, NEW s \in Seq(Seq(X))
  PROVE  FlattenSeq(s) \in Seq(X)
<1>1. PICK f \in [0..Len(s) -> Seq(X)] : FlattenSeq(s) = f[Len(s)]
  BY FlattenRuns
<1>2. Len(s) \in 0..Len(s)
  BY LenProperties
<1> QED
  BY <1>1, <1>2

(* A sequence without the element at i, and one with e in front of it. *)
LEMMA RemoveFacts ==
  ASSUME NEW X, NEW s \in Seq(X), NEW i \in 1..Len(s)
  PROVE  /\ RemoveAt(s, i) \in Seq(X) /\ Len(RemoveAt(s, i)) = Len(s) - 1
         /\ \A j \in 1..(Len(s) - 1) :
              RemoveAt(s, i)[j] = IF j < i THEN s[j] ELSE s[j + 1]
<1> DEFINE a == SubSeq(s, 1, i - 1)
           b == SubSeq(s, i + 1, Len(s))
<1>1. Len(s) \in Nat /\ i \in Nat
  BY LenProperties
<1>2. a \in Seq(X) /\ Len(a) = i - 1 /\ \A j \in 1..(i - 1) : a[j] = s[j]
  BY <1>1, SubSeqProperties
<1>3. b \in Seq(X) /\ Len(b) = Len(s) - i /\ \A j \in 1..(Len(s) - i) : b[j] = s[i + j]
  BY <1>1, SubSeqProperties
<1> HIDE DEF a, b
<1>4. /\ a \o b \in Seq(X) /\ Len(a \o b) = Len(s) - 1
      /\ \A j \in 1..(Len(s) - 1) : (a \o b)[j] = IF j <= i - 1 THEN a[j] ELSE b[j - (i - 1)]
  <2>1. /\ a \o b \in Seq(X) /\ Len(a \o b) = Len(a) + Len(b)
        /\ \A j \in 1..(Len(a) + Len(b)) :
             (a \o b)[j] = IF j <= Len(a) THEN a[j] ELSE b[j - Len(a)]
    BY <1>2, <1>3, ConcatProperties
  <2>2. Len(a) + Len(b) = Len(s) - 1
    BY <1>1, <1>2, <1>3
  <2> QED
    BY <1>2, <2>1, <2>2
<1>5. ASSUME NEW j \in 1..(Len(s) - 1)
      PROVE  (a \o b)[j] = IF j < i THEN s[j] ELSE s[j + 1]
  <2>1. CASE j < i
    <3>1. j \in 1..(i - 1) /\ j <= i - 1
      BY <1>1, <2>1
    <3> QED
      BY <1>2, <1>4, <2>1, <3>1
  <2>2. CASE ~(j < i)
    <3>1. j - (i - 1) \in 1..(Len(s) - i) /\ i + (j - (i - 1)) = j + 1 /\ ~(j <= i - 1)
      BY <1>1, <2>2
    <3> QED
      BY <1>3, <1>4, <2>2, <3>1
  <2> QED
    BY <2>1, <2>2
<1> QED
  BY <1>4, <1>5 DEF RemoveAt, a, b

(* InsertAt puts e at i and moves what follows up by one. *)
LEMMA InsertFacts ==
  ASSUME NEW X, NEW s \in Seq(X), NEW i \in 1..(Len(s) + 1), NEW e \in X
  PROVE  /\ InsertAt(s, i, e) \in Seq(X) /\ Len(InsertAt(s, i, e)) = Len(s) + 1
         /\ \A j \in 1..(Len(s) + 1) :
              InsertAt(s, i, e)[j] = IF j < i THEN s[j] ELSE IF j = i THEN e ELSE s[j - 1]
<1> DEFINE a == SubSeq(s, 1, i - 1)
           b == SubSeq(s, i, Len(s))
           c == a \o <<e>>
<1>1. Len(s) \in Nat /\ i \in Nat
  BY LenProperties
<1>2. a \in Seq(X) /\ Len(a) = i - 1 /\ \A j \in 1..(i - 1) : a[j] = s[j]
  BY <1>1, SubSeqProperties
<1>3. b \in Seq(X) /\ Len(b) = Len(s) - i + 1
      /\ \A j \in 1..(Len(s) - i + 1) : b[j] = s[i + j - 1]
  BY <1>1, SubSeqProperties
<1>4. <<e>> \in Seq(X) /\ Len(<<e>>) = 1 /\ <<e>>[1] = e
  OBVIOUS
<1> HIDE DEF a, b
<1>5. c \in Seq(X) /\ Len(c) = i /\ (\A j \in 1..(i - 1) : c[j] = s[j]) /\ c[i] = e
  <2>1. c \in Seq(X) /\ Len(c) = i
        /\ \A j \in 1..i : c[j] = IF j <= i - 1 THEN a[j] ELSE <<e>>[j - (i - 1)]
    BY <1>1, <1>2, <1>4, ConcatProperties
  <2>2. \A j \in 1..(i - 1) : j \in 1..i /\ j <= i - 1
    BY <1>1
  <2>3. i \in 1..i /\ ~(i <= i - 1) /\ i - (i - 1) = 1
    BY <1>1
  <2> HIDE DEF c
  <2>4. \A j \in 1..(i - 1) : c[j] = s[j]
    BY <1>2, <2>1, <2>2
  <2>5. c[i] = <<e>>[i - (i - 1)]
    BY <2>1, <2>3
  <2>6. c[i] = e
    BY <1>4, <2>3, <2>5
  <2> QED
    BY <2>1, <2>4, <2>6
<1> HIDE DEF c
<1>6. /\ c \o b \in Seq(X) /\ Len(c \o b) = Len(s) + 1
      /\ \A j \in 1..(Len(s) + 1) : (c \o b)[j] = IF j <= i THEN c[j] ELSE b[j - i]
  BY <1>1, <1>3, <1>5, ConcatProperties
<1>7. ASSUME NEW j \in 1..(Len(s) + 1)
      PROVE  (c \o b)[j] = IF j < i THEN s[j] ELSE IF j = i THEN e ELSE s[j - 1]
  <2>1. CASE j < i
    <3>1. j \in 1..(i - 1) /\ j <= i
      BY <1>1, <2>1
    <3> QED
      BY <1>5, <1>6, <2>1, <3>1
  <2>2. CASE j = i
    <3>1. j <= i /\ ~(j < i)
      BY <1>1, <2>2
    <3>2. (c \o b)[j] = c[j]
      BY <1>6, <3>1
    <3> QED
      BY <1>5, <2>2, <3>1, <3>2
  <2>3. CASE j > i
    <3>1. j - i \in 1..(Len(s) - i + 1) /\ i + (j - i) - 1 = j - 1 /\ ~(j <= i) /\ ~(j < i) /\ j # i
      BY <1>1, <2>3
    <3>2. (c \o b)[j] = b[j - i]
      BY <1>6, <3>1
    <3>3. b[j - i] = s[i + (j - i) - 1]
      BY <1>3, <3>1
    <3> QED
      BY <3>1, <3>2, <3>3
  <2> QED
    <3>1. j < i \/ j = i \/ j > i
      BY <1>1
    <3> QED
      BY <2>1, <2>2, <2>3, <3>1
<1> QED
  BY <1>6, <1>7 DEF InsertAt, a, b, c

-----------------------------------------------------------------------------
(* Types: the bytes of the messages are the elements of a set B *)

Fragment(B) == [frg : Nat, data : Seq(B)]
Stored(B) == [sn : Nat, frg : Nat, data : Seq(B)]
Buffered(B) == [sn : Nat, frg : Nat, data : Seq(B), fastack : Nat, xmit : Nat]
Segments(B) ==
  [cmd : {"ACK", "PUSH", "WASK", "WINS"}, frg : Nat, wnd : Nat, sn : Nat, una : Nat,
   data : Seq(B)]
Blocks(B) ==
  [snd_una : Nat, snd_nxt : Nat, rcv_nxt : Nat, rmt_wnd : Nat,
   probe : SUBSET {"SEND", "TELL"}, probing : BOOLEAN,
   snd_queue : Seq(Fragment(B)), snd_buf : Seq(Buffered(B)),
   rcv_buf : Seq(Stored(B)), rcv_queue : Seq(Stored(B)), acklist : Seq(Nat)]

-----------------------------------------------------------------------------
(* The invariant of one direction of a conversation: k sends, p receives *)

(* all has the fragments of the messages M, in order; those of M[i] end at     *)
(* place w[i].                                                                 *)
Stream(all, w, M, B) ==
  /\ M \in Seq(Seq(B))
  /\ all \in Seq(Fragment(B))
  /\ w \in [0..Len(M) -> Nat] /\ w[0] = 0 /\ w[Len(M)] = Len(all)
  /\ \A i \in 1..Len(M) :
       /\ w[i] = w[i - 1] + FragmentCount(M[i])
       /\ \A j \in 1..FragmentCount(M[i]) : all[w[i - 1] + j] = Fragments(M[i])[j]
  /\ \A i \in 1..Len(all) : all[i].frg < 256

(* s carries the fragment its number names, one of the first nxt. *)
Carries(s, all, nxt) ==
  s.sn < nxt /\ s.frg = all[s.sn + 1].frg /\ s.data = all[s.sn + 1].data

(* The sender: what is not numbered yet waits in snd_queue. *)
SenderOK(k, all) ==
  /\ Len(all) = k.snd_nxt + Len(k.snd_queue)
  /\ \A i \in 1..Len(k.snd_queue) : k.snd_queue[i] = all[k.snd_nxt + i]
  /\ \A i \in 1..Len(k.snd_buf) : Carries(k.snd_buf[i], all, k.snd_nxt)

(* The receiver: rcv_queue has the fragments up to rcv_nxt of the messages     *)
(* that were not returned yet; R are those that were, the first of M.          *)
ReceiverOK(p, all, w, nxt, M, R) ==
  /\ p.rcv_nxt <= nxt
  /\ \A i \in 1..Len(p.rcv_buf) : Carries(p.rcv_buf[i], all, nxt)
  /\ Len(R) <= Len(M) /\ \A i \in 1..Len(R) : R[i] = M[i]
  /\ p.rcv_nxt = w[Len(R)] + Len(p.rcv_queue)
  /\ \A i \in 1..Len(p.rcv_queue) :
       /\ p.rcv_queue[i].frg = all[w[Len(R)] + i].frg
       /\ p.rcv_queue[i].data = all[w[Len(R)] + i].data

(* p has segment sn, in rcv_buf or farther on its way to the user. *)
Holds(p, sn) == sn < p.rcv_nxt \/ \E i \in 1..Len(p.rcv_buf) : p.rcv_buf[i].sn = sn

(* A segment that p sends acknowledges nothing p does not have, and one that k *)
(* sends carries its fragment.                                                 *)
AckOK(s, p) == s.una <= p.rcv_nxt /\ (s.cmd = "ACK" => Holds(p, s.sn))
PushOK(s, all, nxt) == s.cmd = "PUSH" => Carries(s, all, nxt)

(* The acknowledgements still to be sent, and the datagrams in the network. *)
AcklistOK(p) == \A i \in 1..Len(p.acklist) : Holds(p, p.acklist[i])
AcksOK(p, back) == \A d \in back : \A i \in 1..Len(d) : AckOK(d[i], p)
DataOK(forth, all, nxt) == \A d \in forth : \A i \in 1..Len(d) : PushOK(d[i], all, nxt)

(* Segment sn still waits for its acknowledgement. *)
InSndBuf(k, sn) == \E i \in 1..Len(k.snd_buf) : k.snd_buf[i].sn = sn

(* What left snd_buf is at the other end: AckedIsHeld for this direction. *)
GoneIsHeld(k, p) == \A sn \in Nat : sn < k.snd_nxt => InSndBuf(k, sn) \/ Holds(p, sn)

(* forth and back are the datagrams in flight from k to p and from p to k. *)
LinkOver(all, w, k, p, forth, back, M, R, B) ==
  /\ Stream(all, w, M, B) /\ R \in Seq(Seq(B))
  /\ SenderOK(k, all)
  /\ ReceiverOK(p, all, w, k.snd_nxt, M, R)
  /\ DataOK(forth, all, k.snd_nxt)
  /\ AcksOK(p, back) /\ AcklistOK(p)
  /\ GoneIsHeld(k, p)

(* The direction from k to p, for some stream of fragments. *)
Link(k, p, forth, back, M, R, B) ==
  \E all, w : LinkOver(all, w, k, p, forth, back, M, R, B)

-----------------------------------------------------------------------------
(* ikcp_send *)

(* The sizes are positive numbers. *)
LEMMA Sizes ==
  /\ Mss \in Nat /\ Mss > 0 /\ RcvWnd \in Nat /\ RcvWnd > 0 /\ RcvWnd <= 256
  /\ SndWnd \in Nat /\ FastResend \in Nat /\ FastResend > 0 /\ FastLimit \in Nat
BY IkcpAssumption, FrgAssumption

(* Multiplication is monotone. *)
LEMMA TimesMonotone ==
  ASSUME NEW a \in Nat, NEW b \in Nat, NEW m \in Nat, a <= b
  PROVE  a * m \in Nat /\ b * m \in Nat /\ a * m <= b * m
<1> DEFINE c == b - a
<1>1. c \in Nat /\ b = a + c
  OBVIOUS
<1> HIDE DEF c
<1>2. (a + c) * m = a * m + c * m /\ a * m \in Nat /\ c * m \in Nat
  BY <1>1, Z3
<1> QED
  BY <1>1, <1>2

(* n fragments of Mss bytes hold the message, n - 1 do not, unless n is 1. *)
LEMMA CountFacts ==
  ASSUME NEW B, NEW msg \in Seq(B)
  PROVE  /\ FragmentCount(msg) \in Nat /\ FragmentCount(msg) > 0
         /\ Len(msg) <= FragmentCount(msg) * Mss
         /\ FragmentCount(msg) > 1 => (FragmentCount(msg) - 1) * Mss < Len(msg)
<1> DEFINE L == Len(msg)
           m == Mss
           q == (L + m - 1) \div m
<1>1. L \in Nat /\ m \in Nat /\ m > 0
  BY LenProperties, Sizes
<1>2. CASE L <= m
  BY <1>1, <1>2 DEF FragmentCount
<1>3. CASE ~(L <= m)
  <2>1. FragmentCount(msg) = q
    BY <1>3 DEF FragmentCount
  <2> HIDE DEF L, m
  <2>2. q \in Nat /\ q * m <= L + m - 1 /\ L + m - 1 < (q + 1) * m
    BY <1>1, Z3
  <2> HIDE DEF q
  <2>3. q * m < L + m /\ L < q * m + 1
    BY <1>1, <2>2, Z3
  <2>4. L <= q * m /\ (q - 1) * m < L
    BY <1>1, <2>2, <2>3, Z3
  <2>5. q > 0
    BY <1>1, <1>3, <2>2, <2>4, Z3
  <2> QED
    BY <2>1, <2>2, <2>4, <2>5 DEF L, m
<1> QED
  BY <1>2, <1>3

(* A function on 1 .. n is a sequence. *)
LEMMA FunSeq ==
  ASSUME NEW S, NEW n \in Nat, NEW f \in [1..n -> S]
  PROVE  f \in Seq(S) /\ Len(f) = n
<1>1. f \in Seq(S)
  BY SeqDef
<1>2. DOMAIN f = 1..n
  OBVIOUS
<1> QED
  BY <1>1, <1>2, LenProperties

(* The first n elements of a sequence, and the others. *)
LEMMA SplitFacts ==
  ASSUME NEW X, NEW s \in Seq(X), NEW n \in 0..Len(s)
  PROVE  /\ SubSeq(s, 1, n) \in Seq(X) /\ Len(SubSeq(s, 1, n)) = n
         /\ \A i \in 1..n : SubSeq(s, 1, n)[i] = s[i]
         /\ SubSeq(s, n + 1, Len(s)) \in Seq(X)
         /\ Len(SubSeq(s, n + 1, Len(s))) = Len(s) - n
         /\ \A i \in 1..(Len(s) - n) : SubSeq(s, n + 1, Len(s))[i] = s[n + i]
<1>1. Len(s) \in Nat /\ n \in Int /\ n + 1 \in Int /\ Len(s) \in Int
  BY LenProperties
<1>2. (\A i \in 1..n : s[i] \in X) /\ \A i \in (n + 1)..Len(s) : s[i] \in X
  BY <1>1, ElementOfSeq
<1>3. /\ SubSeq(s, 1, n) \in Seq(X) /\ Len(SubSeq(s, 1, n)) = (IF 1 <= n THEN n - 1 + 1 ELSE 0)
      /\ \A i \in 1..(n - 1 + 1) : SubSeq(s, 1, n)[i] = s[1 + i - 1]
  BY <1>1, <1>2, SubSeqProperties
<1>4. /\ SubSeq(s, n + 1, Len(s)) \in Seq(X)
      /\ Len(SubSeq(s, n + 1, Len(s))) =
            IF n + 1 <= Len(s) THEN Len(s) - (n + 1) + 1 ELSE 0
      /\ \A i \in 1..(Len(s) - (n + 1) + 1) : SubSeq(s, n + 1, Len(s))[i] = s[n + 1 + i - 1]
  BY <1>1, <1>2, SubSeqProperties
<1>5. /\ n - 1 + 1 = n /\ Len(s) - (n + 1) + 1 = Len(s) - n
      /\ (IF 1 <= n THEN n - 1 + 1 ELSE 0) = n
      /\ (IF n + 1 <= Len(s) THEN Len(s) - (n + 1) + 1 ELSE 0) = Len(s) - n
  BY <1>1
<1>6. ASSUME NEW i \in 1..n PROVE SubSeq(s, 1, n)[i] = s[i]
  <2>1. i \in 1..(n - 1 + 1) /\ 1 + i - 1 = i
    BY <1>1
  <2>2. SubSeq(s, 1, n)[i] = s[1 + i - 1]
    BY <1>3, <2>1
  <2> QED
    BY <2>1, <2>2
<1>7. ASSUME NEW i \in 1..(Len(s) - n) PROVE SubSeq(s, n + 1, Len(s))[i] = s[n + i]
  <2>1. i \in 1..(Len(s) - (n + 1) + 1) /\ n + 1 + i - 1 = n + i
    BY <1>1
  <2>2. SubSeq(s, n + 1, Len(s))[i] = s[n + 1 + i - 1]
    BY <1>4, <2>1
  <2> QED
    BY <2>1, <2>2
<1> QED
  BY <1>3, <1>4, <1>5, <1>6, <1>7

(* The fragments of a message are a sequence, numbered down to 0. *)
LEMMA FragmentFacts ==
  ASSUME NEW B, NEW msg \in Seq(B)
  PROVE  /\ Fragments(msg) \in Seq(Fragment(B))
         /\ Len(Fragments(msg)) = FragmentCount(msg)
         /\ \A i \in 1..FragmentCount(msg) : Fragments(msg)[i].frg = FragmentCount(msg) - i
<1> DEFINE n == FragmentCount(msg)
           piece(i) == SubSeq(msg, (i - 1) * Mss + 1, Min({i * Mss, Len(msg)}))
<1>1. n \in Nat /\ Len(msg) \in Nat /\ Mss \in Nat
  BY CountFacts, LenProperties, Sizes
<1>2. ASSUME NEW i \in 1..n PROVE piece(i) \in Seq(B)
  <2>1. (i - 1) * Mss \in Nat /\ i * Mss \in Nat
    BY <1>1
  <2>2. Min({i * Mss, Len(msg)}) \in Int /\ Min({i * Mss, Len(msg)}) <= Len(msg)
    BY <1>1, <2>1, TwoFacts
  <2>3. \A j \in ((i - 1) * Mss + 1)..Min({i * Mss, Len(msg)}) : msg[j] \in B
    BY <1>1, <2>1, <2>2, ElementOfSeq
  <2> DEFINE lo == (i - 1) * Mss + 1
             hi == Min({i * Mss, Len(msg)})
  <2>4. lo \in Int /\ hi \in Int
    BY <2>1, <2>2
  <2>5. \A j \in lo..hi : msg[j] \in B
    BY <2>3, Zenon
  <2> HIDE DEF lo, hi
  <2>6. SubSeq(msg, lo, hi) \in Seq(B)
    BY <2>4, <2>5, SubSeqProperties
  <2> QED
    BY <2>6 DEF lo, hi
<1>3. Fragments(msg) = [i \in 1..n |-> [frg |-> n - i, data |-> piece(i)]]
  BY DEF Fragments
<1> HIDE DEF n, piece
<1>4. \A i \in 1..n : [frg |-> n - i, data |-> piece(i)] \in Fragment(B)
  BY <1>1, <1>2 DEF Fragment
<1>5. Fragments(msg) \in [1..n -> Fragment(B)]
  BY <1>3, <1>4
<1>6. Fragments(msg) \in Seq(Fragment(B)) /\ Len(Fragments(msg)) = n
  BY <1>1, <1>5, FunSeq
<1>7. \A i \in 1..n : Fragments(msg)[i].frg = n - i
  BY <1>3
<1> QED
  BY <1>6, <1>7 DEF n

(* ikcp_recv's merge undoes ikcp_send's cut: the data of the fragments, joined *)
(* in order, is the message.                                                   *)
LEMMA FragmentsJoin ==
  ASSUME NEW B, NEW msg \in Seq(B), NEW q,
         \A i \in 1..FragmentCount(msg) : q[i].data = Fragments(msg)[i].data
  PROVE  BytesOf(q, FragmentCount(msg)) = msg
<1> DEFINE n == FragmentCount(msg)
           L == Len(msg)
           end(i) == IF i * Mss <= L THEN i * Mss ELSE L
           s == [i \in 1..n |-> q[i].data]
<1>1. /\ n \in Nat /\ n > 0 /\ L \in Nat /\ Mss \in Nat /\ Mss > 0
      /\ L <= n * Mss /\ (n > 1 => (n - 1) * Mss < L)
  BY CountFacts, LenProperties, Sizes
<1>2. ASSUME NEW i \in 1..n
      PROVE  q[i].data \in Seq(B) /\ q[i].data = SubSeq(msg, (i - 1) * Mss + 1, end(i))
  <2>1. Fragments(msg)[i] \in Fragment(B)
    BY <1>1, FragmentFacts, ElementOfSeq
  <2>2. q[i].data \in Seq(B)
    BY <2>1 DEF Fragment
  <2>3. Min({i * Mss, L}) = end(i)
    <3>1. i * Mss \in Int /\ L \in Int
      BY <1>1
    <3> QED
      BY <3>1, TwoFacts
  <2>4. q[i].data = SubSeq(msg, (i - 1) * Mss + 1, Min({i * Mss, L}))
    BY DEF Fragments
  <2> QED
    BY <2>2, <2>3, <2>4
<1>3. s \in Seq(Seq(B)) /\ Len(s) = n
  <2>1. s \in [1..n -> Seq(B)]
    BY <1>2
  <2> QED
    BY <1>1, <2>1, FunSeq
<1>4. PICK f \in [0..Len(s) -> Seq(B)] :
         /\ f[0] = <<>>
         /\ \A i \in 1..Len(s) : f[i] = f[i - 1] \o s[i]
         /\ FlattenSeq(s) = f[Len(s)]
  BY <1>3, FlattenRuns
<1>5. BytesOf(q, n) = f[n]
  BY <1>3, <1>4 DEF BytesOf
<1> DEFINE T == {i \in Nat : i <= n => f[i] = SubSeq(msg, 1, end(i))}
<1>6. 0 \in T
  <2>1. end(0) = 0
    BY <1>1
  <2>2. SubSeq(msg, 1, 0) = <<>>
    BY SubSeqEmpty
  <2> QED
    BY <1>4, <2>1, <2>2
<1>7. ASSUME NEW i \in T PROVE i + 1 \in T
  <2> SUFFICES ASSUME i + 1 <= n PROVE f[i + 1] = SubSeq(msg, 1, end(i + 1))
    OBVIOUS
  <2>1. i \in Nat /\ i + 1 \in 1..n /\ (i + 1) - 1 = i /\ i <= n
    BY <1>1
  <2>2. f[i + 1] = f[i] \o q[i + 1].data
    BY <1>3, <1>4, <2>1
  <2>3. i * Mss <= L /\ i * Mss \in Nat
    <3>1. CASE i = 0
      BY <1>1, <3>1
    <3>2. CASE i > 0
      <4>1. n > 1 /\ i <= n - 1 /\ n - 1 \in Nat
        BY <1>1, <2>1, <3>2
      <4>2. i * Mss <= (n - 1) * Mss /\ i * Mss \in Nat /\ (n - 1) * Mss \in Nat
        <5> HIDE DEF n, L
        <5> QED
          BY <1>1, <2>1, <4>1, TimesMonotone, Zenon
      <4> QED
        BY <1>1, <4>1, <4>2
    <3> QED
      BY <2>1, <3>1, <3>2
  <2>4. f[i] = SubSeq(msg, 1, i * Mss)
    BY <2>1, <2>3
  <2>5. q[i + 1].data = SubSeq(msg, i * Mss + 1, end(i + 1))
    BY <1>2, <2>1
  <2>6. i * Mss <= end(i + 1) /\ end(i + 1) <= L /\ end(i + 1) \in Nat
    <3>1. (i + 1) * Mss = i * Mss + Mss
      BY <1>1, <2>1, Z3
    <3> QED
      BY <1>1, <2>3, <3>1
  <2> DEFINE a == i * Mss
             b == end(i + 1)
  <2> HIDE DEF end
  <2>7. a \in Nat /\ b \in Nat /\ a <= b /\ b <= L /\ f[i + 1] = SubSeq(msg, 1, a) \o SubSeq(msg, a + 1, b)
    BY <2>2, <2>3, <2>4, <2>5, <2>6
  <2> HIDE DEF a, b
  <2>8. a \in (1 - 1)..Len(msg) /\ b \in a..Len(msg) /\ 1 \in 1..(Len(msg) + 1)
    BY <1>1, <2>7
  <2>9. f[i + 1] = SubSeq(msg, 1, b)
    BY <2>7, <2>8, ConcatAdjacentSubSeq
  <2> QED
    BY <2>9 DEF b
<1>8. T \in SUBSET Nat
  OBVIOUS
<1>9. end(n) = L
  BY <1>1
<1> HIDE DEF T
<1>10. T = Nat
  BY <1>6, <1>7, <1>8, Induction
<1>11. f[n] = SubSeq(msg, 1, L)
  BY <1>1, <1>9, <1>10 DEF T
<1>12. SubSeq(msg, 1, L) = msg
  BY SubSeqFull
<1> QED
  BY <1>5, <1>11, <1>12

(* What a step leaves alone: the sending half of a block, the receiving half.  *)
SameSender(k, l) ==
  l.snd_nxt = k.snd_nxt /\ l.snd_queue = k.snd_queue /\ l.snd_buf = k.snd_buf
SameReceiver(k, l) ==
  /\ l.rcv_nxt = k.rcv_nxt /\ l.rcv_buf = k.rcv_buf /\ l.rcv_queue = k.rcv_queue
  /\ l.acklist = k.acklist

(* ikcp_send adds the fragments to snd_queue, or refuses them. *)
LEMMA SendBlock ==
  ASSUME NEW B, NEW k \in Blocks(B), NEW msg \in Seq(B)
  PROVE  /\ IkcpSend(k, msg) \in Blocks(B)
         /\ SameReceiver(k, IkcpSend(k, msg))
         /\ IkcpSend(k, msg).snd_nxt = k.snd_nxt /\ IkcpSend(k, msg).snd_buf = k.snd_buf
         /\ SendFits(msg) => IkcpSend(k, msg).snd_queue = k.snd_queue \o Fragments(msg)
         /\ ~SendFits(msg) => IkcpSend(k, msg) = k
<1>1. CASE SendFits(msg)
  <2> DEFINE q == k.snd_queue \o Fragments(msg)
  <2>1. k.snd_queue \in Seq(Fragment(B)) /\ Fragments(msg) \in Seq(Fragment(B))
    BY FragmentFacts DEF Blocks
  <2>2. q \in Seq(Fragment(B))
    BY <2>1, ConcatProperties
  <2>3. IkcpSend(k, msg) = [k EXCEPT !.snd_queue = q]
    BY <1>1 DEF IkcpSend
  <2> HIDE DEF q
  <2>4. /\ IkcpSend(k, msg) \in Blocks(B) /\ IkcpSend(k, msg).snd_queue = q
        /\ SameReceiver(k, IkcpSend(k, msg))
        /\ IkcpSend(k, msg).snd_nxt = k.snd_nxt /\ IkcpSend(k, msg).snd_buf = k.snd_buf
    BY <2>2, <2>3 DEF Blocks, SameReceiver
  <2> QED
    BY <1>1, <2>4 DEF q
<1>2. CASE ~SendFits(msg)
  <2>1. IkcpSend(k, msg) = k
    BY <1>2 DEF IkcpSend
  <2> QED
    BY <1>2, <2>1 DEF SameReceiver
<1> QED
  BY <1>1, <1>2

(* a begins b. *)
Begins(a, b) == Len(a) <= Len(b) /\ \A i \in 1..Len(a) : b[i] = a[i]

(* The stream with one more message. *)
Longer(all, msg) == all \o Fragments(msg)
LongerEnds(w, M, msg) ==
  [i \in 0..(Len(M) + 1) |-> IF i = Len(M) + 1 THEN w[Len(M)] + FragmentCount(msg) ELSE w[i]]

(* An accepted message adds its fragments to the end of the stream.            *)
LEMMA StreamGrows ==
  ASSUME NEW B, NEW all, NEW w, NEW M, Stream(all, w, M, B), NEW msg \in Seq(B), SendFits(msg)
  PROVE  /\ Stream(Longer(all, msg), LongerEnds(w, M, msg), Append(M, msg), B)
         /\ Begins(all, Longer(all, msg))
         /\ \A i \in 0..Len(M) : LongerEnds(w, M, msg)[i] = w[i]
         /\ \A i \in 1..FragmentCount(msg) : Longer(all, msg)[Len(all) + i] = Fragments(msg)[i]
         /\ Len(Longer(all, msg)) = Len(all) + FragmentCount(msg)
<1> DEFINE n == Len(M)
           L == Len(all)
           F == Fragments(msg)
           c == FragmentCount(msg)
           a == Longer(all, msg)
           v == LongerEnds(w, M, msg)
           N == Append(M, msg)
<1>1. /\ M \in Seq(Seq(B)) /\ all \in Seq(Fragment(B)) /\ w \in [0..n -> Nat] /\ w[0] = 0
      /\ w[n] = L
  BY DEF Stream
<1>2. n \in Nat /\ L \in Nat /\ c \in Nat /\ c > 0 /\ n \in 0..n
  BY <1>1, LenProperties, CountFacts
<1>3. F \in Seq(Fragment(B)) /\ Len(F) = c /\ \A i \in 1..c : F[i].frg = c - i
  BY FragmentFacts
<1>4. N \in Seq(Seq(B)) /\ Len(N) = n + 1 /\ N[n + 1] = msg /\ \A i \in 1..n : N[i] = M[i]
  BY <1>1, AppendProperties
<1>5. /\ a \in Seq(Fragment(B)) /\ Len(a) = L + c
      /\ \A i \in 1..(L + c) : a[i] = IF i <= L THEN all[i] ELSE F[i - L]
  <2> HIDE DEF F, c
  <2>1. a = all \o F
    BY DEF Longer, F
  <2>2. /\ all \o F \in Seq(Fragment(B)) /\ Len(all \o F) = Len(all) + Len(F)
        /\ \A i \in 1..(Len(all) + Len(F)) :
             (all \o F)[i] = IF i <= Len(all) THEN all[i] ELSE F[i - Len(all)]
    <3>1. all \in Seq(Fragment(B)) /\ F \in Seq(Fragment(B))
      BY <1>1, <1>3
    <3> HIDE DEF L
    <3> QED
      BY <3>1, ConcatProperties, Zenon
  <2> HIDE DEF a
  <2> QED
    BY <1>3, <2>1, <2>2
<1> HIDE DEF a, F, N
<1>6. /\ \A i \in 1..L : a[i] = all[i]
      /\ \A i \in 1..c : a[L + i] = F[i]
  <2>1. \A i \in 1..L : i \in 1..(L + c) /\ i <= L
    BY <1>2
  <2>2. \A i \in 1..c : L + i \in 1..(L + c) /\ ~(L + i <= L) /\ (L + i) - L = i
    BY <1>2
  <2> QED
    BY <1>5, <2>1, <2>2
<1>7. /\ v \in [0..(n + 1) -> Nat] /\ v[n + 1] = L + c
      /\ \A i \in 0..n : v[i] = w[i]
  <2>1. v = [i \in 0..(n + 1) |-> IF i = n + 1 THEN L + c ELSE w[i]]
    BY <1>1 DEF LongerEnds
  <2>2. /\ n + 1 \in 0..(n + 1) /\ L + c \in Nat
        /\ \A i \in 0..n : i \in 0..(n + 1) /\ i # n + 1
        /\ \A i \in 0..(n + 1) : i # n + 1 => i \in 0..n
    BY <1>2
  <2> HIDE DEF v
  <2>3. v \in [0..(n + 1) -> Nat]
    BY <1>1, <2>1, <2>2
  <2> QED
    BY <2>1, <2>2, <2>3
<1> HIDE DEF v
<1>8. ASSUME NEW i \in 1..(n + 1)
      PROVE  /\ v[i] = v[i - 1] + FragmentCount(N[i])
             /\ \A j \in 1..FragmentCount(N[i]) : a[v[i - 1] + j] = Fragments(N[i])[j]
  <2>1. CASE i = n + 1
    <3>1. i - 1 = n /\ i - 1 \in 0..n
      BY <1>2, <2>1
    <3>2. N[i] = msg /\ v[i - 1] = L /\ v[i] = L + c
      BY <1>1, <1>4, <1>7, <2>1, <3>1
    <3> QED
      BY <1>6, <3>2 DEF F
  <2>2. CASE i # n + 1
    <3>1. i \in 1..n /\ i - 1 \in 0..n /\ i \in 0..n
      BY <1>2, <2>2
    <3>2. N[i] = M[i] /\ v[i] = w[i] /\ v[i - 1] = w[i - 1]
      BY <1>4, <1>7, <3>1
    <3>3. /\ w[i] = w[i - 1] + FragmentCount(M[i])
          /\ \A j \in 1..FragmentCount(M[i]) : all[w[i - 1] + j] = Fragments(M[i])[j]
      BY <3>1 DEF Stream
    <3>4. w[i] <= L
      \* the ends do not decrease
      <4> DEFINE T == {j \in Nat : j <= n - i => w[i] <= w[i + j]}
      <4>1. 0 \in T
        <5>1. w[i] \in Nat
          BY <1>1, <3>1
        <5>2. i + 0 = i
          BY <1>2, <3>1
        <5> QED
          BY <5>1, <5>2
      <4>2. ASSUME NEW j \in T PROVE j + 1 \in T
        <5> SUFFICES ASSUME j + 1 <= n - i PROVE w[i] <= w[i + (j + 1)]
          OBVIOUS
        <5>1. /\ j \in Nat /\ j <= n - i /\ i + (j + 1) \in 1..n /\ i + (j + 1) \in 0..n
              /\ (i + (j + 1)) - 1 = i + j /\ i + j \in 0..n
          BY <1>2, <3>1
        <5>2. w[i + (j + 1)] = w[i + j] + FragmentCount(M[i + (j + 1)])
          BY <5>1 DEF Stream
        <5>3. M[i + (j + 1)] \in Seq(B)
          BY <1>1, <5>1, ElementOfSeq
        <5>4. FragmentCount(M[i + (j + 1)]) \in Nat
          BY <5>3, CountFacts
        <5>5. w[i] <= w[i + j] /\ w[i] \in Nat /\ w[i + j] \in Nat
          BY <1>1, <3>1, <5>1
        <5> QED
          BY <5>2, <5>4, <5>5
      <4>3. T \in SUBSET Nat
        OBVIOUS
      <4> HIDE DEF T
      <4>4. T = Nat
        BY <4>1, <4>2, <4>3, Induction
      <4>5. n - i \in T /\ i + (n - i) = n
        BY <1>2, <3>1, <4>4
      <4> QED
        BY <1>1, <1>2, <3>1, <4>5 DEF T
    <3>5. ASSUME NEW j \in 1..FragmentCount(M[i]) PROVE w[i - 1] + j \in 1..L
      <4>1. M[i] \in Seq(B)
        BY <1>1, <3>1, ElementOfSeq
      <4>2. FragmentCount(M[i]) \in Nat /\ w[i - 1] \in Nat
        BY <1>1, <3>1, <4>1, CountFacts
      <4> QED
        BY <1>2, <3>3, <3>4, <4>2
    <3> QED
      BY <1>6, <3>2, <3>3, <3>5
  <2> QED
    BY <2>1, <2>2
<1>9. ASSUME NEW i \in 1..(L + c) PROVE a[i].frg < 256
  <2>1. CASE i <= L
    <3>1. i \in 1..L
      BY <1>2, <2>1
    <3> QED
      BY <1>6, <3>1 DEF Stream
  <2>2. CASE ~(i <= L)
    <3>1. i - L \in 1..c
      BY <1>2, <2>2
    <3>2. a[i].frg = c - (i - L)
      BY <1>3, <1>5, <2>2, <3>1
    <3>3. c < RcvWnd /\ RcvWnd <= 256 /\ RcvWnd \in Nat
      BY Sizes DEF SendFits
    <3> QED
      BY <1>2, <3>1, <3>2, <3>3
  <2> QED
    BY <2>1, <2>2
<1>10. v[0] = 0
  BY <1>1, <1>2, <1>7
<1>11. Stream(a, v, N, B)
  BY <1>4, <1>5, <1>7, <1>8, <1>9, <1>10 DEF Stream
<1>12. Begins(all, a)
  BY <1>2, <1>5, <1>6 DEF Begins
<1> QED
  BY <1>5, <1>6, <1>7, <1>11, <1>12 DEF a, v, N, F

(* A segment that carries its fragment does so when the stream gets longer. *)
LEMMA CarriesOn ==
  ASSUME NEW a, NEW b, Begins(a, b), NEW n \in Nat, n <= Len(a), Len(a) \in Nat,
         NEW s, s.sn \in Nat, Carries(s, a, n)
  PROVE  Carries(s, b, n)
<1>1. s.sn + 1 \in 1..Len(a)
  BY DEF Carries
<1>2. b[s.sn + 1] = a[s.sn + 1]
  BY <1>1 DEF Begins
<1> QED
  BY <1>2 DEF Carries

(* Link looks at the sending half of k and at the receiving half of p only, and *)
(* holds when datagrams are lost.                                              *)
LEMMA LinkSame ==
  ASSUME NEW B, NEW k, NEW p, NEW k2, NEW p2, NEW forth, NEW back, NEW M, NEW R,
         Link(k, p, forth, back, M, R, B), SameSender(k, k2), SameReceiver(p, p2)
  PROVE  Link(k2, p2, forth, back, M, R, B)
<1>1. PICK all, w : LinkOver(all, w, k, p, forth, back, M, R, B)
  BY DEF Link
<1>2. /\ k2.snd_nxt = k.snd_nxt /\ k2.snd_queue = k.snd_queue /\ k2.snd_buf = k.snd_buf
      /\ p2.rcv_nxt = p.rcv_nxt /\ p2.rcv_buf = p.rcv_buf /\ p2.rcv_queue = p.rcv_queue
      /\ p2.acklist = p.acklist
  BY DEF SameSender, SameReceiver
<1>3. SenderOK(k2, all) /\ ReceiverOK(p2, all, w, k2.snd_nxt, M, R)
  BY <1>1, <1>2 DEF LinkOver, SenderOK, ReceiverOK
<1>4. DataOK(forth, all, k2.snd_nxt)
  BY <1>1, <1>2 DEF LinkOver
<1>5. AcksOK(p2, back) /\ AcklistOK(p2)
  BY <1>1, <1>2 DEF LinkOver, AcksOK, AckOK, AcklistOK, Holds
<1>6. GoneIsHeld(k2, p2)
  BY <1>1, <1>2 DEF LinkOver, GoneIsHeld, InSndBuf, Holds
<1>7. Stream(all, w, M, B) /\ R \in Seq(Seq(B))
  BY <1>1 DEF LinkOver
<1> QED
  BY <1>3, <1>4, <1>5, <1>6, <1>7 DEF Link, LinkOver

(* Losing datagrams disturbs nothing. *)
LEMMA LinkFewer ==
  ASSUME NEW B, NEW k, NEW p, NEW forth, NEW back, NEW M, NEW R,
         Link(k, p, forth, back, M, R, B),
         NEW forth2 \in SUBSET forth, NEW back2 \in SUBSET back
  PROVE  Link(k, p, forth2, back2, M, R, B)
<1>1. PICK all, w : LinkOver(all, w, k, p, forth, back, M, R, B)
  BY DEF Link
<1>2. DataOK(forth2, all, k.snd_nxt) /\ AcksOK(p, back2)
  BY <1>1 DEF LinkOver, DataOK, AcksOK
<1> QED
  BY <1>1, <1>2 DEF Link, LinkOver

(* What the segments carry stays the same when a message is added, and the     *)
(* messages returned are still the first ones.                                 *)
LEMMA LinkSends ==
  ASSUME NEW B, NEW k \in Blocks(B), NEW p \in Blocks(B),
         NEW forth \in SUBSET Seq(Segments(B)), NEW back, NEW M, NEW R,
         Link(k, p, forth, back, M, R, B), NEW msg \in Seq(B), SendFits(msg)
  PROVE  Link(IkcpSend(k, msg), p, forth, back, Append(M, msg), R, B)
<1>1. PICK all, w : LinkOver(all, w, k, p, forth, back, M, R, B)
  BY DEF Link
<1> DEFINE l == IkcpSend(k, msg)
           a == Longer(all, msg)
           v == LongerEnds(w, M, msg)
           N == Append(M, msg)
           L == Len(all)
           c == FragmentCount(msg)
           x == k.snd_nxt
<1>2. Stream(all, w, M, B) /\ R \in Seq(Seq(B))
  BY <1>1 DEF LinkOver
<1>3. /\ Stream(a, v, N, B) /\ Begins(all, a) /\ \A i \in 0..Len(M) : v[i] = w[i]
      /\ \A i \in 1..c : a[L + i] = Fragments(msg)[i]
      /\ Len(a) = L + c
  BY <1>2, StreamGrows
<1>4. /\ l.snd_nxt = x /\ l.snd_buf = k.snd_buf
      /\ l.snd_queue = k.snd_queue \o Fragments(msg)
  BY SendBlock
<1>5. /\ x \in Nat /\ k.snd_queue \in Seq(Fragment(B)) /\ k.snd_buf \in Seq(Buffered(B))
      /\ p.rcv_buf \in Seq(Stored(B)) /\ p.rcv_queue \in Seq(Stored(B)) /\ p.rcv_nxt \in Nat
  BY DEF Blocks
<1>6. /\ L = x + Len(k.snd_queue) /\ Len(k.snd_queue) \in Nat /\ L \in Nat
      /\ x <= L /\ c \in Nat /\ c > 0
  <2>1. L = x + Len(k.snd_queue)
    BY <1>1 DEF LinkOver, SenderOK
  <2>2. Len(k.snd_queue) \in Nat
    BY <1>5, LenProperties
  <2>3. c \in Nat /\ c > 0
    BY CountFacts
  <2> HIDE DEF L, x, c
  <2> QED
    BY <1>5, <2>1, <2>2, <2>3
<1> HIDE DEF l, a, v, N, c
<1>7. ASSUME NEW s, s.sn \in Nat, Carries(s, all, x) PROVE Carries(s, a, x)
  BY <1>3, <1>5, <1>6, <1>7, CarriesOn
<1>8. SenderOK(l, a)
  <2> DEFINE q == k.snd_queue
             F == Fragments(msg)
  <2>1. F \in Seq(Fragment(B)) /\ Len(F) = c
    BY FragmentFacts DEF c
  <2>2. /\ Len(q \o F) = Len(q) + Len(F)
        /\ \A i \in 1..(Len(q) + Len(F)) :
             (q \o F)[i] = IF i <= Len(q) THEN q[i] ELSE F[i - Len(q)]
    BY <1>5, <2>1, ConcatProperties, Zenon
  <2>3. \A i \in 1..Len(q) : q[i] = all[x + i]
    BY <1>1 DEF LinkOver, SenderOK
  <2>4. \A i \in 1..L : a[i] = all[i]
    BY <1>3 DEF Begins
  <2>5. L = x + Len(q) /\ Len(q) \in Nat /\ L \in Nat /\ l.snd_queue = q \o F /\ c \in Nat
        /\ x \in Nat
    BY <1>4, <1>5, <1>6
  <2>6. \A i \in 1..c : a[L + i] = F[i]
    BY <1>3
  <2> HIDE DEF q, F, L, x
  <2>7. ASSUME NEW i \in 1..(Len(q) + c) PROVE (q \o F)[i] = a[x + i]
    <3>1. CASE i <= Len(q)
      <4>1. i \in 1..Len(q) /\ x + i \in 1..L
        BY <2>5, <3>1
      <4> QED
        BY <2>1, <2>2, <2>3, <2>4, <3>1, <4>1
    <3>2. CASE ~(i <= Len(q))
      <4>1. i - Len(q) \in 1..c /\ L + (i - Len(q)) = x + i
        BY <2>5, <3>2
      <4>2. (q \o F)[i] = F[i - Len(q)]
        BY <2>1, <2>2, <3>2
      <4>3. a[L + (i - Len(q))] = F[i - Len(q)]
        BY <2>6, <4>1
      <4> QED
        BY <4>1, <4>2, <4>3
    <3> QED
      BY <3>1, <3>2
  <2>8. Len(a) = x + Len(l.snd_queue) /\ Len(l.snd_queue) = Len(q) + c
    <3>1. Len(a) = L + c
      BY <1>3 DEF L
    <3>2. Len(l.snd_queue) = Len(q) + c
      BY <2>1, <2>2, <2>5
    <3> QED
      BY <2>5, <3>1, <3>2
  <2>9. \A i \in 1..Len(l.snd_queue) : l.snd_queue[i] = a[x + i]
    BY <2>5, <2>7, <2>8
  <2>10. \A i \in 1..Len(l.snd_buf) : Carries(l.snd_buf[i], a, x)
    <3>1. ASSUME NEW i \in 1..Len(k.snd_buf) PROVE Carries(k.snd_buf[i], a, x)
      <4>1. k.snd_buf[i] \in Buffered(B)
        BY <1>5, ElementOfSeq, Zenon
      <4>2. k.snd_buf[i].sn \in Nat
        BY <4>1 DEF Buffered
      <4>3. Carries(k.snd_buf[i], all, x)
        BY <1>1 DEF LinkOver, SenderOK, x
      <4> QED
        BY <1>7, <4>2, <4>3
    <3> QED
      BY <1>4, <3>1
  <2>11. l.snd_nxt = x
    BY <1>4
  <2> QED
    BY <2>8, <2>9, <2>10, <2>11 DEF SenderOK
<1>9. DataOK(forth, a, x)
  <2>1. ASSUME NEW d \in forth, NEW i \in 1..Len(d), d[i].cmd = "PUSH"
        PROVE  Carries(d[i], a, x)
    <3>1. d[i] \in Segments(B)
      BY ElementOfSeq, Zenon
    <3>2. d[i].sn \in Nat
      BY <3>1 DEF Segments
    <3>3. Carries(d[i], all, x)
      BY <1>1, <2>1 DEF LinkOver, DataOK, PushOK
    <3> QED
      BY <1>7, <3>2, <3>3
  <2> QED
    BY <2>1 DEF DataOK, PushOK
<1>10. ReceiverOK(p, a, v, x, N, R)
  <2>1. ReceiverOK(p, all, w, x, M, R)
    BY <1>1 DEF LinkOver
  <2>2. M \in Seq(Seq(B)) /\ w \in [0..Len(M) -> Nat]
    BY <1>2 DEF Stream
  <2>3. /\ Len(N) = Len(M) + 1 /\ (\A i \in 1..Len(M) : N[i] = M[i]) /\ Len(M) \in Nat
        /\ Len(R) \in Nat
    BY <1>2, <2>2, AppendProperties, LenProperties DEF N
  <2>4. Len(R) \in 0..Len(M)
    BY <2>1, <2>3 DEF ReceiverOK
  <2>5. v[Len(R)] = w[Len(R)] /\ w[Len(R)] \in Nat
    BY <1>3, <2>2, <2>4
  <2>6. ASSUME NEW i \in 1..Len(p.rcv_buf) PROVE Carries(p.rcv_buf[i], a, x)
    <3>1. p.rcv_buf[i] \in Stored(B)
      BY <1>5, ElementOfSeq, Zenon
    <3>2. p.rcv_buf[i].sn \in Nat
      BY <3>1 DEF Stored
    <3>3. Carries(p.rcv_buf[i], all, x)
      BY <2>1 DEF ReceiverOK
    <3> QED
      BY <1>7, <3>2, <3>3
  <2>7. ASSUME NEW i \in 1..Len(p.rcv_queue)
        PROVE  /\ p.rcv_queue[i].frg = a[v[Len(R)] + i].frg
               /\ p.rcv_queue[i].data = a[v[Len(R)] + i].data
    <3>1. p.rcv_nxt = w[Len(R)] + Len(p.rcv_queue) /\ p.rcv_nxt <= x /\ Len(p.rcv_queue) \in Nat
      BY <1>5, <2>1, LenProperties DEF ReceiverOK
    <3>2. w[Len(R)] + i \in 1..L
      <4> HIDE DEF L, x
      <4> QED
        BY <1>5, <1>6, <2>5, <3>1
    <3>3. a[w[Len(R)] + i] = all[w[Len(R)] + i]
      BY <1>3, <3>2 DEF Begins
    <3> QED
      BY <2>1, <2>5, <3>3 DEF ReceiverOK
  <2>8. p.rcv_nxt <= x /\ p.rcv_nxt = v[Len(R)] + Len(p.rcv_queue)
    BY <2>1, <2>5 DEF ReceiverOK
  <2>9. Len(R) <= Len(N)
    BY <2>3, <2>4
  <2>10. \A i \in 1..Len(R) : R[i] = N[i]
    <3>1. \A i \in 1..Len(R) : R[i] = M[i]
      BY <2>1 DEF ReceiverOK
    <3>2. \A i \in 1..Len(R) : i \in 1..Len(M)
      BY <2>3, <2>4
    <3> QED
      BY <2>3, <3>1, <3>2
  <2> QED
    BY <2>6, <2>7, <2>8, <2>9, <2>10 DEF ReceiverOK
<1>11. AcksOK(p, back) /\ AcklistOK(p) /\ GoneIsHeld(l, p)
  <2>1. AcksOK(p, back) /\ AcklistOK(p) /\ GoneIsHeld(k, p)
    BY <1>1 DEF LinkOver
  <2>2. l.snd_nxt = k.snd_nxt /\ l.snd_buf = k.snd_buf
    BY <1>4
  <2>3. GoneIsHeld(l, p)
    BY <2>1, <2>2 DEF GoneIsHeld, InSndBuf
  <2> QED
    BY <2>1, <2>3
<1>12. l.snd_nxt = x
  BY <1>4
<1>13. LinkOver(a, v, l, p, forth, back, N, R, B)
  BY <1>2, <1>3, <1>8, <1>9, <1>10, <1>11, <1>12, Zenon DEF LinkOver
<1> QED
  BY <1>13, Zenon DEF Link, l, N

-----------------------------------------------------------------------------
(* The receiving half: ikcp_input's data, and ikcp_recv *)

(* What k had received, l has received. *)
Grows(k, l) ==
  k.rcv_nxt <= l.rcv_nxt /\ \A sn \in Nat : Holds(k, sn) => Holds(l, sn)

(* MoveAvailable takes segments that follow rcv_nxt from the front of rcv_buf. *)
LEMMA MoveBlock ==
  ASSUME NEW B, NEW k \in Blocks(B)
  PROVE  /\ MoveAvailable(k) \in Blocks(B) /\ SameSender(k, MoveAvailable(k))
         /\ MoveAvailable(k).acklist = k.acklist
         /\ \E n \in 0..Len(k.rcv_buf) :
              /\ \A j \in 1..n : k.rcv_buf[j].sn = k.rcv_nxt + (j - 1)
              /\ MoveAvailable(k).rcv_queue = k.rcv_queue \o SubSeq(k.rcv_buf, 1, n)
              /\ MoveAvailable(k).rcv_buf = SubSeq(k.rcv_buf, n + 1, Len(k.rcv_buf))
              /\ MoveAvailable(k).rcv_nxt = k.rcv_nxt + n
<1> DEFINE S == {i \in 0 .. Len(k.rcv_buf) :
                   /\ i = 0 \/ Len(k.rcv_queue) + i <= RcvWnd
                   /\ \A j \in 1 .. i : k.rcv_buf[j].sn = k.rcv_nxt + (j - 1)}
           n == Max(S)
           q == k.rcv_queue \o SubSeq(k.rcv_buf, 1, n)
           b == SubSeq(k.rcv_buf, n + 1, Len(k.rcv_buf))
           l == MoveAvailable(k)
<1>1. /\ k.rcv_buf \in Seq(Stored(B)) /\ k.rcv_queue \in Seq(Stored(B)) /\ k.rcv_nxt \in Nat
  BY DEF Blocks
<1>2. Len(k.rcv_buf) \in Nat
  BY <1>1, LenProperties
<1>3. 0 \in S /\ S \in SUBSET (0..Len(k.rcv_buf))
  BY <1>2
<1>4. n \in S
  <2> HIDE DEF S
  <2> QED
    BY <1>2, <1>3, MaxFacts
<1>5. n \in 0..Len(k.rcv_buf) /\ \A j \in 1..n : k.rcv_buf[j].sn = k.rcv_nxt + (j - 1)
  BY <1>4
<1>6. l = [k EXCEPT !.rcv_queue = q, !.rcv_buf = b, !.rcv_nxt = k.rcv_nxt + n]
  BY DEF MoveAvailable
<1> HIDE DEF S, n
<1>7. SubSeq(k.rcv_buf, 1, n) \in Seq(Stored(B)) /\ b \in Seq(Stored(B))
  BY <1>1, <1>5, SplitFacts, Zenon
<1>8. q \in Seq(Stored(B))
  BY <1>1, <1>7, ConcatProperties
<1>9. k.rcv_nxt + n \in Nat
  BY <1>1, <1>2, <1>5
<1> HIDE DEF q, b, l
<1>10. /\ l \in Blocks(B) /\ SameSender(k, l) /\ l.acklist = k.acklist
       /\ l.rcv_queue = q /\ l.rcv_buf = b /\ l.rcv_nxt = k.rcv_nxt + n
  BY <1>6, <1>7, <1>8, <1>9 DEF Blocks, SameSender
<1> QED
  BY <1>5, <1>10 DEF q, b, l

(* Moving segments keeps them in order and loses none. *)
LEMMA MoveKeeps ==
  ASSUME NEW B, NEW k \in Blocks(B), NEW all, NEW w, NEW nxt \in Nat, NEW M, NEW R,
         ReceiverOK(k, all, w, nxt, M, R), w[Len(R)] \in Nat
  PROVE  ReceiverOK(MoveAvailable(k), all, w, nxt, M, R) /\ Grows(k, MoveAvailable(k))
<1> DEFINE l == MoveAvailable(k)
           q == k.rcv_queue
           b == k.rcv_buf
           base == w[Len(R)]
<1>1. PICK n \in 0..Len(b) :
         /\ \A j \in 1..n : b[j].sn = k.rcv_nxt + (j - 1)
         /\ l.rcv_queue = q \o SubSeq(b, 1, n)
         /\ l.rcv_buf = SubSeq(b, n + 1, Len(b))
         /\ l.rcv_nxt = k.rcv_nxt + n
  BY MoveBlock
<1>2. b \in Seq(Stored(B)) /\ q \in Seq(Stored(B)) /\ k.rcv_nxt \in Nat
  BY DEF Blocks
<1>3. /\ SubSeq(b, 1, n) \in Seq(Stored(B)) /\ Len(SubSeq(b, 1, n)) = n
      /\ \A i \in 1..n : SubSeq(b, 1, n)[i] = b[i]
      /\ Len(SubSeq(b, n + 1, Len(b))) = Len(b) - n
      /\ \A i \in 1..(Len(b) - n) : SubSeq(b, n + 1, Len(b))[i] = b[n + i]
  BY <1>1, <1>2, SplitFacts, Zenon
<1>4. Len(b) \in Nat /\ Len(q) \in Nat /\ base \in Nat /\ n \in Nat /\ n <= Len(b)
  <2>1. Len(b) \in Nat /\ Len(q) \in Nat
    BY <1>2, LenProperties
  <2> QED
    BY <1>1, <2>1
<1>5. \A i \in 1..Len(b) : Carries(b[i], all, nxt)
  BY DEF ReceiverOK
<1>6. /\ k.rcv_nxt <= nxt /\ k.rcv_nxt = base + Len(q) /\ Len(R) <= Len(M)
      /\ \A i \in 1..Len(R) : R[i] = M[i]
  BY DEF ReceiverOK
<1>7. \A i \in 1..Len(q) : q[i].frg = all[base + i].frg /\ q[i].data = all[base + i].data
  BY DEF ReceiverOK
<1>8. /\ Len(l.rcv_queue) = Len(q) + n
      /\ \A i \in 1..(Len(q) + n) :
           l.rcv_queue[i] = IF i <= Len(q) THEN q[i] ELSE SubSeq(b, 1, n)[i - Len(q)]
  <2> DEFINE t == SubSeq(b, 1, n)
  <2>1. t \in Seq(Stored(B)) /\ Len(t) = n /\ l.rcv_queue = q \o t
    BY <1>1, <1>3
  <2> HIDE DEF t, l, q, b
  <2>2. /\ Len(q \o t) = Len(q) + Len(t)
        /\ \A i \in 1..(Len(q) + Len(t)) :
             (q \o t)[i] = IF i <= Len(q) THEN q[i] ELSE t[i - Len(q)]
    BY <1>2, <2>1, ConcatProperties, Zenon
  <2> QED
    BY <2>1, <2>2 DEF t
<1> HIDE DEF l, q, b, base
<1>9. l.rcv_nxt <= nxt
  <2>1. CASE n = 0
    BY <1>1, <1>2, <1>6, <2>1
  <2>2. CASE n > 0
    <3>1. n \in 1..n /\ n \in 1..Len(b)
      BY <1>4, <2>2
    <3>2. b[n].sn = k.rcv_nxt + (n - 1) /\ b[n].sn < nxt
      BY <1>1, <1>5, <3>1 DEF Carries
    <3> QED
      BY <1>1, <1>2, <1>4, <3>2
  <2> QED
    BY <1>4, <2>1, <2>2
<1>10. ASSUME NEW i \in 1..Len(l.rcv_buf)
       PROVE  Carries(l.rcv_buf[i], all, nxt)
  <2>1. i \in 1..(Len(b) - n) /\ n + i \in 1..Len(b)
    BY <1>1, <1>3, <1>4
  <2>2. l.rcv_buf[i] = b[n + i]
    BY <1>1, <1>3, <2>1
  <2> QED
    BY <1>5, <2>1, <2>2
<1>11. l.rcv_nxt = base + Len(l.rcv_queue)
  <2>1. l.rcv_nxt = k.rcv_nxt + n /\ k.rcv_nxt = base + Len(q)
    BY <1>1, <1>6
  <2>2. Len(l.rcv_queue) = Len(q) + n
    BY <1>8
  <2> QED
    BY <1>4, <2>1, <2>2
<1>12. ASSUME NEW i \in 1..Len(l.rcv_queue)
       PROVE  /\ l.rcv_queue[i].frg = all[base + i].frg
              /\ l.rcv_queue[i].data = all[base + i].data
  <2>1. i \in 1..(Len(q) + n)
    BY <1>8
  <2>2. CASE i <= Len(q)
    <3>1. i \in 1..Len(q) /\ l.rcv_queue[i] = q[i]
      BY <1>4, <1>8, <2>1, <2>2
    <3> QED
      BY <1>7, <3>1
  <2>3. CASE ~(i <= Len(q))
    <3> DEFINE j == i - Len(q)
    <3>1. j \in 1..n /\ j \in 1..Len(b) /\ base + i = k.rcv_nxt + j
      BY <1>4, <1>6, <2>1, <2>3
    <3>2. l.rcv_queue[i] = b[j]
      BY <1>3, <1>8, <2>1, <2>3, <3>1
    <3> HIDE DEF j
    <3>3. b[j].sn = k.rcv_nxt + (j - 1)
      BY <1>1, <3>1
    <3>4. b[j].sn + 1 = base + i
      BY <1>2, <1>4, <3>1, <3>3
    <3> QED
      BY <1>5, <3>1, <3>2, <3>4 DEF Carries
  <2> QED
    BY <2>2, <2>3
<1>13. ReceiverOK(l, all, w, nxt, M, R)
  BY <1>6, <1>9, <1>10, <1>11, <1>12 DEF ReceiverOK, base
<1>14. ASSUME NEW sn \in Nat, Holds(k, sn) PROVE Holds(l, sn)
  <2>1. CASE sn < k.rcv_nxt
    <3>1. sn < l.rcv_nxt
      BY <1>1, <1>2, <1>4, <2>1
    <3> QED
      BY <3>1 DEF Holds
  <2>2. CASE \E i \in 1..Len(b) : b[i].sn = sn
    <3>1. PICK i \in 1..Len(b) : b[i].sn = sn
      BY <2>2
    <3>2. CASE i <= n
      <4>1. i \in 1..n
        BY <1>4, <3>2
      <4>2. sn = k.rcv_nxt + (i - 1)
        BY <1>1, <3>1, <4>1
      <4>3. sn < l.rcv_nxt
        BY <1>1, <1>2, <1>4, <4>1, <4>2
      <4> QED
        BY <4>3 DEF Holds
    <3>3. CASE ~(i <= n)
      <4>1. i - n \in 1..(Len(b) - n) /\ n + (i - n) = i
        BY <1>4, <3>3
      <4>2. i - n \in 1..Len(l.rcv_buf) /\ l.rcv_buf[i - n] = b[i]
        BY <1>1, <1>3, <4>1
      <4> QED
        BY <3>1, <4>2 DEF Holds
    <3> QED
      BY <3>2, <3>3
  <2> QED
    BY <1>14, <2>1, <2>2 DEF Holds, b
<1>15. k.rcv_nxt <= l.rcv_nxt
  BY <1>1, <1>2, <1>4
<1> QED
  BY <1>13, <1>14, <1>15 DEF Grows, l

(* ikcp_parse_data: a segment inside the window is in rcv_buf afterwards, or   *)
(* farther; nothing that was received is lost.                                 *)
LEMMA ParseDataKeeps ==
  ASSUME NEW B, NEW k \in Blocks(B), NEW all, NEW w, NEW nxt \in Nat, NEW M, NEW R,
         ReceiverOK(k, all, w, nxt, M, R), w[Len(R)] \in Nat,
         NEW seg \in Stored(B), Carries(seg, all, nxt)
  PROVE  /\ ParseData(k, seg) \in Blocks(B) /\ SameSender(k, ParseData(k, seg))
         /\ ParseData(k, seg).acklist = k.acklist
         /\ ReceiverOK(ParseData(k, seg), all, w, nxt, M, R)
         /\ Grows(k, ParseData(k, seg))
         /\ seg.sn < k.rcv_nxt + RcvWnd => Holds(ParseData(k, seg), seg.sn)
<1> DEFINE l == ParseData(k, seg)
           b == k.rcv_buf
<1>1. b \in Seq(Stored(B)) /\ k.rcv_nxt \in Nat /\ seg.sn \in Nat /\ RcvWnd \in Nat
  BY Sizes DEF Blocks, Stored
<1>2. Len(b) \in Nat
  BY <1>1, LenProperties
<1>3. CASE seg.sn >= k.rcv_nxt + RcvWnd \/ seg.sn < k.rcv_nxt
  <2>1. l = k
    BY <1>3 DEF ParseData
  <2>2. seg.sn < k.rcv_nxt + RcvWnd => Holds(l, seg.sn)
    BY <1>1, <1>3, <2>1 DEF Holds
  <2>3. Grows(k, l)
    BY <1>1, <2>1 DEF Grows
  <2> QED
    BY <2>1, <2>2, <2>3 DEF SameSender
<1>4. CASE ~(seg.sn >= k.rcv_nxt + RcvWnd \/ seg.sn < k.rcv_nxt)
  <2> DEFINE S == {0} \cup {i \in DOMAIN b : b[i].sn <= seg.sn}
             at == Max(S)
             c == InsertAt(b, at + 1, seg)
             m == IF at # 0 /\ b[at].sn = seg.sn THEN k ELSE [k EXCEPT !.rcv_buf = c]
  <2>1. l = MoveAvailable(m)
    BY <1>4 DEF ParseData
  <2>2. S \in SUBSET (0..Len(b)) /\ S # {}
    <3>1. DOMAIN b = 1..Len(b)
      BY <1>1, LenProperties
    <3> QED
      BY <1>2, <3>1
  <2>3. at \in 0..Len(b)
    <3> HIDE DEF S
    <3> QED
      BY <1>2, <2>2, MaxFacts
  <2> HIDE DEF S, at, l
  <2>4. /\ m \in Blocks(B) /\ SameSender(k, m) /\ m.acklist = k.acklist
        /\ m.rcv_nxt = k.rcv_nxt /\ m.rcv_queue = k.rcv_queue
        /\ Holds(m, seg.sn)
        /\ \A i \in 1..Len(m.rcv_buf) : Carries(m.rcv_buf[i], all, nxt)
        /\ \A j \in 1..Len(b) : \E i \in 1..Len(m.rcv_buf) : m.rcv_buf[i].sn = b[j].sn
    <3>1. \A i \in 1..Len(b) : Carries(b[i], all, nxt)
      BY DEF ReceiverOK
    <3>2. CASE at # 0 /\ b[at].sn = seg.sn
      <4>1. m = k /\ at \in 1..Len(b)
        BY <1>2, <2>3, <3>2
      <4>2. Holds(m, seg.sn)
        BY <3>2, <4>1 DEF Holds
      <4> QED
        BY <3>1, <4>1, <4>2 DEF SameSender
    <3>3. CASE ~(at # 0 /\ b[at].sn = seg.sn)
      <4>1. m = [k EXCEPT !.rcv_buf = c]
        BY <3>3
      <4>2. at + 1 \in 1..(Len(b) + 1)
        BY <1>2, <2>3
      <4>3. /\ c \in Seq(Stored(B)) /\ Len(c) = Len(b) + 1
            /\ \A j \in 1..(Len(b) + 1) :
                 c[j] = IF j < at + 1 THEN b[j] ELSE IF j = at + 1 THEN seg ELSE b[j - 1]
        <5> DEFINE X == Stored(B)
                   i == at + 1
        <5>1. b \in Seq(X) /\ i \in 1..(Len(b) + 1) /\ seg \in X
          BY <1>1, <4>2
        <5> HIDE DEF b, X, i, c
        <5>2. /\ InsertAt(b, i, seg) \in Seq(X) /\ Len(InsertAt(b, i, seg)) = Len(b) + 1
              /\ \A j \in 1..(Len(b) + 1) : InsertAt(b, i, seg)[j] =
                    IF j < i THEN b[j] ELSE IF j = i THEN seg ELSE b[j - 1]
          BY <5>1, InsertFacts
        <5> QED
          BY <5>2 DEF c, X, i
      <4> HIDE DEF c, m
      <4>4. /\ m \in Blocks(B) /\ SameSender(k, m) /\ m.acklist = k.acklist
            /\ m.rcv_nxt = k.rcv_nxt /\ m.rcv_queue = k.rcv_queue /\ m.rcv_buf = c
        BY <4>1, <4>3 DEF Blocks, SameSender
      <4>5. c[at + 1] = seg
        BY <1>2, <2>3, <4>2, <4>3
      <4>6. Holds(m, seg.sn)
        BY <4>2, <4>3, <4>4, <4>5 DEF Holds
      <4>7. ASSUME NEW i \in 1..Len(c) PROVE Carries(c[i], all, nxt)
        <5>1. CASE i < at + 1
          <6>1. i \in 1..Len(b) /\ i \in 1..(Len(b) + 1)
            BY <1>2, <2>3, <4>3, <5>1
          <6> QED
            BY <3>1, <4>3, <5>1, <6>1
        <5>2. CASE i = at + 1
          BY <4>5, <5>2
        <5>3. CASE i > at + 1
          <6>1. i - 1 \in 1..Len(b) /\ i \in 1..(Len(b) + 1) /\ ~(i < at + 1) /\ i # at + 1
            BY <1>2, <2>3, <4>3, <5>3
          <6>2. c[i] = b[i - 1]
            BY <4>3, <6>1
          <6> QED
            BY <3>1, <6>1, <6>2
        <5>4. i < at + 1 \/ i = at + 1 \/ i > at + 1
          BY <1>2, <2>3, <4>3
        <5> QED
          BY <5>1, <5>2, <5>3, <5>4
      <4>8. ASSUME NEW j \in 1..Len(b) PROVE \E i \in 1..Len(c) : c[i].sn = b[j].sn
        <5>1. CASE j < at + 1
          <6>1. j \in 1..Len(c) /\ j \in 1..(Len(b) + 1)
            BY <1>2, <4>3
          <6>2. c[j] = b[j]
            BY <4>3, <5>1, <6>1
          <6> QED
            BY <6>1, <6>2
        <5>2. CASE ~(j < at + 1)
          <6>1. /\ j + 1 \in 1..Len(c) /\ j + 1 \in 1..(Len(b) + 1) /\ ~(j + 1 < at + 1)
                /\ j + 1 # at + 1 /\ (j + 1) - 1 = j
            BY <1>2, <2>3, <4>3, <5>2
          <6>2. c[j + 1] = b[j]
            BY <4>3, <6>1
          <6> QED
            BY <6>1, <6>2
        <5> QED
          BY <5>1, <5>2
      <4> QED
        BY <4>4, <4>6, <4>7, <4>8
    <3> QED
      BY <3>2, <3>3
  <2> HIDE DEF m
  <2>5. ReceiverOK(m, all, w, nxt, M, R)
    <3>1. /\ m.rcv_nxt = k.rcv_nxt /\ m.rcv_queue = k.rcv_queue
          /\ \A i \in 1..Len(m.rcv_buf) : Carries(m.rcv_buf[i], all, nxt)
      BY <2>4
    <3> QED
      BY <3>1 DEF ReceiverOK
  <2>6. ReceiverOK(l, all, w, nxt, M, R) /\ Grows(m, l)
    BY <2>1, <2>4, <2>5, MoveKeeps
  <2>7. l \in Blocks(B) /\ SameSender(m, l) /\ l.acklist = m.acklist
    BY <2>1, <2>4, MoveBlock
  <2>8. Grows(k, l)
    <3>1. ASSUME NEW sn \in Nat, Holds(k, sn) PROVE Holds(m, sn)
      <4>1. CASE sn < k.rcv_nxt
        BY <2>4, <4>1 DEF Holds
      <4>2. CASE \E i \in 1..Len(b) : b[i].sn = sn
        BY <2>4, <4>2 DEF Holds
      <4> QED
        BY <3>1, <4>1, <4>2 DEF Holds
    <3>2. k.rcv_nxt <= l.rcv_nxt
      BY <2>4, <2>6 DEF Grows
    <3> QED
      BY <2>6, <3>1, <3>2 DEF Grows
  <2>9. Holds(l, seg.sn)
    BY <1>1, <2>4, <2>6 DEF Grows
  <2>10. SameSender(k, l) /\ l.acklist = k.acklist
    BY <2>4, <2>7 DEF SameSender
  <2> QED
    BY <2>6, <2>7, <2>8, <2>9, <2>10 DEF l
<1> QED
  BY <1>3, <1>4

(* A PUSH segment: only what is held is put in acklist. *)
LEMMA PushKeeps ==
  ASSUME NEW B, NEW k \in Blocks(B), NEW all, NEW w, NEW nxt \in Nat, NEW M, NEW R,
         ReceiverOK(k, all, w, nxt, M, R), w[Len(R)] \in Nat, AcklistOK(k),
         NEW s \in Segments(B), Carries(s, all, nxt)
  PROVE  /\ InputPush(k, s) \in Blocks(B) /\ SameSender(k, InputPush(k, s))
         /\ ReceiverOK(InputPush(k, s), all, w, nxt, M, R)
         /\ AcklistOK(InputPush(k, s)) /\ Grows(k, InputPush(k, s))
<1> DEFINE l == InputPush(k, s)
           acked == AckPush(k, s.sn)
           seg == [sn |-> s.sn, frg |-> s.frg, data |-> s.data]
<1>1. k.rcv_nxt \in Nat /\ s.sn \in Nat /\ RcvWnd \in Nat /\ k.acklist \in Seq(Nat)
  BY Sizes DEF Blocks, Segments
<1>2. CASE ~(s.sn < k.rcv_nxt + RcvWnd)
  <2>1. l = k
    BY <1>2 DEF InputPush
  <2> QED
    BY <1>1, <2>1 DEF SameSender, Grows
<1>3. CASE s.sn < k.rcv_nxt + RcvWnd
  <2> DEFINE A == Append(k.acklist, s.sn)
             n == Len(k.acklist)
  <2>1. /\ A \in Seq(Nat) /\ Len(A) = n + 1 /\ A[n + 1] = s.sn
        /\ (\A i \in 1..n : A[i] = k.acklist[i]) /\ n \in Nat
    BY <1>1, AppendProperties, LenProperties
  <2>2. acked = [k EXCEPT !.acklist = A]
    BY DEF AckPush
  <2> HIDE DEF A, acked, n
  <2>3. /\ acked \in Blocks(B) /\ SameSender(k, acked) /\ acked.acklist = A
        /\ acked.rcv_nxt = k.rcv_nxt /\ acked.rcv_buf = k.rcv_buf
        /\ acked.rcv_queue = k.rcv_queue
    BY <2>1, <2>2 DEF Blocks, SameSender
  <2>4. ReceiverOK(acked, all, w, nxt, M, R)
    BY <2>3 DEF ReceiverOK
  <2>5. \A sn \in Nat : Holds(k, sn) => Holds(acked, sn)
    BY <2>3 DEF Holds
  <2>6. ASSUME NEW m, Grows(acked, m), Holds(m, s.sn), m.acklist = A
        PROVE  AcklistOK(m) /\ Grows(k, m)
    <3>1. Grows(k, m)
      BY <2>3, <2>5, <2>6 DEF Grows
    <3>2. ASSUME NEW i \in 1..(n + 1) PROVE Holds(m, A[i])
      <4>1. CASE i = n + 1
        BY <2>1, <2>6, <4>1
      <4>2. CASE i # n + 1
        <5>1. i \in 1..n
          BY <2>1, <4>2
        <5>2. A[i] = k.acklist[i] /\ k.acklist[i] \in Nat /\ Holds(k, k.acklist[i])
          BY <1>1, <2>1, <5>1, ElementOfSeq DEF AcklistOK, n
        <5> QED
          BY <3>1, <5>2 DEF Grows
      <4> QED
        BY <4>1, <4>2
    <3>3. AcklistOK(m)
      BY <2>1, <2>6, <3>2 DEF AcklistOK
    <3> QED
      BY <3>1, <3>3
  <2>7. CASE s.sn >= k.rcv_nxt
    <3>1. l = ParseData(acked, seg)
      BY <1>3, <2>3, <2>7 DEF InputPush, acked
    <3>2. seg \in Stored(B) /\ Carries(seg, all, nxt) /\ seg.sn = s.sn
      BY DEF Segments, Stored, Carries
    <3> HIDE DEF seg, l
    <3>3. /\ l \in Blocks(B) /\ SameSender(acked, l) /\ l.acklist = acked.acklist
          /\ ReceiverOK(l, all, w, nxt, M, R) /\ Grows(acked, l)
          /\ seg.sn < acked.rcv_nxt + RcvWnd => Holds(l, seg.sn)
      BY <2>3, <2>4, <3>1, <3>2, ParseDataKeeps
    <3>4. Holds(l, s.sn) /\ l.acklist = A
      BY <1>3, <2>3, <3>2, <3>3
    <3>5. SameSender(k, l)
      BY <2>3, <3>3 DEF SameSender
    <3> QED
      BY <2>6, <3>3, <3>4, <3>5 DEF l
  <2>8. CASE ~(s.sn >= k.rcv_nxt)
    <3>1. l = acked
      BY <1>3, <2>3, <2>8 DEF InputPush, acked
    <3>2. Holds(acked, s.sn)
      BY <1>1, <2>3, <2>8 DEF Holds
    <3>3. Grows(acked, acked)
      BY <1>1, <2>3 DEF Grows
    <3> HIDE DEF l
    <3> QED
      BY <2>3, <2>4, <2>6, <3>1, <3>2, <3>3 DEF l
  <2> QED
    BY <2>7, <2>8
<1> QED
  BY <1>2, <1>3

-----------------------------------------------------------------------------
(* The sending half: ikcp_input's acknowledgements *)

(* l is k with some segments taken from snd_buf, all of which p holds. *)
Trimmed(k, l, p) ==
  /\ l.snd_nxt = k.snd_nxt /\ l.snd_queue = k.snd_queue
  /\ \A i \in 1..Len(l.snd_buf) : \E j \in 1..Len(k.snd_buf) :
       /\ l.snd_buf[i].sn = k.snd_buf[j].sn
       /\ l.snd_buf[i].frg = k.snd_buf[j].frg /\ l.snd_buf[i].data = k.snd_buf[j].data
  /\ \A j \in 1..Len(k.snd_buf) :
       InSndBuf(l, k.snd_buf[j].sn) \/ Holds(p, k.snd_buf[j].sn)

(* An untouched sending half has lost nothing. *)
LEMMA TrimmedSame ==
  ASSUME NEW k, NEW l, NEW p, SameSender(k, l)
  PROVE  Trimmed(k, l, p)
BY DEF SameSender, Trimmed, InSndBuf

(* Two inputs drop only what the peer has, if each of them does. *)
LEMMA TrimmedTwice ==
  ASSUME NEW k, NEW l, NEW m, NEW p, Trimmed(k, l, p), Trimmed(l, m, p)
  PROVE  Trimmed(k, m, p)
<1>1. m.snd_nxt = k.snd_nxt /\ m.snd_queue = k.snd_queue
  BY DEF Trimmed
<1>2. ASSUME NEW i \in 1..Len(m.snd_buf)
      PROVE  \E j \in 1..Len(k.snd_buf) :
               /\ m.snd_buf[i].sn = k.snd_buf[j].sn
               /\ m.snd_buf[i].frg = k.snd_buf[j].frg /\ m.snd_buf[i].data = k.snd_buf[j].data
  <2>1. PICK h \in 1..Len(l.snd_buf) :
           /\ m.snd_buf[i].sn = l.snd_buf[h].sn
           /\ m.snd_buf[i].frg = l.snd_buf[h].frg /\ m.snd_buf[i].data = l.snd_buf[h].data
    BY DEF Trimmed
  <2>2. PICK j \in 1..Len(k.snd_buf) :
           /\ l.snd_buf[h].sn = k.snd_buf[j].sn
           /\ l.snd_buf[h].frg = k.snd_buf[j].frg /\ l.snd_buf[h].data = k.snd_buf[j].data
    BY DEF Trimmed
  <2> QED
    BY <2>1, <2>2
<1>3. ASSUME NEW j \in 1..Len(k.snd_buf)
      PROVE  InSndBuf(m, k.snd_buf[j].sn) \/ Holds(p, k.snd_buf[j].sn)
  <2>1. CASE Holds(p, k.snd_buf[j].sn)
    BY <2>1
  <2>2. CASE InSndBuf(l, k.snd_buf[j].sn)
    <3>1. PICK h \in 1..Len(l.snd_buf) : l.snd_buf[h].sn = k.snd_buf[j].sn
      BY <2>2 DEF InSndBuf
    <3>2. InSndBuf(m, l.snd_buf[h].sn) \/ Holds(p, l.snd_buf[h].sn)
      BY DEF Trimmed
    <3> QED
      BY <3>1, <3>2
  <2> QED
    BY <2>1, <2>2 DEF Trimmed
<1> QED
  BY <1>1, <1>2, <1>3 DEF Trimmed

(* ikcp_shrink_buf changes snd_una only. *)
LEMMA ShrinkBlock ==
  ASSUME NEW B, NEW k \in Blocks(B)
  PROVE  /\ ShrinkBuf(k) \in Blocks(B)
         /\ SameSender(k, ShrinkBuf(k)) /\ SameReceiver(k, ShrinkBuf(k))
<1> DEFINE u == IF k.snd_buf = <<>> THEN k.snd_nxt ELSE Head(k.snd_buf).sn
<1>1. k.snd_buf \in Seq(Buffered(B)) /\ k.snd_nxt \in Nat
  BY DEF Blocks
<1>2. u \in Nat
  <2>1. CASE k.snd_buf = <<>>
    BY <1>1, <2>1
  <2>2. CASE k.snd_buf # <<>>
    <3>1. Head(k.snd_buf) \in Buffered(B)
      BY <1>1, <2>2, HeadTailProperties, Zenon
    <3>2. Head(k.snd_buf).sn \in Nat
      BY <3>1 DEF Buffered
    <3> QED
      BY <2>2, <3>2
  <2> QED
    BY <2>1, <2>2
<1>3. ShrinkBuf(k) = [k EXCEPT !.snd_una = u]
  BY DEF ShrinkBuf
<1> HIDE DEF u
<1> QED
  BY <1>2, <1>3 DEF Blocks, SameSender, SameReceiver

(* ikcp_parse_una takes segments before una, all of which the other end has    *)
(* when it has everything before una.                                          *)
LEMMA UnaTrims ==
  ASSUME NEW B, NEW k \in Blocks(B), NEW p \in Blocks(B), NEW una \in Nat, una <= p.rcv_nxt
  PROVE  /\ ParseUna(k, una) \in Blocks(B) /\ SameReceiver(k, ParseUna(k, una))
         /\ Trimmed(k, ParseUna(k, una), p)
<1> DEFINE b == k.snd_buf
           S == {i \in 0 .. Len(b) : \A j \in 1 .. i : b[j].sn < una}
           n == Max(S)
           c == SubSeq(b, n + 1, Len(b))
           l == ParseUna(k, una)
<1>1. b \in Seq(Buffered(B)) /\ p.rcv_nxt \in Nat
  BY DEF Blocks
<1>2. Len(b) \in Nat
  BY <1>1, LenProperties
<1>3. 0 \in S /\ S \in SUBSET (0..Len(b))
  BY <1>2
<1>4. n \in S
  <2> HIDE DEF S
  <2> QED
    BY <1>2, <1>3, MaxFacts
<1>5. n \in 0..Len(b) /\ n \in Nat /\ \A j \in 1..n : b[j].sn < una
  BY <1>2, <1>4
<1>6. l = [k EXCEPT !.snd_buf = c]
  BY DEF ParseUna
<1> HIDE DEF S, n, l
<1>7. /\ c \in Seq(Buffered(B)) /\ Len(c) = Len(b) - n
      /\ \A i \in 1..(Len(b) - n) : c[i] = b[n + i]
  BY <1>1, <1>5, SplitFacts, Zenon
<1> HIDE DEF c
<1>8. /\ l \in Blocks(B) /\ SameReceiver(k, l) /\ l.snd_buf = c
      /\ l.snd_nxt = k.snd_nxt /\ l.snd_queue = k.snd_queue
  BY <1>6, <1>7 DEF Blocks, SameReceiver
<1>9. ASSUME NEW i \in 1..Len(c)
      PROVE  \E j \in 1..Len(b) :
               c[i].sn = b[j].sn /\ c[i].frg = b[j].frg /\ c[i].data = b[j].data
  <2>1. i \in 1..(Len(b) - n) /\ n + i \in 1..Len(b)
    BY <1>2, <1>5, <1>7
  <2>2. c[i] = b[n + i]
    BY <1>7, <2>1
  <2> QED
    BY <2>1, <2>2
<1>10. ASSUME NEW j \in 1..Len(b)
       PROVE  (\E i \in 1..Len(c) : c[i].sn = b[j].sn) \/ Holds(p, b[j].sn)
  <2>1. CASE j <= n
    <3>1. j \in 1..n /\ b[j] \in Buffered(B)
      BY <1>1, <1>2, <1>5, <2>1, ElementOfSeq
    <3>2. b[j].sn < una /\ b[j].sn \in Nat
      BY <1>5, <3>1 DEF Buffered
    <3>3. b[j].sn < p.rcv_nxt
      BY <1>1, <3>2
    <3> QED
      BY <3>3 DEF Holds
  <2>2. CASE ~(j <= n)
    <3>1. j - n \in 1..(Len(b) - n) /\ j - n \in 1..Len(c) /\ n + (j - n) = j
      BY <1>2, <1>5, <1>7, <2>2
    <3>2. c[j - n] = b[j]
      BY <1>7, <3>1
    <3> QED
      BY <3>1, <3>2
  <2> QED
    BY <2>1, <2>2
<1>11. Trimmed(k, l, p)
  BY <1>8, <1>9, <1>10 DEF Trimmed, InSndBuf
<1> QED
  BY <1>8, <1>11 DEF l

(* ikcp_parse_ack takes the segment sn, which the other end has. *)
LEMMA AckTrims ==
  ASSUME NEW B, NEW k \in Blocks(B), NEW p, NEW sn \in Nat, Holds(p, sn)
  PROVE  /\ ParseAck(k, sn) \in Blocks(B) /\ SameReceiver(k, ParseAck(k, sn))
         /\ Trimmed(k, ParseAck(k, sn), p)
<1> DEFINE b == k.snd_buf
           S == {i \in DOMAIN b : b[i].sn >= sn}
           n == Min(S)
           c == RemoveAt(b, n)
           l == ParseAck(k, sn)
<1>1. CASE l = k
  <2>1. SameSender(k, l) /\ SameReceiver(k, l)
    BY <1>1 DEF SameSender, SameReceiver
  <2> QED
    BY <1>1, <2>1, TrimmedSame
<1>2. CASE l # k
  <2>1. b \in Seq(Buffered(B))
    BY DEF Blocks
  <2>2. DOMAIN b = 1..Len(b) /\ Len(b) \in Nat
    BY <2>1, LenProperties
  <2>3. S # {} /\ b[n].sn = sn /\ l = [k EXCEPT !.snd_buf = c]
    BY <1>2 DEF ParseAck
  <2>4. S \in SUBSET Nat
    BY <2>2
  <2>5. n \in S
    <3> HIDE DEF S
    <3> QED
      BY <2>3, <2>4, MinFacts
  <2>6. n \in 1..Len(b)
    BY <2>2, <2>5
  <2> HIDE DEF S, n, l
  <2>7. /\ c \in Seq(Buffered(B)) /\ Len(c) = Len(b) - 1
        /\ \A j \in 1..(Len(b) - 1) : c[j] = IF j < n THEN b[j] ELSE b[j + 1]
    <3> DEFINE X == Buffered(B)
    <3>1. b \in Seq(X)
      BY <2>1
    <3> HIDE DEF X, b
    <3> QED
      BY <2>6, <3>1, RemoveFacts DEF X
  <2> HIDE DEF c
  <2>8. /\ l \in Blocks(B) /\ SameReceiver(k, l) /\ l.snd_buf = c
        /\ l.snd_nxt = k.snd_nxt /\ l.snd_queue = k.snd_queue
    BY <2>3, <2>7 DEF Blocks, SameReceiver
  <2>9. ASSUME NEW i \in 1..Len(c)
        PROVE  \E j \in 1..Len(b) :
                 c[i].sn = b[j].sn /\ c[i].frg = b[j].frg /\ c[i].data = b[j].data
    <3>1. i \in 1..(Len(b) - 1) /\ i \in 1..Len(b) /\ i + 1 \in 1..Len(b)
      BY <2>2, <2>6, <2>7
    <3>2. c[i] = b[i] \/ c[i] = b[i + 1]
      BY <2>7, <3>1
    <3> QED
      BY <3>1, <3>2
  <2>10. ASSUME NEW j \in 1..Len(b)
         PROVE  (\E i \in 1..Len(c) : c[i].sn = b[j].sn) \/ Holds(p, b[j].sn)
    <3>1. CASE j < n
      <4>1. j \in 1..(Len(b) - 1) /\ j \in 1..Len(c)
        BY <2>2, <2>6, <2>7, <3>1
      <4>2. c[j] = b[j]
        BY <2>7, <3>1, <4>1
      <4> QED
        BY <4>1, <4>2
    <3>2. CASE j = n
      BY <2>3, <3>2
    <3>3. CASE j > n
      <4>1. /\ j - 1 \in 1..(Len(b) - 1) /\ j - 1 \in 1..Len(c) /\ ~(j - 1 < n)
            /\ (j - 1) + 1 = j
        BY <2>2, <2>6, <2>7, <3>3
      <4>2. c[j - 1] = b[j]
        BY <2>7, <4>1
      <4> QED
        BY <4>1, <4>2
    <3>4. j < n \/ j = n \/ j > n
      BY <2>2, <2>6
    <3> QED
      BY <3>1, <3>2, <3>3, <3>4
  <2>11. Trimmed(k, l, p)
    BY <2>8, <2>9, <2>10 DEF Trimmed, InSndBuf
  <2> QED
    BY <2>8, <2>11 DEF l
<1> QED
  BY <1>1, <1>2

(* ikcp_parse_fastack only counts. *)
LEMMA FastackTrims ==
  ASSUME NEW B, NEW k \in Blocks(B), NEW p, NEW sn
  PROVE  /\ ParseFastack(k, sn) \in Blocks(B) /\ SameReceiver(k, ParseFastack(k, sn))
         /\ Trimmed(k, ParseFastack(k, sn), p)
<1> DEFINE b == k.snd_buf
           c == [i \in DOMAIN b |-> IF b[i].sn < sn THEN PassedOver(b[i]) ELSE b[i]]
           l == ParseFastack(k, sn)
<1>1. CASE sn < k.snd_una \/ sn >= k.snd_nxt
  <2>1. l = k
    BY <1>1 DEF ParseFastack
  <2>2. SameSender(k, l) /\ SameReceiver(k, l)
    BY <2>1 DEF SameSender, SameReceiver
  <2> QED
    BY <2>1, <2>2, TrimmedSame
<1>2. CASE ~(sn < k.snd_una \/ sn >= k.snd_nxt)
  <2>1. b \in Seq(Buffered(B))
    BY DEF Blocks
  <2>2. DOMAIN b = 1..Len(b) /\ Len(b) \in Nat
    BY <2>1, LenProperties
  <2>3. l = [k EXCEPT !.snd_buf = c]
    BY <1>2 DEF ParseFastack
  <2>4. ASSUME NEW i \in 1..Len(b)
        PROVE  /\ c[i] \in Buffered(B)
               /\ c[i].sn = b[i].sn /\ c[i].frg = b[i].frg /\ c[i].data = b[i].data
    <3>1. b[i] \in Buffered(B)
      BY <2>1, ElementOfSeq, Zenon
    <3>2. c[i] = IF b[i].sn < sn
                   THEN [b[i] EXCEPT !.fastack = Min({b[i].fastack + 1, FastResend})]
                   ELSE b[i]
      BY <2>2 DEF PassedOver
    <3>3. Min({b[i].fastack + 1, FastResend}) \in Nat
      <4>1. b[i].fastack + 1 \in Nat /\ FastResend \in Nat
        BY <3>1, Sizes DEF Buffered
      <4>2. b[i].fastack + 1 \in Int /\ FastResend \in Int
        BY <4>1
      <4> QED
        BY <4>1, <4>2, TwoFacts
    <3> HIDE DEF b, c
    <3> QED
      BY <3>1, <3>2, <3>3 DEF Buffered
  <2>5. c \in Seq(Buffered(B)) /\ Len(c) = Len(b)
    <3>1. c \in [1..Len(b) -> Buffered(B)]
      <4>1. c = [i \in 1..Len(b) |-> c[i]]
        BY <2>2
      <4> HIDE DEF c
      <4> QED
        BY <2>4, <4>1
    <3> HIDE DEF c
    <3> QED
      BY <2>2, <3>1, FunSeq
  <2> HIDE DEF c, l
  <2>6. /\ l \in Blocks(B) /\ SameReceiver(k, l) /\ l.snd_buf = c
        /\ l.snd_nxt = k.snd_nxt /\ l.snd_queue = k.snd_queue
    BY <2>3, <2>5 DEF Blocks, SameReceiver
  <2>7. Trimmed(k, l, p)
    BY <2>4, <2>5, <2>6 DEF Trimmed, InSndBuf
  <2> QED
    BY <2>6, <2>7 DEF l
<1> QED
  BY <1>1, <1>2

-----------------------------------------------------------------------------
(* ikcp_input *)

(* What input from p makes of k: the sending half trimmed, the receiving half  *)
(* in order and grown.                                                         *)
Fed(k, l, p, all, w, nxt, M, R, B) ==
  /\ l \in Blocks(B) /\ Trimmed(k, l, p)
  /\ ReceiverOK(l, all, w, nxt, M, R) /\ AcklistOK(l) /\ Grows(k, l)

(* An untouched receiving half is still in order. *)
LEMMA GrowsSame ==
  ASSUME NEW B, NEW k \in Blocks(B), NEW l, SameReceiver(k, l)
  PROVE  /\ Grows(k, l) /\ (AcklistOK(k) => AcklistOK(l))
         /\ \A all, w, nxt, M, R :
              ReceiverOK(k, all, w, nxt, M, R) => ReceiverOK(l, all, w, nxt, M, R)
<1>1. /\ l.rcv_nxt = k.rcv_nxt /\ l.rcv_buf = k.rcv_buf /\ l.rcv_queue = k.rcv_queue
      /\ l.acklist = k.acklist /\ k.rcv_nxt \in Nat
  BY DEF SameReceiver, Blocks
<1>2. Grows(k, l)
  BY <1>1 DEF Grows, Holds
<1>3. AcklistOK(k) => AcklistOK(l)
  BY <1>1 DEF AcklistOK, Holds
<1>4. ASSUME NEW all, NEW w, NEW nxt, NEW M, NEW R, ReceiverOK(k, all, w, nxt, M, R)
      PROVE  ReceiverOK(l, all, w, nxt, M, R)
  BY <1>1, <1>4 DEF ReceiverOK
<1> QED
  BY <1>2, <1>3, <1>4

(* What a receiver holds grows over several inputs. *)
LEMMA GrowsTwice ==
  ASSUME NEW B, NEW k \in Blocks(B), NEW l \in Blocks(B), NEW m \in Blocks(B),
         Grows(k, l), Grows(l, m)
  PROVE  Grows(k, m)
<1>1. k.rcv_nxt \in Nat /\ l.rcv_nxt \in Nat /\ m.rcv_nxt \in Nat
  BY DEF Blocks
<1>2. k.rcv_nxt <= m.rcv_nxt
  BY <1>1 DEF Grows
<1> QED
  BY <1>2 DEF Grows

(* One segment of a datagram from p. *)
LEMMA SegmentFeeds ==
  ASSUME NEW B, NEW k \in Blocks(B), NEW p \in Blocks(B),
         NEW all, NEW w, NEW nxt \in Nat, NEW M, NEW R, w[Len(R)] \in Nat,
         ReceiverOK(k, all, w, nxt, M, R), AcklistOK(k),
         NEW s \in Segments(B), AckOK(s, p), PushOK(s, all, nxt)
  PROVE  Fed(k, InputSegment(k, s), p, all, w, nxt, M, R, B)
<1> DEFINE k0 == [k EXCEPT !.rmt_wnd = s.wnd]
           u == ParseUna(k0, s.una)
           k1 == ShrinkBuf(u)
           l == InputSegment(k, s)
<1>1. /\ s.wnd \in Nat /\ s.una \in Nat /\ s.sn \in Nat
      /\ s.cmd \in {"ACK", "PUSH", "WASK", "WINS"}
  BY DEF Segments
<1>2. k0 \in Blocks(B) /\ SameSender(k, k0) /\ SameReceiver(k, k0)
  BY <1>1 DEF Blocks, SameSender, SameReceiver
<1>3. s.una <= p.rcv_nxt
  BY DEF AckOK
<1> HIDE DEF k0
<1>4. u \in Blocks(B) /\ SameReceiver(k0, u) /\ Trimmed(k0, u, p)
  BY <1>1, <1>2, <1>3, UnaTrims
<1> HIDE DEF u
<1>5. k1 \in Blocks(B) /\ SameSender(u, k1) /\ SameReceiver(u, k1)
  BY <1>4, ShrinkBlock
<1>6. /\ s.cmd = "ACK"  => l = ShrinkBuf(ParseAck(k1, s.sn))
      /\ s.cmd = "PUSH" => l = InputPush(k1, s)
      /\ s.cmd = "WASK" => l = [k1 EXCEPT !.probe = @ \cup {"TELL"}]
      /\ s.cmd = "WINS" => l = k1
  BY DEF InputSegment, u, k0
<1> HIDE DEF k1, l
<1>7. SameReceiver(k, k1)
  BY <1>2, <1>4, <1>5 DEF SameReceiver
<1>8. Trimmed(k, k1, p)
  <2>1. Trimmed(k, k0, p) /\ Trimmed(u, k1, p)
    BY <1>2, <1>5, TrimmedSame
  <2> QED
    BY <1>4, <2>1, TrimmedTwice
<1>9. ReceiverOK(k1, all, w, nxt, M, R) /\ AcklistOK(k1) /\ Grows(k, k1)
  BY <1>7, GrowsSame
<1>10. CASE s.cmd = "ACK"
  <2> DEFINE a == ParseAck(k1, s.sn)
  <2>1. Holds(p, s.sn)
    BY <1>10 DEF AckOK
  <2>2. a \in Blocks(B) /\ SameReceiver(k1, a) /\ Trimmed(k1, a, p)
    BY <1>1, <1>5, <2>1, AckTrims
  <2> HIDE DEF a
  <2>3. l = ShrinkBuf(a)
    BY <1>6, <1>10 DEF a
  <2>4. l \in Blocks(B) /\ SameSender(a, l) /\ SameReceiver(a, l)
    BY <2>2, <2>3, ShrinkBlock
  <2>5. Trimmed(a, l, p)
    BY <2>4, TrimmedSame
  <2>6. Trimmed(k, l, p)
    BY <1>8, <2>2, <2>5, TrimmedTwice
  <2>7. SameReceiver(k, l)
    BY <1>7, <2>2, <2>4 DEF SameReceiver
  <2>8. ReceiverOK(l, all, w, nxt, M, R) /\ AcklistOK(l) /\ Grows(k, l)
    BY <2>7, GrowsSame
  <2> QED
    BY <2>4, <2>6, <2>8 DEF Fed, l
<1>11. CASE s.cmd = "PUSH"
  <2>1. Carries(s, all, nxt)
    BY <1>11 DEF PushOK
  <2>2. l = InputPush(k1, s)
    BY <1>6, <1>11
  <2>3. /\ l \in Blocks(B) /\ SameSender(k1, l)
        /\ ReceiverOK(l, all, w, nxt, M, R) /\ AcklistOK(l) /\ Grows(k1, l)
    BY <1>5, <1>9, <2>1, <2>2, PushKeeps
  <2>4. Trimmed(k1, l, p)
    BY <2>3, TrimmedSame
  <2>5. Trimmed(k, l, p)
    BY <1>8, <2>4, TrimmedTwice
  <2>6. Grows(k, l)
    BY <1>5, <1>9, <2>3, GrowsTwice
  <2> QED
    BY <2>3, <2>5, <2>6 DEF Fed, l
<1>12. CASE s.cmd = "WASK" \/ s.cmd = "WINS"
  <2>1. l \in Blocks(B) /\ SameSender(k1, l) /\ SameReceiver(k1, l)
    <3>1. CASE s.cmd = "WASK"
      <4>1. l = [k1 EXCEPT !.probe = @ \cup {"TELL"}]
        BY <1>6, <3>1
      <4> QED
        BY <1>5, <4>1 DEF Blocks, SameSender, SameReceiver
    <3>2. CASE s.cmd = "WINS"
      <4>1. l = k1
        BY <1>6, <3>2
      <4> QED
        BY <1>5, <4>1 DEF SameSender, SameReceiver
    <3> QED
      BY <1>12, <3>1, <3>2
  <2>2. Trimmed(k1, l, p)
    BY <2>1, TrimmedSame
  <2>3. Trimmed(k, l, p)
    BY <1>8, <2>2, TrimmedTwice
  <2>4. SameReceiver(k, l)
    BY <1>7, <2>1 DEF SameReceiver
  <2>5. ReceiverOK(l, all, w, nxt, M, R) /\ AcklistOK(l) /\ Grows(k, l)
    BY <2>4, GrowsSame
  <2> QED
    BY <2>1, <2>3, <2>5 DEF Fed, l
<1> QED
  BY <1>1, <1>10, <1>11, <1>12

(* How far ikcp_input has come after each segment. *)
Inputting(k, d, f) ==
  f = [i \in 0..Len(d) |-> IF i = 0 THEN k ELSE InputSegment(f[i - 1], d[i])]

(* ikcp_input: whatever k was fed, it was fed with segments p and the stream   *)
(* vouch for.                                                                  *)
LEMMA InputFeeds ==
  ASSUME NEW B, NEW k \in Blocks(B), NEW p \in Blocks(B),
         NEW all, NEW w, NEW nxt \in Nat, NEW M, NEW R, w[Len(R)] \in Nat,
         ReceiverOK(k, all, w, nxt, M, R), AcklistOK(k),
         NEW d \in Seq(Segments(B)),
         \A i \in 1..Len(d) : AckOK(d[i], p) /\ PushOK(d[i], all, nxt)
  PROVE  Fed(k, IkcpInput(k, d), p, all, w, nxt, M, R, B)
<1> DEFINE n == Len(d)
           S == {l \in Blocks(B) : Fed(k, l, p, all, w, nxt, M, R, B)}
           g == [i \in Nat |-> [x \in S |-> IF i \in 1..n THEN InputSegment(x, d[i]) ELSE x]]
           j == CHOOSE f : Inputting(k, d, f)
           acks == {d[i].sn : i \in {h \in DOMAIN d : d[h].cmd = "ACK"}}
<1>1. n \in Nat /\ \A i \in 1..n : d[i] \in Segments(B)
  BY LenProperties, ElementOfSeq, Zenon
<1>2. k \in S
  <2>1. SameSender(k, k) /\ SameReceiver(k, k)
    BY DEF SameSender, SameReceiver
  <2>2. Trimmed(k, k, p) /\ Grows(k, k)
    BY <2>1, TrimmedSame, GrowsSame
  <2> QED
    BY <2>2 DEF Fed
<1>3. ASSUME NEW x \in S, NEW i \in 1..n
      PROVE  InputSegment(x, d[i]) \in S
  <2> DEFINE y == InputSegment(x, d[i])
  <2>1. /\ x \in Blocks(B) /\ Trimmed(k, x, p)
        /\ ReceiverOK(x, all, w, nxt, M, R) /\ AcklistOK(x) /\ Grows(k, x)
    BY DEF Fed
  <2>2. d[i] \in Segments(B) /\ AckOK(d[i], p) /\ PushOK(d[i], all, nxt)
    BY <1>1
  <2>3. Fed(x, y, p, all, w, nxt, M, R, B)
    BY <2>1, <2>2, SegmentFeeds
  <2> HIDE DEF y
  <2>4. /\ y \in Blocks(B) /\ Trimmed(x, y, p)
        /\ ReceiverOK(y, all, w, nxt, M, R) /\ AcklistOK(y) /\ Grows(x, y)
    BY <2>3 DEF Fed
  <2>5. Trimmed(k, y, p)
    BY <2>1, <2>4, TrimmedTwice
  <2>6. Grows(k, y)
    BY <2>1, <2>4, GrowsTwice
  <2>7. Fed(k, y, p, all, w, nxt, M, R, B)
    BY <2>4, <2>5, <2>6 DEF Fed
  <2> QED
    BY <2>4, <2>7 DEF y
<1> HIDE DEF S, n
<1>4. g \in [Nat -> [S -> S]]
  <2>1. ASSUME NEW i \in Nat, NEW x \in S
        PROVE (IF i \in 1..n THEN InputSegment(x, d[i]) ELSE x) \in S
    BY <1>3
  <2> QED
    BY <2>1
<1> HIDE DEF g
<1>5. PICK f : Repeats(f, S, k, n, g)
  BY <1>1, <1>2, <1>4, Recursion
<1>6. Inputting(k, d, f)
  <2>1. f \in [0..n -> S] /\ f[0] = k /\ \A i \in 1..n : f[i] = g[i][f[i - 1]]
    BY <1>5 DEF Repeats
  <2>2. ASSUME NEW i \in 0..n
        PROVE  f[i] = IF i = 0 THEN k ELSE InputSegment(f[i - 1], d[i])
    <3>1. CASE i = 0
      BY <2>1, <3>1
    <3>2. CASE i # 0
      <4>1. i \in 1..n /\ i \in Nat /\ i - 1 \in 0..n
        BY <1>1, <3>2
      <4>2. f[i - 1] \in S
        BY <2>1, <4>1
      <4>3. f[i] = g[i][f[i - 1]]
        BY <2>1, <4>1
      <4>4. g[i][f[i - 1]] = InputSegment(f[i - 1], d[i])
        BY <4>1, <4>2 DEF g
      <4> QED
        BY <3>2, <4>3, <4>4
    <3> QED
      BY <3>1, <3>2
  <2>3. f = [i \in 0..n |-> f[i]]
    BY <2>1
  <2> QED
    BY <2>2, <2>3 DEF Inputting, n
<1>7. Inputting(k, d, j)
  BY <1>6
<1> HIDE DEF j
<1>8. /\ j[0] = k
      /\ \A i \in 1..n : j[i] = InputSegment(j[i - 1], d[i])
  <2>1. j = [i \in 0..n |-> IF i = 0 THEN k ELSE InputSegment(j[i - 1], d[i])]
    BY <1>7 DEF Inputting, n
  <2>2. 0 \in 0..n /\ \A i \in 1..n : i \in 0..n /\ i # 0
    BY <1>1
  <2> QED
    BY <2>1, <2>2
<1> DEFINE T == {i \in Nat : i \in 0..n => j[i] \in S}
<1>9. 0 \in T
  BY <1>2, <1>8
<1>10. ASSUME NEW i \in T PROVE i + 1 \in T
  <2> SUFFICES ASSUME i + 1 \in 0..n PROVE j[i + 1] \in S
    OBVIOUS
  <2>1. i \in Nat /\ i \in 0..n /\ i + 1 \in 1..n /\ (i + 1) - 1 = i
    BY <1>1
  <2>2. j[i + 1] = InputSegment(j[i], d[i + 1])
    BY <1>8, <2>1
  <2>3. j[i] \in S
    BY <2>1
  <2> QED
    BY <1>3, <2>1, <2>2, <2>3
<1>11. T \in SUBSET Nat
  OBVIOUS
<1> HIDE DEF T
<1>12. T = Nat
  BY <1>9, <1>10, <1>11, Induction
<1>13. j[n] \in S
  BY <1>1, <1>12 DEF T
<1>14. IkcpInput(k, d) = IF acks = {} THEN j[n] ELSE ParseFastack(j[n], Max(acks))
  BY DEF IkcpInput, Inputting, j, n
<1> DEFINE m == j[n]
           l == ParseFastack(m, Max(acks))
<1>15. Fed(k, m, p, all, w, nxt, M, R, B) /\ m \in Blocks(B)
  BY <1>13 DEF S
<1>16. CASE acks = {}
  BY <1>14, <1>15, <1>16
<1>17. CASE acks # {}
  <2> HIDE DEF m, acks
  <2>1. /\ Trimmed(k, m, p)
        /\ ReceiverOK(m, all, w, nxt, M, R) /\ AcklistOK(m) /\ Grows(k, m)
    BY <1>15 DEF Fed
  <2>2. l \in Blocks(B) /\ SameReceiver(m, l) /\ Trimmed(m, l, p)
    BY <1>15, FastackTrims
  <2>3. IkcpInput(k, d) = l
    BY <1>14, <1>17 DEF m
  <2> HIDE DEF l
  <2>4. Trimmed(k, l, p)
    BY <2>1, <2>2, TrimmedTwice
  <2>5. ReceiverOK(l, all, w, nxt, M, R) /\ AcklistOK(l) /\ Grows(m, l)
    BY <1>15, <2>1, <2>2, GrowsSame
  <2>6. Grows(k, l)
    BY <1>15, <2>1, <2>2, <2>5, GrowsTwice
  <2> QED
    BY <2>2, <2>3, <2>4, <2>5, <2>6 DEF Fed
<1> QED
  BY <1>16, <1>17

-----------------------------------------------------------------------------
(* ikcp_recv *)

(* The message at the head of rcv_queue is the one that follows R. *)
PeekedAt(k, w, M, R, B) ==
  /\ Len(R) + 1 \in 1..Len(M) /\ M[Len(R) + 1] \in Seq(B)
  /\ PeekCount(k) = FragmentCount(M[Len(R) + 1])
  /\ PeekCount(k) \in 1..Len(k.rcv_queue)
  /\ w[Len(R)] \in Nat /\ w[Len(R) + 1] = w[Len(R)] + PeekCount(k)
  /\ Received(k) = M[Len(R) + 1]

(* A complete message at the head of rcv_queue is the next one of the stream,  *)
(* and ikcp_peeksize counts its fragments.                                     *)
LEMMA PeekFacts ==
  ASSUME NEW B, NEW k \in Blocks(B), NEW all, NEW w, NEW M, NEW R \in Seq(Seq(B)),
         NEW nxt \in Nat, Stream(all, w, M, B), nxt <= Len(all),
         ReceiverOK(k, all, w, nxt, M, R), PeekCount(k) > 0
  PROVE  PeekedAt(k, w, M, R, B)
<1> DEFINE r == Len(R)
           q == k.rcv_queue
           msg == M[r + 1]
           c == FragmentCount(msg)
           last == {i \in DOMAIN q : q[i].frg = 0}
<1>1. /\ M \in Seq(Seq(B)) /\ all \in Seq(Fragment(B)) /\ w \in [0..Len(M) -> Nat]
      /\ w[Len(M)] = Len(all) /\ q \in Seq(Stored(B)) /\ k.rcv_nxt \in Nat
  BY DEF Stream, Blocks
<1>2. r \in Nat /\ Len(M) \in Nat /\ Len(q) \in Nat /\ DOMAIN q = 1..Len(q) /\ Len(all) \in Nat
  BY <1>1, LenProperties
<1>3. r <= Len(M) /\ k.rcv_nxt = w[r] + Len(q) /\ k.rcv_nxt <= nxt
  BY DEF ReceiverOK
<1>4. q # <<>> /\ ~(Head(q).frg > 0 /\ Len(q) < Head(q).frg + 1)
  <2>1. ~(0 > 0)
    OBVIOUS
  <2> QED
    BY <2>1 DEF PeekCount
<1>5. PeekCount(k) = IF last = {} THEN Len(q) ELSE Min(last)
  BY <1>4 DEF PeekCount
<1>6. Len(q) > 0 /\ Head(q) = q[1]
  BY <1>1, <1>2, <1>4, EmptySeq, HeadTailProperties
<1>7. w[r] \in Nat
  BY <1>1, <1>2, <1>3
<1>8. r # Len(M)
  <2> SUFFICES ASSUME r = Len(M) PROVE FALSE
    OBVIOUS
  <2>1. w[r] = Len(all)
    BY <1>1
  <2> QED
    BY <1>2, <1>3, <1>6, <2>1
<1>9. r + 1 \in 1..Len(M) /\ (r + 1) - 1 = r
  BY <1>2, <1>3, <1>8
<1>10. msg \in Seq(B)
  BY <1>1, <1>9, ElementOfSeq, Zenon
<1>11. w[r + 1] = w[r] + c /\ \A j \in 1..c : all[w[r] + j] = Fragments(msg)[j]
  BY <1>9 DEF Stream
<1>12. c \in Nat /\ c > 0 /\ \A j \in 1..c : Fragments(msg)[j].frg = c - j
  BY <1>10, CountFacts, FragmentFacts
<1>13. \A i \in 1..Len(q) : q[i].frg = all[w[r] + i].frg /\ q[i].data = all[w[r] + i].data
  BY DEF ReceiverOK
<1> HIDE DEF q, r, msg, c, last
<1>14. \A i \in 1..Len(q) : i \in 1..c =>
         q[i].frg = c - i /\ q[i].data = Fragments(msg)[i].data
  <2> TAKE i \in 1..Len(q)
  <2> HAVE i \in 1..c
  <2>1. all[w[r] + i] = Fragments(msg)[i] /\ Fragments(msg)[i].frg = c - i
    BY <1>11, <1>12
  <2> QED
    BY <1>13, <2>1
<1>15. c <= Len(q)
  <2>1. 1 \in 1..Len(q) /\ 1 \in 1..c
    BY <1>2, <1>6, <1>12
  <2>2. Head(q).frg = c - 1
    BY <1>6, <1>14, <2>1
  <2>3. ~(c - 1 > 0 /\ Len(q) < (c - 1) + 1)
    BY <1>4, <2>2
  <2> QED
    BY <1>2, <1>6, <1>12, <2>3
<1>16. Min(last) = c /\ last # {}
  <2>1. c \in 1..Len(q) /\ c \in 1..c
    BY <1>2, <1>12, <1>15
  <2>2. q[c].frg = c - c
    BY <1>14, <2>1
  <2>3. c \in last
    <3>1. c - c = 0
      BY <1>12
    <3> QED
      BY <1>2, <2>1, <2>2, <3>1 DEF last
  <2>4. last \in SUBSET Nat
    BY <1>2 DEF last
  <2>5. Min(last) \in last /\ Min(last) <= c
    BY <2>3, <2>4, MinFacts
  <2>6. Min(last) \in 1..Len(q) /\ q[Min(last)].frg = 0
    BY <1>2, <2>5 DEF last
  <2>7. Min(last) \in 1..c
    BY <1>2, <1>12, <2>5, <2>6
  <2>8. c - Min(last) = 0
    BY <1>14, <2>6, <2>7
  <2> QED
    BY <1>12, <2>3, <2>7, <2>8
<1>17. PeekCount(k) = c
  BY <1>5, <1>16
<1>18. Received(k) = BytesOf(q, c)
  BY <1>17 DEF Received, q
<1>19. \A i \in 1..c : q[i].data = Fragments(msg)[i].data
  <2> TAKE i \in 1..c
  <2>1. i \in 1..Len(q)
    BY <1>2, <1>12, <1>15
  <2> QED
    BY <1>14, <2>1
<1>20. BytesOf(q, c) = msg
  BY <1>10, <1>19, FragmentsJoin DEF c
<1>21. c \in 1..Len(q)
  BY <1>2, <1>12, <1>15
<1> QED
  BY <1>7, <1>9, <1>10, <1>11, <1>17, <1>18, <1>20, <1>21 DEF PeekedAt, q, r, msg, c

(* ikcp_recv returns the next message and keeps the rest in order. *)
LEMMA RecvKeeps ==
  ASSUME NEW B, NEW k \in Blocks(B), NEW all, NEW w, NEW M, NEW R \in Seq(Seq(B)),
         NEW nxt \in Nat, Stream(all, w, M, B), nxt <= Len(all),
         ReceiverOK(k, all, w, nxt, M, R), PeekCount(k) > 0, AcklistOK(k)
  PROVE  /\ IkcpRecv(k) \in Blocks(B) /\ SameSender(k, IkcpRecv(k))
         /\ Append(R, Received(k)) \in Seq(Seq(B))
         /\ ReceiverOK(IkcpRecv(k), all, w, nxt, M, Append(R, Received(k)))
         /\ AcklistOK(IkcpRecv(k)) /\ Grows(k, IkcpRecv(k))
<1> DEFINE r == Len(R)
           q == k.rcv_queue
           c == PeekCount(k)
           rest == SubSeq(q, c + 1, Len(q))
           k0 == [k EXCEPT !.rcv_queue = rest]
           taken == MoveAvailable(k0)
           l == IkcpRecv(k)
           N == Append(R, Received(k))
<1>0. PeekedAt(k, w, M, R, B)
  BY PeekFacts
<1>1. /\ r + 1 \in 1..Len(M) /\ M[r + 1] \in Seq(B) /\ c \in 1..Len(q)
      /\ w[r] \in Nat /\ w[r + 1] = w[r] + c /\ Received(k) = M[r + 1]
  BY <1>0 DEF PeekedAt
<1>2. q \in Seq(Stored(B)) /\ M \in Seq(Seq(B)) /\ k.rcv_nxt \in Nat
  BY DEF Blocks, Stream
<1>3. Len(q) \in Nat /\ r \in Nat /\ Len(M) \in Nat
  BY <1>2, LenProperties
<1>4. /\ N \in Seq(Seq(B)) /\ Len(N) = r + 1 /\ N[r + 1] = M[r + 1]
      /\ \A i \in 1..r : N[i] = R[i]
  BY <1>1, AppendProperties
<1>5. c \in 0..Len(q) /\ c \in Nat
  BY <1>1, <1>3
<1>6. /\ k.rcv_nxt <= nxt
      /\ \A i \in 1..Len(k.rcv_buf) : Carries(k.rcv_buf[i], all, nxt)
      /\ \A i \in 1..r : R[i] = M[i]
      /\ k.rcv_nxt = w[r] + Len(q)
      /\ \A i \in 1..Len(q) :
           q[i].frg = all[w[r] + i].frg /\ q[i].data = all[w[r] + i].data
  BY DEF ReceiverOK
<1> HIDE DEF q, r, c, N
<1>7. /\ rest \in Seq(Stored(B)) /\ Len(rest) = Len(q) - c
      /\ \A i \in 1..(Len(q) - c) : rest[i] = q[c + i]
  BY <1>2, <1>5, SplitFacts, Zenon
<1> HIDE DEF rest
<1>8. /\ k0 \in Blocks(B) /\ SameSender(k, k0) /\ k0.rcv_queue = rest
      /\ k0.rcv_nxt = k.rcv_nxt /\ k0.rcv_buf = k.rcv_buf /\ k0.acklist = k.acklist
  BY <1>7 DEF Blocks, SameSender
<1> HIDE DEF k0
<1>9. ReceiverOK(k0, all, w, nxt, M, N)
  <2>1. k0.rcv_nxt <= nxt /\ \A i \in 1..Len(k0.rcv_buf) : Carries(k0.rcv_buf[i], all, nxt)
    BY <1>6, <1>8
  <2>2. Len(N) <= Len(M)
    BY <1>1, <1>3, <1>4
  <2>3. ASSUME NEW i \in 1..Len(N) PROVE N[i] = M[i]
    <3>1. CASE i = r + 1
      BY <1>4, <3>1
    <3>2. CASE i # r + 1
      <4>1. i \in 1..r
        BY <1>3, <1>4, <3>2
      <4> QED
        BY <1>4, <1>6, <4>1
    <3> QED
      BY <3>1, <3>2
  <2>4. w[Len(N)] = w[r] + c
    BY <1>1, <1>4
  <2>5. k0.rcv_nxt = w[Len(N)] + Len(k0.rcv_queue)
    <3>1. k.rcv_nxt = w[r] + Len(q) /\ w[r] \in Nat
      BY <1>1, <1>6
    <3>2. w[r] + Len(q) = (w[r] + c) + (Len(q) - c)
      BY <1>3, <1>5, <3>1
    <3> QED
      BY <1>7, <1>8, <2>4, <3>1, <3>2
  <2>6. ASSUME NEW i \in 1..Len(k0.rcv_queue)
        PROVE  /\ k0.rcv_queue[i].frg = all[w[Len(N)] + i].frg
               /\ k0.rcv_queue[i].data = all[w[Len(N)] + i].data
    <3>1. i \in 1..(Len(q) - c) /\ c + i \in 1..Len(q)
      BY <1>3, <1>5, <1>7, <1>8
    <3>2. k0.rcv_queue[i] = q[c + i]
      BY <1>7, <1>8, <3>1
    <3>3. w[r] + (c + i) = w[Len(N)] + i
      BY <1>1, <1>5, <2>4, <3>1
    <3> QED
      BY <1>6, <3>1, <3>2, <3>3
  <2> QED
    BY <2>1, <2>2, <2>3, <2>5, <2>6 DEF ReceiverOK
<1>10. w[Len(N)] \in Nat
  BY <1>1, <1>4, <1>5
<1>11. taken \in Blocks(B) /\ SameSender(k0, taken) /\ taken.acklist = k0.acklist
  BY <1>8, MoveBlock
<1>12. ReceiverOK(taken, all, w, nxt, M, N) /\ Grows(k0, taken)
  BY <1>8, <1>9, <1>10, MoveKeeps
<1>13. l = taken \/ l = [taken EXCEPT !.probe = @ \cup {"TELL"}]
  BY DEF IkcpRecv, k0, rest, c, q
<1> HIDE DEF taken, l
<1>14. l \in Blocks(B) /\ SameSender(taken, l) /\ SameReceiver(taken, l)
  BY <1>11, <1>13 DEF Blocks, SameSender, SameReceiver
<1>15. ReceiverOK(l, all, w, nxt, M, N) /\ Grows(taken, l)
  BY <1>11, <1>12, <1>14, GrowsSame
<1>16. Grows(k, k0)
  BY <1>2, <1>8 DEF Grows, Holds
<1>17. Grows(k, l)
  BY <1>8, <1>11, <1>12, <1>14, <1>15, <1>16, GrowsTwice
<1>18. SameSender(k, l)
  BY <1>8, <1>11, <1>14 DEF SameSender
<1>19. AcklistOK(l)
  <2>1. l.acklist = k.acklist
    BY <1>8, <1>11, <1>14 DEF SameReceiver
  <2>2. ASSUME NEW i \in 1..Len(l.acklist) PROVE Holds(l, l.acklist[i])
    <3>1. k.acklist \in Seq(Nat) /\ i \in 1..Len(k.acklist)
      BY <2>1 DEF Blocks
    <3>2. k.acklist[i] \in Nat
      BY <3>1, ElementOfSeq
    <3>3. Holds(k, k.acklist[i])
      BY <3>1 DEF AcklistOK
    <3> QED
      BY <1>17, <2>1, <3>2, <3>3 DEF Grows
  <2> QED
    BY <2>2 DEF AcklistOK
<1> QED
  BY <1>4, <1>14, <1>15, <1>17, <1>18, <1>19 DEF l, N

-----------------------------------------------------------------------------
(* ikcp_flush *)

(* l has numbered what k had numbered, and perhaps more; what k kept in        *)
(* snd_buf, l keeps, and what l numbered, l keeps.                             *)
Numbers(k, l) ==
  /\ k.snd_nxt <= l.snd_nxt
  /\ \A sn \in Nat : sn < l.snd_nxt => \/ InSndBuf(l, sn)
                                       \/ sn < k.snd_nxt /\ ~InSndBuf(k, sn)

(* Probing the window touches neither half. *)
LEMMA ProbeBlock ==
  ASSUME NEW B, NEW k \in Blocks(B), NEW probeDue
  PROVE  /\ ProbeWindow(k, probeDue) \in Blocks(B)
         /\ SameSender(k, ProbeWindow(k, probeDue)) /\ SameReceiver(k, ProbeWindow(k, probeDue))
<1> DEFINE l == ProbeWindow(k, probeDue)
<1>1. CASE k.rmt_wnd = 0
  <2> DEFINE pr == IF k.probing /\ probeDue THEN k.probe \cup {"SEND"} ELSE k.probe
  <2>1. pr \in SUBSET {"SEND", "TELL"}
    BY DEF Blocks
  <2>2. l = [k EXCEPT !.probing = TRUE, !.probe = pr]
    BY <1>1 DEF ProbeWindow
  <2> HIDE DEF pr, l
  <2>3. l \in Blocks(B) /\ SameSender(k, l) /\ SameReceiver(k, l)
    BY <2>1, <2>2 DEF Blocks, SameSender, SameReceiver
  <2> QED
    BY <2>3 DEF l
<1>2. CASE k.rmt_wnd # 0
  <2>1. l = [k EXCEPT !.probing = FALSE]
    BY <1>2 DEF ProbeWindow
  <2> HIDE DEF l
  <2>2. l \in Blocks(B) /\ SameSender(k, l) /\ SameReceiver(k, l)
    BY <2>1 DEF Blocks, SameSender, SameReceiver
  <2> QED
    BY <2>2 DEF l
<1> QED
  BY <1>1, <1>2

(* Segments get their number in the order of the stream. *)
LEMMA MoveNumbers ==
  ASSUME NEW B, NEW k \in Blocks(B), NEW all \in Seq(Fragment(B)), SenderOK(k, all)
  PROVE  /\ MoveToSndBuf(k) \in Blocks(B) /\ SameReceiver(k, MoveToSndBuf(k))
         /\ SenderOK(MoveToSndBuf(k), all) /\ Numbers(k, MoveToSndBuf(k))
<1> DEFINE q == k.snd_queue
           b == k.snd_buf
           x == k.snd_nxt
           room == Max({0, k.snd_una + Min({SndWnd, k.rmt_wnd}) - k.snd_nxt})
           n == Min({room, Len(q)})
           new == [i \in 1 .. n |->
                     [sn |-> x + (i - 1), frg |-> q[i].frg, data |-> q[i].data,
                      fastack |-> 0, xmit |-> 0]]
           rest == SubSeq(q, n + 1, Len(q))
           c == b \o new
           l == MoveToSndBuf(k)
<1>1. /\ q \in Seq(Fragment(B)) /\ b \in Seq(Buffered(B)) /\ x \in Nat
      /\ k.snd_una \in Nat /\ k.rmt_wnd \in Nat
  BY DEF Blocks
<1>2. Len(q) \in Nat /\ Len(b) \in Nat /\ Len(all) \in Nat
  BY <1>1, LenProperties
<1>3. n \in 0..Len(q)
  <2>1. Min({SndWnd, k.rmt_wnd}) \in Int
    <3>1. SndWnd \in Int /\ k.rmt_wnd \in Int
      BY <1>1, Sizes
    <3> QED
      BY <3>1, TwoFacts
  <2>2. k.snd_una + Min({SndWnd, k.rmt_wnd}) - k.snd_nxt \in Int
    BY <1>1, <2>1
  <2>3. room \in Int /\ room >= 0
    <3> DEFINE y == k.snd_una + Min({SndWnd, k.rmt_wnd}) - k.snd_nxt
    <3>1. y \in Int /\ 0 \in Int
      BY <2>2
    <3> HIDE DEF y
    <3>2. Max({0, y}) = IF 0 >= y THEN 0 ELSE y
      BY <3>1, TwoFacts
    <3>3. Max({0, y}) \in Int /\ Max({0, y}) >= 0
      BY <3>1, <3>2
    <3> QED
      BY <3>3 DEF y
  <2> HIDE DEF room
  <2>4. Len(q) \in Int
    BY <1>2
  <2>5. n = IF room <= Len(q) THEN room ELSE Len(q)
    BY <2>3, <2>4, TwoFacts
  <2> HIDE DEF n
  <2> QED
    BY <1>2, <2>3, <2>5
<1>4. l = [k EXCEPT !.snd_queue = rest, !.snd_buf = c, !.snd_nxt = x + n]
  BY DEF MoveToSndBuf
<1> HIDE DEF n, l
<1>5. n \in Nat /\ n <= Len(q) /\ x + n \in Nat
  BY <1>1, <1>2, <1>3
<1> HIDE DEF q, b, x
<1>6. ASSUME NEW i \in 1..n
      PROVE  /\ new[i] \in Buffered(B) /\ new[i].sn = x + (i - 1)
             /\ new[i].frg = q[i].frg /\ new[i].data = q[i].data
  <2>1. i \in 1..Len(q) /\ x + (i - 1) \in Nat
    BY <1>1, <1>2, <1>5
  <2>2. q[i] \in Fragment(B)
    BY <1>1, <2>1, ElementOfSeq, Zenon
  <2>3. q[i].frg \in Nat /\ q[i].data \in Seq(B)
    BY <2>2 DEF Fragment
  <2>4. new[i] = [sn |-> x + (i - 1), frg |-> q[i].frg, data |-> q[i].data,
                  fastack |-> 0, xmit |-> 0]
    OBVIOUS
  <2> HIDE DEF new
  <2> QED
    BY <2>1, <2>3, <2>4 DEF Buffered
<1>7. new \in Seq(Buffered(B)) /\ Len(new) = n
  <2>1. new \in [1..n -> Buffered(B)]
    <3>1. new = [i \in 1..n |-> new[i]]
      OBVIOUS
    <3> HIDE DEF new
    <3> QED
      BY <1>6, <3>1
  <2> HIDE DEF new
  <2> QED
    BY <1>5, <2>1, FunSeq
<1> HIDE DEF new
<1>8. /\ c \in Seq(Buffered(B)) /\ Len(c) = Len(b) + n
      /\ \A i \in 1..(Len(b) + n) : c[i] = IF i <= Len(b) THEN b[i] ELSE new[i - Len(b)]
  BY <1>1, <1>7, ConcatProperties
<1>9. /\ rest \in Seq(Fragment(B)) /\ Len(rest) = Len(q) - n
      /\ \A i \in 1..(Len(q) - n) : rest[i] = q[n + i]
  BY <1>1, <1>3, SplitFacts, Zenon
<1> HIDE DEF rest, c
<1>10. /\ l \in Blocks(B) /\ SameReceiver(k, l)
       /\ l.snd_queue = rest /\ l.snd_buf = c /\ l.snd_nxt = x + n
  BY <1>4, <1>5, <1>8, <1>9 DEF Blocks, SameReceiver
<1>11. /\ Len(all) = x + Len(q)
       /\ \A i \in 1..Len(q) : q[i] = all[x + i]
       /\ \A i \in 1..Len(b) : Carries(b[i], all, x)
  BY DEF SenderOK, q, b, x
<1>12. SenderOK(l, all)
  <2>1. Len(all) = (x + n) + Len(rest)
    BY <1>1, <1>2, <1>5, <1>9, <1>11
  <2>2. ASSUME NEW i \in 1..Len(rest) PROVE rest[i] = all[(x + n) + i]
    <3>1. i \in 1..(Len(q) - n) /\ n + i \in 1..Len(q) /\ x + (n + i) = (x + n) + i
      BY <1>1, <1>2, <1>5, <1>9
    <3> QED
      BY <1>9, <1>11, <3>1
  <2>3. ASSUME NEW i \in 1..Len(c) PROVE Carries(c[i], all, x + n)
    <3>1. i \in 1..(Len(b) + n)
      BY <1>8
    <3>2. CASE i <= Len(b)
      <4>1. i \in 1..Len(b) /\ c[i] = b[i]
        BY <1>2, <1>8, <3>1, <3>2
      <4>2. b[i] \in Buffered(B)
        BY <1>1, <4>1, ElementOfSeq, Zenon
      <4>3. b[i].sn \in Nat /\ Carries(b[i], all, x)
        BY <1>11, <4>1, <4>2 DEF Buffered
      <4>4. b[i].sn < x + n
        BY <1>1, <1>5, <4>3 DEF Carries
      <4> QED
        BY <4>1, <4>3, <4>4 DEF Carries
    <3>3. CASE ~(i <= Len(b))
      <4> DEFINE h == i - Len(b)
      <4>1. h \in 1..n /\ h \in 1..Len(q) /\ c[i] = new[h]
        BY <1>2, <1>5, <1>8, <3>1, <3>3
      <4> HIDE DEF h
      <4>2. /\ new[h].sn = x + (h - 1) /\ new[h].frg = q[h].frg /\ new[h].data = q[h].data
        BY <1>6, <4>1
      <4>3. (x + (h - 1)) + 1 = x + h /\ x + (h - 1) < x + n
        BY <1>1, <1>5, <4>1
      <4>4. q[h] = all[x + h]
        BY <1>11, <4>1
      <4> QED
        BY <4>1, <4>2, <4>3, <4>4 DEF Carries
    <3> QED
      BY <3>2, <3>3
  <2> QED
    BY <1>10, <2>1, <2>2, <2>3 DEF SenderOK
<1>13. Numbers(k, l)
  <2>1. x <= x + n
    BY <1>1, <1>5
  <2>2. ASSUME NEW sn \in Nat, sn < x + n
        PROVE  InSndBuf(l, sn) \/ (sn < x /\ ~InSndBuf(k, sn))
    <3>1. CASE sn < x
      <4> SUFFICES ASSUME InSndBuf(k, sn) PROVE InSndBuf(l, sn)
        BY <3>1
      <4>1. PICK i \in 1..Len(b) : b[i].sn = sn
        BY DEF InSndBuf, b
      <4>2. i \in 1..Len(c) /\ c[i] = b[i]
        BY <1>2, <1>5, <1>8
      <4> QED
        BY <1>10, <4>1, <4>2 DEF InSndBuf
    <3>2. CASE ~(sn < x)
      <4> DEFINE h == (sn - x) + 1
      <4>1. h \in 1..n /\ x + (h - 1) = sn
        BY <1>1, <1>5, <2>2, <3>2
      <4> HIDE DEF h
      <4>2. Len(b) + h \in 1..Len(c) /\ c[Len(b) + h] = new[h]
        <5>1. Len(b) + h \in 1..(Len(b) + n) /\ ~(Len(b) + h <= Len(b)) /\ (Len(b) + h) - Len(b) = h
          BY <1>2, <1>5, <4>1
        <5> QED
          BY <1>8, <5>1
      <4>3. c[Len(b) + h].sn = sn
        BY <1>6, <4>1, <4>2
      <4> QED
        BY <1>10, <4>2, <4>3 DEF InSndBuf
    <3> QED
      BY <3>1, <3>2
  <2> QED
    BY <1>10, <2>1, <2>2 DEF Numbers, x
<1> QED
  BY <1>10, <1>12, <1>13 DEF l

(* The control block the segments are encoded from. *)
LEMMA PreparedKeeps ==
  ASSUME NEW B, NEW k \in Blocks(B), NEW all \in Seq(Fragment(B)), SenderOK(k, all), NEW probeDue
  PROVE  /\ Prepared(k, probeDue) \in Blocks(B) /\ SameReceiver(k, Prepared(k, probeDue))
         /\ SenderOK(Prepared(k, probeDue), all) /\ Numbers(k, Prepared(k, probeDue))
<1> DEFINE m == ProbeWindow(k, probeDue)
           l == MoveToSndBuf(m)
<1>1. m \in Blocks(B) /\ SameSender(k, m) /\ SameReceiver(k, m)
  BY ProbeBlock
<1>2. l = Prepared(k, probeDue)
  BY DEF Prepared
<1> HIDE DEF m
<1>3. SenderOK(m, all)
  BY <1>1 DEF SenderOK, SameSender
<1>4. l \in Blocks(B) /\ SameReceiver(m, l) /\ SenderOK(l, all) /\ Numbers(m, l)
  BY <1>1, <1>3, MoveNumbers
<1> HIDE DEF l
<1>5. SameReceiver(k, l)
  BY <1>1, <1>4 DEF SameReceiver
<1>6. Numbers(k, l)
  BY <1>1, <1>4 DEF Numbers, SameSender, InSndBuf
<1> QED
  BY <1>2, <1>4, <1>5, <1>6

(* Transmitting a segment changes only its counters. *)
LEMMA TransmittedFacts ==
  ASSUME NEW B, NEW s \in Buffered(B), NEW due
  PROVE  /\ Transmitted(s, due) \in Buffered(B) /\ Transmitted(s, due).sn = s.sn
         /\ Transmitted(s, due).frg = s.frg /\ Transmitted(s, due).data = s.data
<1> DEFINE x == Min({s.xmit + 1, FastLimit + 1})
           a == IF s.xmit = 0 \/ s.sn \in due THEN s.fastack ELSE 0
<1>1. s.xmit + 1 \in Nat /\ FastLimit + 1 \in Nat /\ s.fastack \in Nat
  BY Sizes DEF Buffered
<1>2. x \in Nat
  <2>1. s.xmit + 1 \in Int /\ FastLimit + 1 \in Int
    BY <1>1
  <2>2. x = IF s.xmit + 1 <= FastLimit + 1 THEN s.xmit + 1 ELSE FastLimit + 1
    BY <2>1, TwoFacts
  <2> HIDE DEF x
  <2> QED
    BY <1>1, <2>2
<1>3. a \in Nat
  BY <1>1
<1>4. Transmitted(s, due) = s \/ Transmitted(s, due) = [s EXCEPT !.xmit = x, !.fastack = a]
  BY DEF Transmitted
<1> HIDE DEF x, a
<1> QED
  BY <1>2, <1>3, <1>4 DEF Buffered

(* ikcp_flush: the stream goes on, the receiving half stays, acklist is empty. *)
LEMMA FlushedKeeps ==
  ASSUME NEW B, NEW k \in Blocks(B), NEW all \in Seq(Fragment(B)), SenderOK(k, all),
         NEW due, NEW probeDue
  PROVE  /\ Flushed(k, due, probeDue) \in Blocks(B)
         /\ SenderOK(Flushed(k, due, probeDue), all) /\ Numbers(k, Flushed(k, due, probeDue))
         /\ Flushed(k, due, probeDue).snd_nxt = Prepared(k, probeDue).snd_nxt
         /\ Flushed(k, due, probeDue).rcv_nxt = k.rcv_nxt
         /\ Flushed(k, due, probeDue).rcv_buf = k.rcv_buf
         /\ Flushed(k, due, probeDue).rcv_queue = k.rcv_queue
         /\ Flushed(k, due, probeDue).acklist = <<>>
<1> DEFINE p == Prepared(k, probeDue)
           b == p.snd_buf
           c == [i \in DOMAIN b |-> Transmitted(b[i], due)]
           l == Flushed(k, due, probeDue)
<1>1. p \in Blocks(B) /\ SameReceiver(k, p) /\ SenderOK(p, all) /\ Numbers(k, p)
  BY PreparedKeeps
<1>2. l = [p EXCEPT !.acklist = <<>>, !.probe = {}, !.snd_buf = c]
  BY DEF Flushed
<1> HIDE DEF p, l
<1>3. b \in Seq(Buffered(B))
  BY <1>1 DEF Blocks
<1>4. Len(b) \in Nat /\ DOMAIN b = 1..Len(b)
  BY <1>3, LenProperties
<1> HIDE DEF b
<1>5. ASSUME NEW i \in 1..Len(b)
      PROVE  /\ c[i] \in Buffered(B) /\ c[i].sn = b[i].sn
             /\ c[i].frg = b[i].frg /\ c[i].data = b[i].data
  <2>1. b[i] \in Buffered(B)
    BY <1>3, ElementOfSeq, Zenon
  <2>2. c[i] = Transmitted(b[i], due)
    BY <1>4
  <2> HIDE DEF c
  <2> QED
    BY <2>1, <2>2, TransmittedFacts
<1>6. c \in Seq(Buffered(B)) /\ Len(c) = Len(b)
  <2>1. c = [i \in 1..Len(b) |-> c[i]]
    BY <1>4
  <2> HIDE DEF c
  <2>2. c \in [1..Len(b) -> Buffered(B)]
    BY <1>5, <2>1
  <2> QED
    BY <1>4, <2>2, FunSeq
<1> HIDE DEF c
<1>7. <<>> \in Seq(Nat)
  BY EmptySeq
<1>8. /\ l \in Blocks(B) /\ l.acklist = <<>> /\ l.snd_buf = c
      /\ l.snd_nxt = p.snd_nxt /\ l.snd_queue = p.snd_queue
      /\ l.rcv_nxt = p.rcv_nxt /\ l.rcv_buf = p.rcv_buf /\ l.rcv_queue = p.rcv_queue
  BY <1>1, <1>2, <1>6, <1>7 DEF Blocks
<1>9. SenderOK(l, all)
  <2>1. /\ Len(all) = l.snd_nxt + Len(l.snd_queue)
        /\ \A i \in 1..Len(l.snd_queue) : l.snd_queue[i] = all[l.snd_nxt + i]
        /\ \A i \in 1..Len(b) : Carries(b[i], all, l.snd_nxt)
    BY <1>1, <1>8 DEF SenderOK, b
  <2>2. ASSUME NEW i \in 1..Len(c) PROVE Carries(c[i], all, l.snd_nxt)
    <3>1. i \in 1..Len(b)
      BY <1>6
    <3>2. Carries(b[i], all, l.snd_nxt) /\ c[i].sn = b[i].sn
          /\ c[i].frg = b[i].frg /\ c[i].data = b[i].data
      BY <1>5, <2>1, <3>1
    <3> QED
      BY <3>2 DEF Carries
  <2> QED
    BY <1>8, <2>1, <2>2 DEF SenderOK
<1>10. \A sn : InSndBuf(p, sn) => InSndBuf(l, sn)
  BY <1>5, <1>6, <1>8 DEF InSndBuf, b
<1>11. Numbers(k, l)
  BY <1>1, <1>8, <1>10 DEF Numbers
<1> QED
  BY <1>1, <1>8, <1>9, <1>11 DEF SameReceiver, l, p

-----------------------------------------------------------------------------
(* What ikcp_flush sends *)

(* One more segment for the last datagram, or for a new one. *)
Packed(out, s) ==
  IF out # <<>> /\ SizeOf(Append(Last(out), s)) <= Mtu
    THEN Append(Front(out), Append(Last(out), s))
    ELSE Append(out, <<s>>)
Packing(segs, f) ==
  f = [i \in 0..Len(segs) |-> IF i = 0 THEN <<>> ELSE Packed(f[i - 1], segs[i])]

(* The datagrams consist of the segments that were packed. *)
LEMMA PackType ==
  ASSUME NEW X, NEW segs \in Seq(X)
  PROVE  Pack(segs) \in Seq(Seq(X))
<1> DEFINE n == Len(segs)
           S == Seq(Seq(X))
           g == [i \in Nat |-> [x \in S |-> IF i \in 1..n THEN Packed(x, segs[i]) ELSE x]]
           j == CHOOSE f : Packing(segs, f)
<1>1. n \in Nat /\ \A i \in 1..n : segs[i] \in X
  BY LenProperties, ElementOfSeq, Zenon
<1>2. <<>> \in S
  BY EmptySeq
<1>3. ASSUME NEW x \in S, NEW i \in 1..n
      PROVE  Packed(x, segs[i]) \in S
  <2> DEFINE s == segs[i]
             Y == Seq(X)
  <2>1. s \in X
    BY <1>1
  <2> HIDE DEF s
  <2>2. <<s>> \in Seq(X)
    BY <2>1
  <2>3. Append(x, <<s>>) \in S
    BY <2>2, AppendProperties, Zenon
  <2>4. CASE x # <<>>
    <3>1. Len(x) \in Nat /\ Len(x) # 0
      BY <2>4, LenProperties, EmptySeq
    <3>2. Len(x) \in 1..Len(x) /\ Len(x) - 1 \in 0..Len(x)
      BY <3>1
    <3>3. Last(x) \in Seq(X)
      BY <3>2, ElementOfSeq, Zenon DEF Last
    <3>4. Append(Last(x), s) \in Seq(X)
      BY <2>1, <3>3, AppendProperties, Zenon
    <3>5. Front(x) \in Seq(Seq(X))
      BY <3>2, SplitFacts, Zenon DEF Front
    <3>6. Append(Front(x), Append(Last(x), s)) \in S
      BY <3>4, <3>5, AppendProperties, Zenon
    <3>7. Packed(x, s) \in S
      BY <2>3, <3>6, Zenon DEF Packed
    <3> QED
      BY <3>7 DEF s
  <2>5. CASE x = <<>>
    <3>1. Packed(x, s) = Append(x, <<s>>)
      BY <2>5 DEF Packed
    <3> QED
      BY <2>3, <3>1 DEF s
  <2> QED
    BY <2>4, <2>5
<1> HIDE DEF S, n
<1>4. g \in [Nat -> [S -> S]]
  <2>1. ASSUME NEW i \in Nat, NEW x \in S
        PROVE (IF i \in 1..n THEN Packed(x, segs[i]) ELSE x) \in S
    BY <1>3
  <2> QED
    BY <2>1
<1> HIDE DEF g
<1>5. PICK f : Repeats(f, S, <<>>, n, g)
  BY <1>1, <1>2, <1>4, Recursion
<1>6. Packing(segs, f)
  <2>1. f \in [0..n -> S] /\ f[0] = <<>> /\ \A i \in 1..n : f[i] = g[i][f[i - 1]]
    BY <1>5 DEF Repeats
  <2>2. ASSUME NEW i \in 0..n
        PROVE  f[i] = IF i = 0 THEN <<>> ELSE Packed(f[i - 1], segs[i])
    <3>1. CASE i = 0
      BY <2>1, <3>1
    <3>2. CASE i # 0
      <4>1. i \in 1..n /\ i \in Nat /\ i - 1 \in 0..n
        BY <1>1, <3>2
      <4>2. f[i - 1] \in S
        BY <2>1, <4>1
      <4>3. f[i] = g[i][f[i - 1]]
        BY <2>1, <4>1
      <4>4. g[i][f[i - 1]] = Packed(f[i - 1], segs[i])
        BY <4>1, <4>2 DEF g
      <4> QED
        BY <3>2, <4>3, <4>4
    <3> QED
      BY <3>1, <3>2
  <2>3. f = [i \in 0..n |-> f[i]]
    BY <2>1
  <2> QED
    BY <2>2, <2>3 DEF Packing, n
<1>7. Packing(segs, j)
  BY <1>6
<1> HIDE DEF j
<1>8. /\ j[0] = <<>>
      /\ \A i \in 1..n : j[i] = Packed(j[i - 1], segs[i])
  <2>1. j = [i \in 0..n |-> IF i = 0 THEN <<>> ELSE Packed(j[i - 1], segs[i])]
    BY <1>7 DEF Packing, n
  <2>2. 0 \in 0..n /\ \A i \in 1..n : i \in 0..n /\ i # 0
    BY <1>1
  <2> QED
    BY <2>1, <2>2
<1> DEFINE T == {i \in Nat : i \in 0..n => j[i] \in S}
<1>9. 0 \in T
  BY <1>2, <1>8
<1>10. ASSUME NEW i \in T PROVE i + 1 \in T
  <2> SUFFICES ASSUME i + 1 \in 0..n PROVE j[i + 1] \in S
    OBVIOUS
  <2>1. i \in Nat /\ i \in 0..n /\ i + 1 \in 1..n /\ (i + 1) - 1 = i
    BY <1>1
  <2>2. j[i + 1] = Packed(j[i], segs[i + 1])
    BY <1>8, <2>1
  <2>3. j[i] \in S
    BY <2>1
  <2> QED
    BY <1>3, <2>1, <2>2, <2>3
<1>11. T \in SUBSET Nat
  OBVIOUS
<1> HIDE DEF T
<1>12. T = Nat
  BY <1>9, <1>10, <1>11, Induction
<1>13. j[n] \in S
  BY <1>1, <1>12 DEF T
<1>14. Pack(segs) = j[n]
  BY DEF Pack, Packing, Packed, j, n
<1> QED
  BY <1>13, <1>14 DEF S

(* The segments k may send: they acknowledge what k holds and carry the stream. *)
Honest(k, all, nxt, B) == {s \in Segments(B) : AckOK(s, k) /\ PushOK(s, all, nxt)}

(* s is a segment with this header and data. *)
Encodes(s, cmd, frg, sn, una, data, B) ==
  /\ s \in Segments(B) /\ s.cmd = cmd /\ s.sn = sn /\ s.una = una /\ s.data = data
  /\ frg < 256 => s.frg = frg

(* What travels of a segment. *)
LEMMA SegmentFacts ==
  ASSUME NEW B, NEW cmd, cmd \in {"ACK", "PUSH", "WASK", "WINS"}, NEW frg \in Nat, NEW wnd \in Nat,
         NEW sn \in Nat, NEW una \in Nat, NEW data \in Seq(B)
  PROVE  Encodes(Segment(cmd, frg, wnd, sn, una, data), cmd, frg, sn, una, data, B)
<1> DEFINE f == frg % 256
           v == wnd % 65536
<1>1. f \in Nat /\ v \in Nat /\ (frg < 256 => f = frg)
  OBVIOUS
<1>2. Segment(cmd, frg, wnd, sn, una, data) =
        [cmd |-> cmd, frg |-> f, wnd |-> v, sn |-> sn, una |-> una, data |-> data]
  BY DEF Segment
<1> HIDE DEF f, v
<1> QED
  BY <1>1, <1>2 DEF Segments, Encodes

(* Every segment a prepared block encodes is honest. *)
LEMMA EncodedHonest ==
  ASSUME NEW B, NEW p \in Blocks(B), NEW all, NEW w, NEW M, Stream(all, w, M, B),
         SenderOK(p, all), AcklistOK(p), NEW due
  PROVE  FlushAcks(p) \o FlushProbes(p) \o FlushData(p, due)
           \in Seq(Honest(p, all, p.snd_nxt, B))
<1> DEFINE X == Honest(p, all, p.snd_nxt, B)
           u == WndUnused(p)
           probe(cmd) == Segment(cmd, 0, u, 0, p.rcv_nxt, <<>>)
<1>1. /\ p.rcv_nxt \in Nat /\ p.snd_nxt \in Nat /\ p.acklist \in Seq(Nat)
      /\ p.snd_buf \in Seq(Buffered(B)) /\ p.rcv_queue \in Seq(Stored(B))
      /\ p.snd_queue \in Seq(Fragment(B)) /\ all \in Seq(Fragment(B))
  BY DEF Blocks, Stream
<1>2. u \in Nat
  <2>1. Len(p.rcv_queue) \in Nat
    BY <1>1, LenProperties
  <2> QED
    BY <2>1, Sizes DEF WndUnused
<1>3. <<>> \in Seq(B)
  BY EmptySeq
<1>4. p.rcv_nxt <= p.rcv_nxt /\ 0 \in Nat
  BY <1>1
<1> HIDE DEF u
<1>5. FlushAcks(p) \in Seq(X)
  <2> DEFINE a == p.acklist
             f == FlushAcks(p)
  <2>1. Len(a) \in Nat /\ DOMAIN a = 1..Len(a)
    BY <1>1, LenProperties
  <2>2. f = [i \in 1..Len(a) |-> Segment("ACK", 0, u, a[i], p.rcv_nxt, <<>>)]
    BY <2>1 DEF FlushAcks, u
  <2>3. ASSUME NEW i \in 1..Len(a) PROVE f[i] \in X
    <3>1. a[i] \in Nat
      BY <1>1, ElementOfSeq
    <3>2. f[i] = Segment("ACK", 0, u, a[i], p.rcv_nxt, <<>>)
      BY <2>2
    <3> HIDE DEF f
    <3>0. Encodes(f[i], "ACK", 0, a[i], p.rcv_nxt, <<>>, B)
      BY <1>1, <1>2, <1>3, <1>4, <3>1, <3>2, SegmentFacts
    <3>3. /\ f[i] \in Segments(B) /\ f[i].cmd = "ACK" /\ f[i].sn = a[i]
          /\ f[i].una = p.rcv_nxt
      BY <3>0 DEF Encodes
    <3>4. Holds(p, a[i])
      BY DEF AcklistOK
    <3> QED
      BY <1>4, <3>3, <3>4 DEF Honest, AckOK, PushOK
  <2> HIDE DEF f, X
  <2>4. f \in [1..Len(a) -> X]
    BY <2>2, <2>3
  <2> QED
    BY <2>1, <2>4, FunSeq DEF f
<1>6. FlushProbes(p) \in Seq(X)
  <2>1. ASSUME NEW cmd \in {"WASK", "WINS"} PROVE probe(cmd) \in X
    <3> DEFINE s == probe(cmd)
    <3>0. Encodes(s, cmd, 0, 0, p.rcv_nxt, <<>>, B)
      BY <1>1, <1>2, <1>3, <1>4, SegmentFacts
    <3>1. s \in Segments(B) /\ s.cmd = cmd /\ s.una = p.rcv_nxt
      BY <3>0 DEF Encodes
    <3> HIDE DEF s
    <3>2. s \in X
      BY <1>4, <3>1 DEF Honest, AckOK, PushOK
    <3> QED
      BY <3>2 DEF s
  <2> DEFINE a == IF "SEND" \in p.probe THEN <<probe("WASK")>> ELSE <<>>
             b == IF "TELL" \in p.probe THEN <<probe("WINS")>> ELSE <<>>
  <2>2. FlushProbes(p) = a \o b
    BY DEF FlushProbes, u
  <2>3. probe("WASK") \in X /\ probe("WINS") \in X
    BY <2>1
  <2> HIDE DEF X, probe
  <2>4. a \in Seq(X) /\ b \in Seq(X)
    BY <2>3
  <2> HIDE DEF a, b
  <2> QED
    BY <2>2, <2>4, ConcatProperties
<1>7. FlushData(p, due) \in Seq(X)
  <2> DEFINE b == p.snd_buf
             seg(s) == Segment("PUSH", s.frg, u, s.sn, p.rcv_nxt, s.data)
             f == [i \in DOMAIN b |-> IF NeedSend(b[i], due) THEN <<seg(b[i])>> ELSE <<>>]
  <2>1. Len(b) \in Nat /\ DOMAIN b = 1..Len(b) /\ Len(all) \in Nat
    BY <1>1, LenProperties
  <2>2. FlushData(p, due) = FlattenSeq(f)
    BY DEF FlushData, u
  <2>3. ASSUME NEW i \in 1..Len(b) PROVE seg(b[i]) \in X
    <3> DEFINE s == b[i]
               t == seg(s)
    <3>1. s \in Buffered(B)
      BY <1>1, ElementOfSeq, Zenon
    <3>2. s.sn \in Nat /\ s.frg \in Nat /\ s.data \in Seq(B)
      BY <3>1 DEF Buffered
    <3>3. Carries(s, all, p.snd_nxt)
      BY DEF SenderOK
    <3> HIDE DEF s
    <3>0. Encodes(t, "PUSH", s.frg, s.sn, p.rcv_nxt, s.data, B)
      BY <1>1, <1>2, <3>2, SegmentFacts
    <3> HIDE DEF t
    <3>4. /\ t \in Segments(B) /\ t.cmd = "PUSH" /\ t.sn = s.sn /\ t.una = p.rcv_nxt
          /\ t.data = s.data /\ (s.frg < 256 => t.frg = s.frg)
      BY <3>0 DEF Encodes
    <3>5. s.sn + 1 \in 1..Len(all)
      <4>1. Len(p.snd_queue) \in Nat
        BY <1>1, LenProperties
      <4>2. Len(all) = p.snd_nxt + Len(p.snd_queue) /\ s.sn < p.snd_nxt
        BY <3>3 DEF SenderOK, Carries
      <4> QED
        BY <1>1, <3>2, <4>1, <4>2
    <3>6. s.frg < 256
      <4>1. all[s.sn + 1].frg < 256
        BY <3>5 DEF Stream
      <4> QED
        BY <3>3, <4>1 DEF Carries
    <3>7. Carries(t, all, p.snd_nxt)
      BY <3>3, <3>4, <3>6 DEF Carries
    <3>8. t \in X
      BY <1>4, <3>4, <3>7 DEF Honest, AckOK, PushOK
    <3> QED
      BY <3>8 DEF t, s
  <2> HIDE DEF X, seg
  <2>4. f \in Seq(Seq(X))
    <3>1. ASSUME NEW i \in 1..Len(b) PROVE f[i] \in Seq(X)
      <4>1. seg(b[i]) \in X
        BY <2>3
      <4>2. <<seg(b[i])>> \in Seq(X) /\ <<>> \in Seq(X)
        BY <4>1
      <4> QED
        BY <2>1, <4>2
    <3> DEFINE Y == Seq(X)
    <3>2. f = [i \in 1..Len(b) |-> f[i]]
      BY <2>1
    <3> HIDE DEF f, Y
    <3>3. f \in [1..Len(b) -> Y]
      BY <3>1, <3>2 DEF Y
    <3>4. f \in Seq(Y)
      BY <2>1, <3>3, FunSeq
    <3> QED
      BY <3>4 DEF Y
  <2> HIDE DEF f
  <2> QED
    BY <2>2, <2>4, FlattenType
<1> DEFINE a == FlushAcks(p)
           b == FlushProbes(p)
           c == FlushData(p, due)
<1> HIDE DEF X, a, b, c
<1>8. a \o b \in Seq(X)
  BY <1>5, <1>6, ConcatProperties DEF a, b
<1>9. (a \o b) \o c \in Seq(X)
  BY <1>7, <1>8, ConcatProperties DEF c
<1> QED
  BY <1>9 DEF X, a, b, c

(* Every datagram a flush hands to the output callback holds honest segments. *)
LEMMA OutputHonest ==
  ASSUME NEW B, NEW k \in Blocks(B), NEW all, NEW w, NEW M, Stream(all, w, M, B),
         SenderOK(k, all), AcklistOK(k), NEW due, NEW probeDue
  PROVE  ToSet(Output(k, due, probeDue))
           \subseteq Seq(Honest(k, all, Flushed(k, due, probeDue).snd_nxt, B))
<1> DEFINE p == Prepared(k, probeDue)
           segs == FlushAcks(p) \o FlushProbes(p) \o FlushData(p, due)
           X == Honest(p, all, p.snd_nxt, B)
           out == Pack(segs)
<1>1. all \in Seq(Fragment(B))
  BY DEF Stream
<1>2. p \in Blocks(B) /\ SameReceiver(k, p) /\ SenderOK(p, all)
  BY <1>1, PreparedKeeps
<1>3. Flushed(k, due, probeDue).snd_nxt = p.snd_nxt
  BY <1>1, FlushedKeeps
<1>4. Output(k, due, probeDue) = out
  BY DEF Output
<1> HIDE DEF p
<1>5. AcklistOK(p)
  BY <1>2, GrowsSame
<1>6. segs \in Seq(X)
  BY <1>2, <1>5, EncodedHonest
<1> HIDE DEF segs
<1>7. X = Honest(k, all, p.snd_nxt, B)
  BY <1>2 DEF Honest, AckOK, Holds, SameReceiver
<1> HIDE DEF X
<1>8. out \in Seq(Seq(X))
  BY <1>6, PackType
<1> HIDE DEF out
<1>9. ASSUME NEW d \in ToSet(out) PROVE d \in Seq(X)
  <2>1. PICK i \in DOMAIN out : d = out[i]
    BY DEF ToSet
  <2>2. i \in 1..Len(out)
    BY <1>8, <2>1, LenProperties
  <2> QED
    BY <1>8, <2>1, <2>2, ElementOfSeq, Zenon
<1> QED
  BY <1>3, <1>4, <1>7, <1>9

-----------------------------------------------------------------------------
(* Both directions of a conversation *)

(* k and p talk: kp and pk are the datagrams in flight from k to p and back,   *)
(* Mk the messages k sent and Rp those of them p has received, Mp and Rk the   *)
(* other way round.                                                            *)
Pair(k, p, kp, pk, Mk, Rp, Mp, Rk, B) ==
  /\ k \in Blocks(B) /\ p \in Blocks(B)
  /\ kp \in SUBSET Seq(Segments(B)) /\ pk \in SUBSET Seq(Segments(B))
  /\ Link(k, p, kp, pk, Mk, Rp, B)
  /\ Link(p, k, pk, kp, Mp, Rk, B)

(* The two ends are alike. *)
LEMMA PairTurned ==
  ASSUME NEW B, NEW k, NEW p, NEW kp, NEW pk, NEW Mk, NEW Rp, NEW Mp, NEW Rk,
         Pair(k, p, kp, pk, Mk, Rp, Mp, Rk, B)
  PROVE  Pair(p, k, pk, kp, Mp, Rk, Mk, Rp, B)
BY DEF Pair

(* The network may lose datagrams. *)
LEMMA PairFewer ==
  ASSUME NEW B, NEW k, NEW p, NEW kp, NEW pk, NEW Mk, NEW Rp, NEW Mp, NEW Rk,
         Pair(k, p, kp, pk, Mk, Rp, Mp, Rk, B),
         NEW kp2 \in SUBSET kp, NEW pk2 \in SUBSET pk
  PROVE  Pair(k, p, kp2, pk2, Mk, Rp, Mp, Rk, B)
<1>1. Link(k, p, kp2, pk2, Mk, Rp, B)
  BY LinkFewer DEF Pair
<1>2. Link(p, k, pk2, kp2, Mp, Rk, B)
  BY LinkFewer DEF Pair
<1> QED
  BY <1>1, <1>2 DEF Pair

(* A new conversation. *)
LEMMA PairCreate ==
  ASSUME NEW B
  PROVE  Pair(Create, Create, {}, {}, <<>>, <<>>, <<>>, <<>>, B)
<1> DEFINE w == [i \in 0..0 |-> 0]
           k == Create
<1>1. Create \in Blocks(B)
  <2>1. <<>> \in Seq(Fragment(B)) /\ <<>> \in Seq(Buffered(B)) /\ <<>> \in Seq(Stored(B))
        /\ <<>> \in Seq(Nat)
    BY EmptySeq
  <2> QED
    BY <2>1, Sizes DEF Create, Blocks
<1>2. /\ k.snd_nxt = 0 /\ k.rcv_nxt = 0 /\ k.snd_queue = <<>> /\ k.snd_buf = <<>>
      /\ k.rcv_buf = <<>> /\ k.rcv_queue = <<>> /\ k.acklist = <<>>
  BY DEF Create
<1> HIDE DEF k
<1>3. Len(<<>>) = 0 /\ <<>> \in Seq(Seq(B)) /\ <<>> \in Seq(Fragment(B))
  BY EmptySeq
<1>4. Stream(<<>>, w, <<>>, B)
  <2>1. w \in [0..0 -> Nat] /\ w[0] = 0
    OBVIOUS
  <2> HIDE DEF w
  <2>2. 1..0 = {}
    OBVIOUS
  <2> QED
    BY <1>3, <2>1, <2>2 DEF Stream
<1>5. w[0] = 0
  OBVIOUS
<1> HIDE DEF w
<1>6. 1..0 = {} /\ 0 + 0 = 0 /\ 0 <= 0
  OBVIOUS
<1>7. SenderOK(k, <<>>) /\ ReceiverOK(k, <<>>, w, k.snd_nxt, <<>>, <<>>) /\ AcklistOK(k)
  BY <1>2, <1>3, <1>5, <1>6 DEF SenderOK, ReceiverOK, AcklistOK
<1>8. GoneIsHeld(k, k)
  BY <1>2 DEF GoneIsHeld
<1>9. DataOK({}, <<>>, k.snd_nxt) /\ AcksOK(k, {})
  BY DEF DataOK, AcksOK
<1>10. LinkOver(<<>>, w, k, k, {}, {}, <<>>, <<>>, B)
  BY <1>3, <1>4, <1>7, <1>8, <1>9 DEF LinkOver
<1>11. Link(k, k, {}, {}, <<>>, <<>>, B)
  BY <1>10, Zenon DEF Link
<1> QED
  BY <1>1, <1>11 DEF Pair, k

(* ikcp_send. *)
LEMMA PairSends ==
  ASSUME NEW B, NEW k, NEW p, NEW kp, NEW pk, NEW Mk, NEW Rp, NEW Mp, NEW Rk,
         Pair(k, p, kp, pk, Mk, Rp, Mp, Rk, B), NEW msg \in Seq(B)
  PROVE  Pair(IkcpSend(k, msg), p, kp, pk,
              IF SendFits(msg) THEN Append(Mk, msg) ELSE Mk, Rp, Mp, Rk, B)
<1> DEFINE l == IkcpSend(k, msg)
<1>1. /\ k \in Blocks(B) /\ p \in Blocks(B)
      /\ kp \in SUBSET Seq(Segments(B)) /\ pk \in SUBSET Seq(Segments(B))
      /\ Link(k, p, kp, pk, Mk, Rp, B) /\ Link(p, k, pk, kp, Mp, Rk, B)
  BY DEF Pair
<1>2. CASE ~SendFits(msg)
  <2>1. l = k
    BY <1>2 DEF IkcpSend
  <2> QED
    BY <1>2, <2>1
<1>3. CASE SendFits(msg)
  <2>1. l \in Blocks(B) /\ SameReceiver(k, l)
    BY <1>1, SendBlock
  <2>2. Link(l, p, kp, pk, Append(Mk, msg), Rp, B)
    BY <1>1, <1>3, LinkSends
  <2> HIDE DEF l
  <2>3. SameSender(p, p)
    BY DEF SameSender
  <2>4. Link(p, l, pk, kp, Mp, Rk, B)
    BY <1>1, <2>1, <2>3, LinkSame
  <2>5. Pair(l, p, kp, pk, Append(Mk, msg), Rp, Mp, Rk, B)
    BY <1>1, <2>1, <2>2, <2>4 DEF Pair
  <2> QED
    BY <1>3, <2>5 DEF l
<1> QED
  BY <1>2, <1>3

(* What a link says that the other lemmas need of it. *)
LEMMA LinkFacts ==
  ASSUME NEW B, NEW k \in Blocks(B), NEW p \in Blocks(B), NEW all, NEW w, NEW forth, NEW back,
         NEW M, NEW R, LinkOver(all, w, k, p, forth, back, M, R, B)
  PROVE  /\ all \in Seq(Fragment(B)) /\ M \in Seq(Seq(B)) /\ R \in Seq(Seq(B))
         /\ k.snd_nxt \in Nat /\ k.snd_nxt <= Len(all) /\ w[Len(R)] \in Nat
<1>1. /\ all \in Seq(Fragment(B)) /\ M \in Seq(Seq(B)) /\ w \in [0..Len(M) -> Nat]
      /\ R \in Seq(Seq(B)) /\ Len(R) <= Len(M) /\ Len(all) = k.snd_nxt + Len(k.snd_queue)
  BY DEF LinkOver, Stream, SenderOK, ReceiverOK
<1>2. k.snd_nxt \in Nat /\ k.snd_queue \in Seq(Fragment(B))
  BY DEF Blocks
<1>3. Len(R) \in Nat /\ Len(M) \in Nat /\ Len(k.snd_queue) \in Nat
  BY <1>1, <1>2, LenProperties
<1>4. Len(R) \in 0..Len(M) /\ k.snd_nxt <= Len(all)
  BY <1>1, <1>2, <1>3
<1> QED
  BY <1>1, <1>2, <1>4

(* What a receiver that has grown still answers for. *)
LEMMA GrownAnswers ==
  ASSUME NEW B, NEW p \in Blocks(B), NEW q \in Blocks(B), Grows(p, q), NEW k,
         NEW back \in SUBSET Seq(Segments(B))
  PROVE  /\ AcksOK(p, back) => AcksOK(q, back)
         /\ GoneIsHeld(k, p) => GoneIsHeld(k, q)
<1>1. ASSUME AcksOK(p, back), NEW d \in back, NEW i \in 1..Len(d)
      PROVE  AckOK(d[i], q)
  <2>1. d[i] \in Segments(B)
    BY ElementOfSeq, Zenon
  <2>2. d[i].sn \in Nat /\ d[i].una \in Nat /\ p.rcv_nxt \in Nat /\ q.rcv_nxt \in Nat
    BY <2>1 DEF Segments, Blocks
  <2>3. AckOK(d[i], p)
    BY <1>1 DEF AcksOK
  <2>4. d[i].una <= q.rcv_nxt
    BY <2>2, <2>3 DEF AckOK, Grows
  <2>5. d[i].cmd = "ACK" => Holds(q, d[i].sn)
    BY <2>2, <2>3 DEF AckOK, Grows
  <2> QED
    BY <2>4, <2>5 DEF AckOK
<1>2. AcksOK(p, back) => AcksOK(q, back)
  BY <1>1 DEF AcksOK
<1>3. GoneIsHeld(k, p) => GoneIsHeld(k, q)
  BY DEF GoneIsHeld, Grows
<1> QED
  BY <1>2, <1>3

(* A receiver that has grown, with a new state of the user's side. *)
LEMMA LinkGrows ==
  ASSUME NEW B, NEW k \in Blocks(B), NEW p \in Blocks(B), NEW q \in Blocks(B),
         NEW all, NEW w, NEW forth, NEW back \in SUBSET Seq(Segments(B)), NEW M, NEW R,
         LinkOver(all, w, k, p, forth, back, M, R, B),
         NEW S \in Seq(Seq(B)), ReceiverOK(q, all, w, k.snd_nxt, M, S), AcklistOK(q), Grows(p, q)
  PROVE  Link(k, q, forth, back, M, S, B)
<1>1. /\ Stream(all, w, M, B) /\ SenderOK(k, all) /\ DataOK(forth, all, k.snd_nxt)
      /\ AcksOK(p, back) /\ GoneIsHeld(k, p)
  BY DEF LinkOver
<1>2. AcksOK(q, back) /\ GoneIsHeld(k, q)
  BY <1>1, GrownAnswers
<1>3. LinkOver(all, w, k, q, forth, back, M, S, B)
  BY <1>1, <1>2 DEF LinkOver
<1> QED
  BY <1>3, Zenon DEF Link

(* ikcp_recv. *)
LEMMA PairReceives ==
  ASSUME NEW B, NEW k, NEW p, NEW kp, NEW pk, NEW Mk, NEW Rp, NEW Mp, NEW Rk,
         Pair(k, p, kp, pk, Mk, Rp, Mp, Rk, B), PeekCount(k) > 0
  PROVE  Pair(IkcpRecv(k), p, kp, pk, Mk, Rp, Mp, Append(Rk, Received(k)), B)
<1> DEFINE l == IkcpRecv(k)
           N == Append(Rk, Received(k))
<1>1. /\ k \in Blocks(B) /\ p \in Blocks(B)
      /\ kp \in SUBSET Seq(Segments(B)) /\ pk \in SUBSET Seq(Segments(B))
      /\ Link(k, p, kp, pk, Mk, Rp, B) /\ Link(p, k, pk, kp, Mp, Rk, B)
  BY DEF Pair
<1>2. PICK all, w : LinkOver(all, w, p, k, pk, kp, Mp, Rk, B)
  BY <1>1, Zenon DEF Link
<1>3. Rk \in Seq(Seq(B)) /\ p.snd_nxt \in Nat /\ p.snd_nxt <= Len(all)
  BY <1>1, <1>2, LinkFacts
<1>4. Stream(all, w, Mp, B) /\ ReceiverOK(k, all, w, p.snd_nxt, Mp, Rk) /\ AcklistOK(k)
  BY <1>2 DEF LinkOver
<1>5. /\ l \in Blocks(B) /\ SameSender(k, l) /\ N \in Seq(Seq(B))
      /\ ReceiverOK(l, all, w, p.snd_nxt, Mp, N) /\ AcklistOK(l) /\ Grows(k, l)
  BY <1>1, <1>3, <1>4, RecvKeeps
<1> HIDE DEF l, N
<1>6. Link(p, l, pk, kp, Mp, N, B)
  BY <1>1, <1>2, <1>5, LinkGrows
<1>7. SameReceiver(p, p)
  BY DEF SameReceiver
<1>8. Link(l, p, kp, pk, Mk, Rp, B)
  BY <1>1, <1>5, <1>7, LinkSame
<1> QED
  BY <1>1, <1>5, <1>6, <1>8 DEF Pair, l, N

(* A sender whose snd_buf was trimmed of what the other end holds. *)
LEMMA LinkTrimmed ==
  ASSUME NEW B, NEW k \in Blocks(B), NEW l \in Blocks(B), NEW p \in Blocks(B),
         NEW forth, NEW back, NEW M, NEW R, Link(k, p, forth, back, M, R, B), Trimmed(k, l, p)
  PROVE  Link(l, p, forth, back, M, R, B)
<1>1. PICK all, w : LinkOver(all, w, k, p, forth, back, M, R, B)
  BY Zenon DEF Link
<1>2. /\ Stream(all, w, M, B) /\ R \in Seq(Seq(B)) /\ SenderOK(k, all)
      /\ ReceiverOK(p, all, w, k.snd_nxt, M, R) /\ DataOK(forth, all, k.snd_nxt)
      /\ AcksOK(p, back) /\ AcklistOK(p) /\ GoneIsHeld(k, p)
  BY <1>1 DEF LinkOver
<1>3. l.snd_nxt = k.snd_nxt /\ l.snd_queue = k.snd_queue
  BY DEF Trimmed
<1>4. SenderOK(l, all)
  <2>1. ASSUME NEW i \in 1..Len(l.snd_buf) PROVE Carries(l.snd_buf[i], all, l.snd_nxt)
    <3>1. PICK j \in 1..Len(k.snd_buf) :
            /\ l.snd_buf[i].sn = k.snd_buf[j].sn
            /\ l.snd_buf[i].frg = k.snd_buf[j].frg /\ l.snd_buf[i].data = k.snd_buf[j].data
      BY DEF Trimmed
    <3>2. Carries(k.snd_buf[j], all, k.snd_nxt)
      BY <1>2 DEF SenderOK
    <3> QED
      BY <1>3, <3>1, <3>2 DEF Carries
  <2> QED
    BY <1>2, <1>3, <2>1 DEF SenderOK
<1>5. GoneIsHeld(l, p)
  <2>1. ASSUME NEW sn \in Nat, sn < l.snd_nxt PROVE InSndBuf(l, sn) \/ Holds(p, sn)
    <3>1. InSndBuf(k, sn) \/ Holds(p, sn)
      BY <1>2, <1>3, <2>1 DEF GoneIsHeld
    <3>2. ASSUME InSndBuf(k, sn) PROVE InSndBuf(l, sn) \/ Holds(p, sn)
      <4>1. PICK j \in 1..Len(k.snd_buf) : k.snd_buf[j].sn = sn
        BY <3>2 DEF InSndBuf
      <4>2. InSndBuf(l, k.snd_buf[j].sn) \/ Holds(p, k.snd_buf[j].sn)
        BY DEF Trimmed
      <4> QED
        BY <4>1, <4>2
    <3> QED
      BY <3>1, <3>2
  <2> QED
    BY <2>1 DEF GoneIsHeld
<1>6. LinkOver(all, w, l, p, forth, back, M, R, B)
  BY <1>2, <1>3, <1>4, <1>5 DEF LinkOver
<1> QED
  BY <1>6, Zenon DEF Link

(* ikcp_input of a datagram that is in flight. *)
LEMMA PairInputs ==
  ASSUME NEW B, NEW k, NEW p, NEW kp, NEW pk, NEW Mk, NEW Rp, NEW Mp, NEW Rk,
         Pair(k, p, kp, pk, Mk, Rp, Mp, Rk, B), NEW d \in pk
  PROVE  Pair(IkcpInput(k, d), p, kp, pk, Mk, Rp, Mp, Rk, B)
<1> DEFINE l == IkcpInput(k, d)
<1>1. /\ k \in Blocks(B) /\ p \in Blocks(B)
      /\ kp \in SUBSET Seq(Segments(B)) /\ pk \in SUBSET Seq(Segments(B))
      /\ Link(k, p, kp, pk, Mk, Rp, B) /\ Link(p, k, pk, kp, Mp, Rk, B)
  BY DEF Pair
<1>2. PICK all, w : LinkOver(all, w, p, k, pk, kp, Mp, Rk, B)
  BY <1>1, Zenon DEF Link
<1>3. Rk \in Seq(Seq(B)) /\ p.snd_nxt \in Nat /\ w[Len(Rk)] \in Nat
  BY <1>1, <1>2, LinkFacts
<1>4. /\ ReceiverOK(k, all, w, p.snd_nxt, Mp, Rk) /\ AcklistOK(k)
      /\ DataOK(pk, all, p.snd_nxt)
  BY <1>2 DEF LinkOver
<1>5. AcksOK(p, pk)
  <2>1. PICK all2, w2 : LinkOver(all2, w2, k, p, kp, pk, Mk, Rp, B)
    BY <1>1, Zenon DEF Link
  <2> QED
    BY <2>1 DEF LinkOver
<1>6. d \in Seq(Segments(B))
  BY <1>1
<1>7. \A i \in 1..Len(d) : AckOK(d[i], p) /\ PushOK(d[i], all, p.snd_nxt)
  BY <1>4, <1>5 DEF AcksOK, DataOK
<1>8. Fed(k, l, p, all, w, p.snd_nxt, Mp, Rk, B)
  BY <1>1, <1>3, <1>4, <1>6, <1>7, InputFeeds
<1> HIDE DEF l
<1>9. /\ l \in Blocks(B) /\ Trimmed(k, l, p)
      /\ ReceiverOK(l, all, w, p.snd_nxt, Mp, Rk) /\ AcklistOK(l) /\ Grows(k, l)
  BY <1>8 DEF Fed
<1>10. Link(p, l, pk, kp, Mp, Rk, B)
  BY <1>1, <1>2, <1>3, <1>9, LinkGrows
<1>11. Link(l, p, kp, pk, Mk, Rp, B)
  BY <1>1, <1>9, LinkTrimmed
<1> QED
  BY <1>1, <1>9, <1>10, <1>11 DEF Pair, l

(* ikcp_flush: its output is added to what is in flight. *)
LEMMA PairFlushes ==
  ASSUME NEW B, NEW k, NEW p, NEW kp, NEW pk, NEW Mk, NEW Rp, NEW Mp, NEW Rk,
         Pair(k, p, kp, pk, Mk, Rp, Mp, Rk, B), NEW due, NEW probeDue
  PROVE  Pair(Flushed(k, due, probeDue), p, kp \cup ToSet(Output(k, due, probeDue)), pk,
              Mk, Rp, Mp, Rk, B)
<1> DEFINE l == Flushed(k, due, probeDue)
           out == ToSet(Output(k, due, probeDue))
           all2 == kp \cup out
<1>1. /\ k \in Blocks(B) /\ p \in Blocks(B)
      /\ kp \in SUBSET Seq(Segments(B)) /\ pk \in SUBSET Seq(Segments(B))
      /\ Link(k, p, kp, pk, Mk, Rp, B) /\ Link(p, k, pk, kp, Mp, Rk, B)
  BY DEF Pair
<1>2. PICK all, w : LinkOver(all, w, k, p, kp, pk, Mk, Rp, B)
  BY <1>1, Zenon DEF Link
<1>3. PICK a, v : LinkOver(a, v, p, k, pk, kp, Mp, Rk, B)
  BY <1>1, Zenon DEF Link
<1>4. all \in Seq(Fragment(B)) /\ k.snd_nxt \in Nat
  BY <1>1, <1>2, LinkFacts
<1>5. /\ Stream(all, w, Mk, B) /\ Rp \in Seq(Seq(B)) /\ SenderOK(k, all)
      /\ ReceiverOK(p, all, w, k.snd_nxt, Mk, Rp) /\ DataOK(kp, all, k.snd_nxt)
      /\ AcksOK(p, pk) /\ AcklistOK(p) /\ GoneIsHeld(k, p)
  BY <1>2 DEF LinkOver
<1>6. /\ Stream(a, v, Mp, B) /\ Rk \in Seq(Seq(B)) /\ SenderOK(p, a)
      /\ ReceiverOK(k, a, v, p.snd_nxt, Mp, Rk) /\ DataOK(pk, a, p.snd_nxt)
      /\ AcksOK(k, kp) /\ AcklistOK(k) /\ GoneIsHeld(p, k)
  BY <1>3 DEF LinkOver
<1>7. /\ l \in Blocks(B) /\ SenderOK(l, all) /\ Numbers(k, l)
      /\ l.rcv_nxt = k.rcv_nxt /\ l.rcv_buf = k.rcv_buf /\ l.rcv_queue = k.rcv_queue
      /\ l.acklist = <<>>
  BY <1>1, <1>4, <1>5, FlushedKeeps
<1>8. out \subseteq Seq(Honest(k, all, l.snd_nxt, B))
  BY <1>1, <1>5, <1>6, OutputHonest
<1> HIDE DEF l, out
<1>9. l.snd_nxt \in Nat /\ k.snd_nxt <= l.snd_nxt
  BY <1>7 DEF Blocks, Numbers
<1>10. ASSUME NEW d \in out
       PROVE  /\ d \in Seq(Segments(B))
              /\ \A i \in 1..Len(d) : AckOK(d[i], l) /\ PushOK(d[i], all, l.snd_nxt)
  <2> DEFINE X == Honest(k, all, l.snd_nxt, B)
  <2>1. d \in Seq(X)
    BY <1>8
  <2>2. X \subseteq Segments(B)
    BY DEF Honest
  <2>3. ASSUME NEW i \in 1..Len(d) PROVE d[i] \in X
    <3> HIDE DEF X
    <3> QED
      BY <2>1, ElementOfSeq, Zenon
  <2>4. d \in Seq(Segments(B))
    <3> HIDE DEF X
    <3>1. d \in [1..Len(d) -> X] /\ Len(d) \in Nat
      BY <2>1, LenProperties
    <3>2. d \in [1..Len(d) -> Segments(B)]
      BY <2>2, <3>1
    <3> QED
      BY <3>1, <3>2, FunSeq, Zenon
  <2>5. ASSUME NEW i \in 1..Len(d) PROVE AckOK(d[i], l) /\ PushOK(d[i], all, l.snd_nxt)
    <3>1. AckOK(d[i], k) /\ PushOK(d[i], all, l.snd_nxt)
      BY <2>3 DEF Honest
    <3> QED
      BY <1>7, <3>1 DEF AckOK, Holds
  <2> QED
    BY <2>4, <2>5
<1>11. all2 \in SUBSET Seq(Segments(B))
  BY <1>1, <1>10
<1>12. ASSUME NEW s, s.sn \in Nat, Carries(s, all, k.snd_nxt)
       PROVE  Carries(s, all, l.snd_nxt)
  BY <1>4, <1>9, <1>12 DEF Carries
<1>13. Link(l, p, all2, pk, Mk, Rp, B)
  <2>1. ReceiverOK(p, all, w, l.snd_nxt, Mk, Rp)
    <3>1. p.rcv_nxt \in Nat /\ p.rcv_buf \in Seq(Stored(B))
      BY <1>1 DEF Blocks
    <3>2. p.rcv_nxt <= l.snd_nxt
      BY <1>4, <1>5, <1>9, <3>1 DEF ReceiverOK
    <3>3. ASSUME NEW i \in 1..Len(p.rcv_buf) PROVE Carries(p.rcv_buf[i], all, l.snd_nxt)
      <4>1. p.rcv_buf[i] \in Stored(B)
        BY <3>1, ElementOfSeq, Zenon
      <4>2. p.rcv_buf[i].sn \in Nat /\ Carries(p.rcv_buf[i], all, k.snd_nxt)
        BY <1>5, <4>1 DEF ReceiverOK, Stored
      <4> QED
        BY <1>12, <4>2
    <3> QED
      BY <1>5, <3>2, <3>3 DEF ReceiverOK
  <2>2. DataOK(all2, all, l.snd_nxt)
    <3>1. ASSUME NEW d \in kp, NEW i \in 1..Len(d) PROVE PushOK(d[i], all, l.snd_nxt)
      <4>1. d[i] \in Segments(B)
        BY <1>1, ElementOfSeq, Zenon
      <4>2. d[i].sn \in Nat /\ PushOK(d[i], all, k.snd_nxt)
        BY <1>5, <4>1 DEF DataOK, Segments
      <4> QED
        BY <1>12, <4>2 DEF PushOK
    <3> QED
      BY <1>10, <3>1 DEF DataOK
  <2>3. GoneIsHeld(l, p)
    <3>1. ASSUME NEW sn \in Nat, sn < l.snd_nxt PROVE InSndBuf(l, sn) \/ Holds(p, sn)
      <4>1. InSndBuf(l, sn) \/ (sn < k.snd_nxt /\ ~InSndBuf(k, sn))
        BY <1>7, <3>1 DEF Numbers
      <4> QED
        BY <1>5, <4>1 DEF GoneIsHeld
    <3> QED
      BY <3>1 DEF GoneIsHeld
  <2> HIDE DEF all2
  <2>4. LinkOver(all, w, l, p, all2, pk, Mk, Rp, B)
    BY <1>5, <1>7, <2>1, <2>2, <2>3 DEF LinkOver
  <2> QED
    BY <2>4, Zenon DEF Link
<1>14. Link(p, l, pk, all2, Mp, Rk, B)
  <2>1. ReceiverOK(l, a, v, p.snd_nxt, Mp, Rk)
    BY <1>6, <1>7 DEF ReceiverOK
  <2>2. ASSUME NEW d \in kp, NEW i \in 1..Len(d) PROVE AckOK(d[i], l)
    BY <1>6, <1>7 DEF AcksOK, AckOK, Holds
  <2>3. AcksOK(l, all2)
    BY <1>10, <2>2 DEF AcksOK
  <2>4. AcklistOK(l)
    <3>1. Len(<<>>) = 0 /\ 1..0 = {}
      OBVIOUS
    <3> QED
      BY <1>7, <3>1 DEF AcklistOK
  <2>5. GoneIsHeld(p, l)
    BY <1>6, <1>7 DEF GoneIsHeld, Holds
  <2> HIDE DEF all2
  <2>6. LinkOver(a, v, p, l, pk, all2, Mp, Rk, B)
    BY <1>6, <2>1, <2>3, <2>4, <2>5 DEF LinkOver
  <2> QED
    BY <2>6, Zenon DEF Link
<1> QED
  BY <1>1, <1>7, <1>11, <1>13, <1>14 DEF Pair, l, out

(* What the invariant is for: messages in order, and no segment forgotten that *)
(* the other end does not have.                                                *)
LEMMA PairSafe ==
  ASSUME NEW B, NEW k, NEW p, NEW kp, NEW pk, NEW Mk, NEW Rp, NEW Mp, NEW Rk,
         Pair(k, p, kp, pk, Mk, Rp, Mp, Rk, B)
  PROVE  IsPrefix(Rp, Mk) /\ GoneIsHeld(k, p)
<1>1. k \in Blocks(B) /\ p \in Blocks(B) /\ Link(k, p, kp, pk, Mk, Rp, B)
  BY DEF Pair
<1>2. PICK all, w : LinkOver(all, w, k, p, kp, pk, Mk, Rp, B)
  BY <1>1, Zenon DEF Link
<1>3. Mk \in Seq(Seq(B)) /\ Rp \in Seq(Seq(B))
  BY <1>1, <1>2, LinkFacts
<1>4. /\ Len(Rp) <= Len(Mk) /\ \A i \in 1..Len(Rp) : Rp[i] = Mk[i]
      /\ GoneIsHeld(k, p)
  BY <1>2 DEF LinkOver, ReceiverOK
<1> DEFINE n == Len(Rp)
           a == SubSeq(Rp, 1, n)
           b == SubSeq(Mk, 1, n)
           Y == Seq(B)
<1>5. n \in Nat /\ n \in 0..Len(Rp) /\ n \in 0..Len(Mk)
  BY <1>3, <1>4, LenProperties
<1> HIDE DEF n, Y
<1>6. a \in Seq(Y) /\ Len(a) = n /\ \A i \in 1..n : a[i] = Rp[i]
  BY <1>3, <1>5, SplitFacts, Zenon DEF Y
<1>7. b \in Seq(Y) /\ Len(b) = n /\ \A i \in 1..n : b[i] = Mk[i]
  BY <1>3, <1>5, SplitFacts, Zenon DEF Y
<1> HIDE DEF a, b
<1>8. \A i \in 1..Len(a) : a[i] = b[i]
  BY <1>4, <1>6, <1>7 DEF n
<1>9. a = b
  BY <1>6, <1>7, <1>8, SeqEqual
<1> QED
  BY <1>4, <1>9 DEF IsPrefix, a, b, n

-----------------------------------------------------------------------------
(* Two endpoints: Kcp *)

(* The bytes of Kcp's messages. *)
Bytes == Nat \X Nat

(* The invariant as seen from e, of the values of kcp, net, sent and rcvd. *)
Talking(k, n, s, r, e) ==
  Pair(k[e], k[Peer(e)], n[Peer(e)], n[e], s[e], r[Peer(e)], s[Peer(e)], r[e], Bytes)

(* The same from both ends. *)
Kept(k, n, c, s, r) ==
  /\ DOMAIN k = Ends /\ DOMAIN n = Ends /\ c \in [Ends -> Nat]
  /\ DOMAIN s = Ends /\ DOMAIN r = Ends
  /\ \A e \in Ends : Talking(k, n, s, r, e)

(* The inductive invariant of Kcp. *)
KcpInv == Kept(kcp, net, called, sent, rcvd)

(* Each endpoint is the other one's peer. *)
LEMMA PeerFacts ==
  ASSUME NEW e \in Ends
  PROVE  /\ Peer(e) \in Ends /\ Peer(e) # e /\ Peer(Peer(e)) = e
         /\ \A x \in Ends : x = e \/ x = Peer(e)
<1>1. PICK a, b \in Ends : a # b /\ Ends = {a, b}
  BY KcpAssumption
<1>2. \A x \in Ends : Peer(x) \in Ends /\ Peer(x) # x
  <2> TAKE x \in Ends
  <2>1. \E y \in Ends : y # x
    BY <1>1
  <2> QED
    BY <2>1 DEF Peer
<1> QED
  BY <1>1, <1>2

(* Seen from one end is seen from both. *)
LEMMA TalkingBoth ==
  ASSUME NEW k, NEW n, NEW s, NEW r, NEW e \in Ends, Talking(k, n, s, r, e)
  PROVE  \A x \in Ends : Talking(k, n, s, r, x)
<1>1. Peer(e) \in Ends /\ Peer(Peer(e)) = e /\ \A x \in Ends : x = e \/ x = Peer(e)
  BY PeerFacts
<1> DEFINE p == Peer(e)
<1>2. Pair(k[e], k[p], n[p], n[e], s[e], r[p], s[p], r[e], Bytes)
  BY DEF Talking
<1> HIDE DEF p
<1>3. Pair(k[p], k[e], n[e], n[p], s[p], r[e], s[e], r[p], Bytes)
  BY <1>2, PairTurned
<1>4. Talking(k, n, s, r, p)
  BY <1>1, <1>3 DEF Talking, p
<1> QED
  BY <1>1, <1>4 DEF p

(* The messages of Kcp are sequences of bytes. *)
LEMMA MessageType ==
  ASSUME NEW e \in Ends, NEW i \in 1..Len(Calls[e])
  PROVE  Message(e, i) \in Seq(Bytes)
<1>1. Calls[e] \in Seq(Nat)
  BY KcpAssumption
<1>2. Calls[e][i] \in Nat
  BY <1>1, ElementOfSeq
<1>3. i \in Nat
  BY <1>1, LenProperties
<1> DEFINE n == Calls[e][i]
           m == Message(e, i)
<1>4. m = [j \in 1..n |-> <<i, j>>]
  BY DEF Message
<1> HIDE DEF n, m
<1>5. m \in [1..n -> Bytes]
  BY <1>2, <1>3, <1>4 DEF Bytes, n
<1> QED
  BY <1>2, <1>5, FunSeq DEF n, m

(* The initial state satisfies the invariant. *)
LEMMA KcpStarts ==
  ASSUME Init
  PROVE  KcpInv
<1>1. /\ kcp = [e \in Ends |-> Create] /\ net = [e \in Ends |-> {}]
      /\ called = [e \in Ends |-> 0]
      /\ sent = [e \in Ends |-> <<>>] /\ rcvd = [e \in Ends |-> <<>>]
  BY DEF Init
<1>2. ASSUME NEW e \in Ends PROVE Talking(kcp, net, sent, rcvd, e)
  <2>1. Peer(e) \in Ends
    BY PeerFacts
  <2>2. /\ kcp[e] = Create /\ kcp[Peer(e)] = Create /\ net[e] = {} /\ net[Peer(e)] = {}
        /\ sent[e] = <<>> /\ sent[Peer(e)] = <<>> /\ rcvd[e] = <<>> /\ rcvd[Peer(e)] = <<>>
    BY <1>1, <2>1
  <2> QED
    BY <2>2, PairCreate DEF Talking
<1> QED
  BY <1>1, <1>2 DEF KcpInv, Kept

(* Every step keeps the invariant. *)
LEMMA KcpContinues ==
  ASSUME KcpInv, [Next]_vars
  PROVE  KcpInv'
<1>0. SUFFICES Kept(kcp', net', called', sent', rcvd')
  BY DEF KcpInv, Kept, Talking
<1>1. /\ DOMAIN kcp = Ends /\ DOMAIN net = Ends /\ called \in [Ends -> Nat]
      /\ DOMAIN sent = Ends /\ DOMAIN rcvd = Ends
      /\ \A e \in Ends : Talking(kcp, net, sent, rcvd, e)
  BY DEF KcpInv, Kept
<1>2. CASE UNCHANGED vars
  BY <1>1, <1>2 DEF vars, Kept
<1>3. ASSUME NEW e \in Ends,
             Send(e) \/ Recv(e) \/ Update(e) \/ Deliver(e) \/ Duplicate(e) \/ Lose(e)
      PROVE  Kept(kcp', net', called', sent', rcvd')
  <2> DEFINE p == Peer(e)
             k == kcp[e]
  <2>1. p \in Ends /\ p # e
    BY PeerFacts
  <2>2. Pair(k, kcp[p], net[p], net[e], sent[e], rcvd[p], sent[p], rcvd[e], Bytes)
    BY <1>1 DEF Talking
  <2> HIDE DEF p, k
  <2>3. SUFFICES /\ DOMAIN kcp' = Ends /\ DOMAIN net' = Ends /\ called' \in [Ends -> Nat]
                 /\ DOMAIN sent' = Ends /\ DOMAIN rcvd' = Ends
                 /\ Pair(kcp'[e], kcp'[p], net'[p], net'[e], sent'[e], rcvd'[p], sent'[p],
                         rcvd'[e], Bytes)
    <3>1. ASSUME Pair(kcp'[e], kcp'[p], net'[p], net'[e], sent'[e], rcvd'[p], sent'[p],
                      rcvd'[e], Bytes)
          PROVE  \A x \in Ends : Talking(kcp', net', sent', rcvd', x)
      <4>1. Talking(kcp', net', sent', rcvd', e)
        BY <3>1 DEF Talking, p
      <4> QED
        BY <4>1, TalkingBoth
    <3> QED
      BY <3>1 DEF Kept
  <2>4. CASE Send(e)
    <3> DEFINE msg == Message(e, called[e] + 1)
               N == IF SendFits(msg) THEN Append(sent[e], msg) ELSE sent[e]
    <3>1. /\ called[e] < Len(Calls[e])
          /\ kcp' = [kcp EXCEPT ![e] = IkcpSend(k, msg)]
          /\ sent' = [sent EXCEPT ![e] = N]
          /\ called' = [called EXCEPT ![e] = called[e] + 1]
          /\ UNCHANGED <<net, rcvd>>
      BY <2>4 DEF Send, k
    <3>2. called[e] + 1 \in 1..Len(Calls[e])
      <4>1. Calls[e] \in Seq(Nat) /\ called[e] \in Nat
        BY <1>1, KcpAssumption
      <4>2. Len(Calls[e]) \in Nat
        BY <4>1, LenProperties
      <4> QED
        BY <3>1, <4>1, <4>2
    <3>3. msg \in Seq(Bytes)
      BY <3>2, MessageType
    <3> HIDE DEF msg
    <3>4. Pair(IkcpSend(k, msg), kcp[p], net[p], net[e], N, rcvd[p], sent[p], rcvd[e], Bytes)
      BY <2>2, <3>3, PairSends
    <3> HIDE DEF N
    <3>5. /\ kcp'[e] = IkcpSend(k, msg) /\ kcp'[p] = kcp[p] /\ sent'[e] = N
          /\ sent'[p] = sent[p] /\ net' = net /\ rcvd' = rcvd
      BY <1>1, <2>1, <3>1
    <3>6. called' \in [Ends -> Nat] /\ DOMAIN kcp' = Ends /\ DOMAIN sent' = Ends
      BY <1>1, <3>1
    <3> QED
      BY <1>1, <3>4, <3>5, <3>6
  <2>5. CASE Recv(e)
    <3>1. /\ CanRecv(k, BufLen)
          /\ rcvd' = [rcvd EXCEPT ![e] = Append(rcvd[e], Received(k))]
          /\ kcp' = [kcp EXCEPT ![e] = IkcpRecv(k)]
          /\ UNCHANGED <<net, called, sent>>
      BY <2>5 DEF Recv, k
    <3>2. PeekCount(k) > 0
      BY <3>1 DEF CanRecv
    <3>3. Pair(IkcpRecv(k), kcp[p], net[p], net[e], sent[e], rcvd[p], sent[p],
               Append(rcvd[e], Received(k)), Bytes)
      BY <2>2, <3>2, PairReceives
    <3>4. /\ kcp'[e] = IkcpRecv(k) /\ kcp'[p] = kcp[p] /\ rcvd'[p] = rcvd[p]
          /\ rcvd'[e] = Append(rcvd[e], Received(k))
          /\ net' = net /\ called' = called /\ sent' = sent
          /\ DOMAIN kcp' = Ends /\ DOMAIN rcvd' = Ends
      BY <1>1, <2>1, <3>1
    <3> QED
      BY <1>1, <3>3, <3>4
  <2>6. CASE Update(e)
    <3>1. PICK due, probeDue : Flush(e, due, probeDue)
      BY <2>6 DEF Update
    <3> DEFINE out == net[p] \cup ToSet(Output(k, due, probeDue))
               l == Flushed(k, due, probeDue)
    <3>2. /\ net' = [net EXCEPT ![p] = out]
          /\ kcp' = [kcp EXCEPT ![e] = l]
          /\ UNCHANGED <<called, sent, rcvd>>
      BY <3>1 DEF Flush, k, p
    <3>3. Pair(l, kcp[p], out, net[e], sent[e], rcvd[p], sent[p], rcvd[e], Bytes)
      BY <2>2, PairFlushes
    <3> HIDE DEF out, l
    <3>4. /\ kcp'[e] = l /\ kcp'[p] = kcp[p] /\ net'[p] = out /\ net'[e] = net[e]
          /\ called' = called /\ sent' = sent /\ rcvd' = rcvd
          /\ DOMAIN kcp' = Ends /\ DOMAIN net' = Ends
      BY <1>1, <2>1, <3>2
    <3> QED
      BY <1>1, <3>3, <3>4
  <2>7. CASE Deliver(e) \/ Duplicate(e)
    <3>1. PICK d \in net[e], m \in SUBSET net[e] :
            /\ kcp' = [kcp EXCEPT ![e] = IkcpInput(k, d)]
            /\ net'[e] = m /\ net'[p] = net[p] /\ DOMAIN net' = Ends
            /\ UNCHANGED <<called, sent, rcvd>>
      <4>1. CASE Deliver(e)
        <5>1. PICK d \in net[e] : /\ kcp' = [kcp EXCEPT ![e] = IkcpInput(k, d)]
                                  /\ net' = [net EXCEPT ![e] = net[e] \ {d}]
                                  /\ UNCHANGED <<called, sent, rcvd>>
          BY <4>1 DEF Deliver, k
        <5>2. /\ net'[e] = net[e] \ {d} /\ net'[p] = net[p] /\ DOMAIN net' = Ends
              /\ net[e] \ {d} \in SUBSET net[e]
          BY <1>1, <2>1, <5>1
        <5> QED
          BY <5>1, <5>2
      <4>2. CASE Duplicate(e)
        <5>1. PICK d \in net[e] : /\ kcp' = [kcp EXCEPT ![e] = IkcpInput(k, d)]
                                  /\ net' = net
                                  /\ UNCHANGED <<called, sent, rcvd>>
          BY <4>2 DEF Duplicate, k
        <5>2. DOMAIN net' = Ends /\ net[e] \in SUBSET net[e]
          BY <1>1, <5>1
        <5> QED
          BY <5>1, <5>2
      <4> QED
        BY <2>7, <4>1, <4>2
    <3> DEFINE l == IkcpInput(k, d)
    <3>2. Pair(l, kcp[p], net[p], net[e], sent[e], rcvd[p], sent[p], rcvd[e], Bytes)
      BY <2>2, PairInputs
    <3> HIDE DEF l
    <3>3. net[p] \in SUBSET net[p]
      OBVIOUS
    <3>4. Pair(l, kcp[p], net[p], m, sent[e], rcvd[p], sent[p], rcvd[e], Bytes)
      BY <3>2, <3>3, PairFewer
    <3>5. /\ kcp'[e] = l /\ kcp'[p] = kcp[p] /\ net'[p] = net[p] /\ net'[e] = m
          /\ called' = called /\ sent' = sent /\ rcvd' = rcvd
          /\ DOMAIN kcp' = Ends /\ DOMAIN net' = Ends
      BY <1>1, <2>1, <3>1 DEF l
    <3> QED
      BY <1>1, <3>4, <3>5
  <2>8. CASE Lose(e)
    <3>1. PICK d \in net[e] : /\ net' = [net EXCEPT ![e] = net[e] \ {d}]
                              /\ UNCHANGED <<kcp, called, sent, rcvd>>
      BY <2>8 DEF Lose
    <3> DEFINE m == net[e] \ {d}
    <3>2. m \in SUBSET net[e] /\ net[p] \in SUBSET net[p]
      OBVIOUS
    <3> HIDE DEF m
    <3>3. Pair(k, kcp[p], net[p], m, sent[e], rcvd[p], sent[p], rcvd[e], Bytes)
      BY <2>2, <3>2, PairFewer
    <3>4. /\ kcp' = kcp /\ net'[p] = net[p] /\ net'[e] = m
          /\ called' = called /\ sent' = sent /\ rcvd' = rcvd /\ DOMAIN net' = Ends
      BY <1>1, <2>1, <3>1 DEF m
    <3> QED
      BY <1>1, <3>3, <3>4 DEF k
  <2> QED
    BY <1>3, <2>4, <2>5, <2>6, <2>7, <2>8
<1> QED
  BY <1>2, <1>3 DEF Next

(* The two directions of the conversation keep their invariant, whatever the   *)
(* network does.                                                               *)
THEOREM KcpInvariant == Spec => []KcpInv
<1>1. Init => KcpInv
  BY KcpStarts
<1>2. KcpInv /\ [Next]_vars => KcpInv'
  BY KcpContinues
<1> QED
  BY <1>1, <1>2, PTL DEF Spec

(* What ikcp_recv returns at one end is what ikcp_send took at the other:      *)
(* whole messages, each once, in order.                                        *)
THEOREM KcpDelivers == Spec => []MessagesInOrder
<1>1. KcpInv => MessagesInOrder
  <2> SUFFICES ASSUME KcpInv, NEW e \in Ends PROVE IsPrefix(rcvd[e], sent[Peer(e)])
    BY DEF MessagesInOrder
  <2>1. Pair(kcp[e], kcp[Peer(e)], net[Peer(e)], net[e], sent[e], rcvd[Peer(e)],
             sent[Peer(e)], rcvd[e], Bytes)
    BY DEF KcpInv, Kept, Talking
  <2>2. Pair(kcp[Peer(e)], kcp[e], net[e], net[Peer(e)], sent[Peer(e)], rcvd[e],
             sent[e], rcvd[Peer(e)], Bytes)
    BY <2>1, PairTurned
  <2> QED
    BY <2>2, PairSafe
<1> QED
  BY <1>1, KcpInvariant, PTL

(* A segment that ikcp_input took out of snd_buf is at the other end. *)
THEOREM KcpForgetsNothing == Spec => []AckedIsHeld
<1>1. KcpInv => AckedIsHeld
  <2> SUFFICES ASSUME KcpInv, NEW e \in Ends, NEW sn \in 0 .. kcp[e].snd_nxt - 1
               PROVE  \/ \E i \in DOMAIN kcp[e].snd_buf : kcp[e].snd_buf[i].sn = sn
                      \/ sn < kcp[Peer(e)].rcv_nxt
                      \/ \E i \in DOMAIN kcp[Peer(e)].rcv_buf :
                           kcp[Peer(e)].rcv_buf[i].sn = sn
    BY DEF AckedIsHeld
  <2> DEFINE k == kcp[e]
             p == kcp[Peer(e)]
  <2>1. Pair(k, p, net[Peer(e)], net[e], sent[e], rcvd[Peer(e)],
             sent[Peer(e)], rcvd[e], Bytes)
    BY DEF KcpInv, Kept, Talking
  <2>2. GoneIsHeld(k, p)
    BY <2>1, PairSafe
  <2>3. /\ k.snd_nxt \in Nat /\ k.snd_buf \in Seq(Buffered(Bytes))
        /\ p.rcv_buf \in Seq(Stored(Bytes))
    BY <2>1 DEF Pair, Blocks
  <2>4. sn \in Nat /\ sn < k.snd_nxt
    BY <2>3
  <2>5. InSndBuf(k, sn) \/ Holds(p, sn)
    BY <2>2, <2>4 DEF GoneIsHeld
  <2>6. DOMAIN k.snd_buf = 1..Len(k.snd_buf) /\ DOMAIN p.rcv_buf = 1..Len(p.rcv_buf)
    BY <2>3, LenProperties
  <2> QED
    BY <2>5, <2>6 DEF InSndBuf, Holds
<1> QED
  BY <1>1, KcpInvariant, PTL

-----------------------------------------------------------------------------
(* Conversations: KcpLayer *)

(* The bytes of KcpLayer's messages. *)
LayerBytes == Nodes \cup Nat
Messages == Seq(Seq(LayerBytes))

(* What connections_ holds. *)
Entries == [cb : Blocks(LayerBytes) \cup {None}, peer : Nodes \cup {NoAddr}]

(* The control block of n for c; one that is still to be made is a new one. *)
Cell(cn, n, c) == IF cn[n][c].cb = None THEN Create ELSE cn[n][c].cb

(* The payloads on their way from a to b on c. *)
Flight(u, a, b, c) ==
  {d.payload : d \in {x \in u : x.kind = "DATA" /\ x.from = a /\ x.to = b /\ x.conv = c}}

(* Both directions of conversation c between a and b. *)
Linked(cn, u, sd, hd, a, b, c) ==
  Pair(Cell(cn, a, c), Cell(cn, b, c), Flight(u, a, b, c), Flight(u, b, a, c),
       sd[a][c], hd[b][c], sd[b][c], hd[a][c], LayerBytes)

(* A datagram in flight belongs to a conversation the server made for the      *)
(* client at its other end; an ACK is the first the client hears of it.        *)
SynOK(d) == d.kind = "SYN" /\ d.from \in Clients /\ d.to = Server
HandshakeOK(d, cn, nx) ==
  /\ d.to \in Clients /\ d = [kind |-> "ACK", from |-> Server, to |-> d.to, conv |-> d.conv]
  /\ d.conv \in Nat /\ d.conv < nx[Server]
  /\ d.conv \in Convs => /\ cn[Server][d.conv].cb # None /\ cn[Server][d.conv].peer = d.to
                         /\ cn[d.to][d.conv].cb = None
PayloadOK(d, cn) ==
  /\ d.kind = "DATA" /\ d.conv \in Convs /\ cn[Server][d.conv].peer \in Clients
  /\ \/ d.from = Server /\ d.to = cn[Server][d.conv].peer
     \/ d.from = cn[Server][d.conv].peer /\ d.to = Server
DatagramOK(d, cn, nx) == SynOK(d) \/ HandshakeOK(d, cn, nx) \/ PayloadOK(d, cn)

(* The server numbers conversations upwards; a client has only those the       *)
(* server made for it, and knows no other address than the server's.           *)
ServerOK(cn, nx, c) ==
  /\ cn[Server][c].peer \in Clients \cup {NoAddr}
  /\ cn[Server][c].cb = None <=> cn[Server][c].peer = NoAddr
  /\ c >= nx[Server] => cn[Server][c].cb = None
ClientOK(cn, n, c) ==
  /\ cn[n][c].peer \in {NoAddr, Server}
  /\ cn[n][c].cb # None => cn[Server][c].cb # None /\ cn[Server][c].peer = n

(* All conversations, datagrams and ends together; a conversation made by the  *)
(* server is a Pair with its client, whose own entry may still be missing.      *)
Sound(cn, nx, u, sd, hd) ==
  /\ cn \in [Nodes -> [Convs -> Entries]]
  /\ nx \in [Nodes -> Nat] /\ \A n \in Clients : nx[n] = 1
  /\ sd \in [Nodes -> [Convs -> Messages]] /\ hd \in [Nodes -> [Convs -> Messages]]
  /\ \A d \in u : DatagramOK(d, cn, nx)
  /\ \A c \in Convs : ServerOK(cn, nx, c)
  /\ \A n \in Clients, c \in Convs : ClientOK(cn, n, c)
  /\ \A n \in Nodes, c \in Convs : cn[n][c].cb = None => sd[n][c] = <<>> /\ hd[n][c] = <<>>
  /\ \A n \in Clients, c \in Convs :
       cn[Server][c].peer = n => Linked(cn, u, sd, hd, Server, n, c)

(* The inductive invariant of KcpLayer. *)
LayerInv ==
  /\ Sound(conn, nextConv, udp, said, heard)
  /\ calls \in [Nodes -> [connect : Nat, send : Nat]]

(* g is f with the value at n and c set to v. *)
Put(f, n, c, v) == [f EXCEPT ![n][c] = v]
Changed(f, g, n, c, v) ==
  \A m \in Nodes, x \in Convs : g[m][x] = IF m = n /\ x = c THEN v ELSE f[m][x]

(* EXCEPT, also where c names no conversation. *)
LEMMA CellSet ==
  ASSUME NEW T, NEW f \in [Nodes -> [Convs -> T]], NEW n \in Nodes, NEW c, NEW v,
         c \in Convs => v \in T, NEW g, g = Put(f, n, c, v)
  PROVE  g \in [Nodes -> [Convs -> T]] /\ Changed(f, g, n, c, v)
<1> USE DEF Put
<1>1. Changed(f, g, n, c, v)
  BY DEF Changed
<1>2. g \in [Nodes -> [Convs -> T]]
  <2> DEFINE h == [f[n] EXCEPT ![c] = v]
  <2>1. h \in [Convs -> T]
    OBVIOUS
  <2>2. g = [f EXCEPT ![n] = h]
    OBVIOUS
  <2> HIDE DEF h
  <2> QED
    BY <2>1, <2>2
<1> QED
  BY <1>1, <1>2

(* There is a control block, or there is none. *)
LEMMA NoneFacts ==
  ASSUME NEW B, NEW k \in Blocks(B)
  PROVE  k # None
<1>1. DOMAIN None = {"absent"}
  BY DEF None
<1>2. "snd_una" \in DOMAIN k
  BY DEF Blocks
<1> QED
  BY <1>1, <1>2

(* The server is no client, and neither has the zero address. *)
LEMMA NodeFacts ==
  /\ Server \in Nodes /\ Clients \subseteq Nodes /\ Server \notin Clients
  /\ NoAddr \notin Nodes /\ NoAddr # Server /\ NoAddr \notin Clients
  /\ \A n \in Nodes : n = Server \/ n \in Clients
BY KcpLayerAssumption, NoAddrAssumption DEF Nodes

(* Messages are sequences of sequences of bytes. *)
LEMMA PairTypes ==
  ASSUME NEW B, NEW k, NEW p, NEW kp, NEW pk, NEW Mk, NEW Rp, NEW Mp, NEW Rk,
         Pair(k, p, kp, pk, Mk, Rp, Mp, Rk, B)
  PROVE  /\ k \in Blocks(B)
         /\ Mk \in Seq(Seq(B)) /\ Rp \in Seq(Seq(B)) /\ Mp \in Seq(Seq(B)) /\ Rk \in Seq(Seq(B))
<1>1. /\ k \in Blocks(B) /\ p \in Blocks(B)
      /\ Link(k, p, kp, pk, Mk, Rp, B) /\ Link(p, k, pk, kp, Mp, Rk, B)
  BY DEF Pair
<1>2. PICK all, w : LinkOver(all, w, k, p, kp, pk, Mk, Rp, B)
  BY <1>1, Zenon DEF Link
<1>3. PICK a, v : LinkOver(a, v, p, k, pk, kp, Mp, Rk, B)
  BY <1>1, Zenon DEF Link
<1> QED
  BY <1>1, <1>2, <1>3, LinkFacts

(* At the other end of n's conversation c. *)
Other(cn, n, c) == IF n = Server THEN cn[Server][c].peer ELSE Server

(* One of the two ends is the server, the other the client it was made for. *)
LEMMA OtherFacts ==
  ASSUME NEW cn, NEW nx, NEW u, NEW sd, NEW hd, Sound(cn, nx, u, sd, hd),
         NEW n \in Nodes, NEW c \in Convs, cn[n][c].cb # None
  PROVE  /\ Other(cn, n, c) \in Nodes /\ Other(cn, n, c) # n
         /\ \/ n = Server /\ Other(cn, n, c) \in Clients
               /\ cn[Server][c].peer = Other(cn, n, c)
            \/ n \in Clients /\ Other(cn, n, c) = Server /\ cn[Server][c].peer = n
         /\ cn[n][c].peer \in {NoAddr, Other(cn, n, c)}
         /\ Linked(cn, u, sd, hd, n, Other(cn, n, c), c)
<1> DEFINE o == Other(cn, n, c)
<1>1. /\ ServerOK(cn, nx, c)
      /\ \A m \in Clients : ClientOK(cn, m, c)
      /\ \A m \in Clients : cn[Server][c].peer = m => Linked(cn, u, sd, hd, Server, m, c)
  BY DEF Sound
<1>2. CASE n = Server
  <2>1. o = cn[Server][c].peer /\ o \in Clients
    BY <1>1, <1>2 DEF Other, ServerOK
  <2> QED
    BY <1>1, <1>2, <2>1, NodeFacts
<1>3. CASE n # Server
  <2>1. n \in Clients /\ o = Server
    BY <1>3, NodeFacts DEF Other
  <2>2. cn[Server][c].peer = n /\ cn[n][c].peer \in {NoAddr, Server}
    BY <1>1, <2>1 DEF ClientOK
  <2>3. Linked(cn, u, sd, hd, Server, n, c)
    BY <1>1, <2>1, <2>2
  <2>4. Linked(cn, u, sd, hd, n, Server, c)
    BY <2>3, PairTurned DEF Linked
  <2> QED
    BY <2>1, <2>2, <2>4, NodeFacts
<1> QED
  BY <1>2, <1>3

(* What is new in u2 are datagrams of n for o on c with a payload from O. *)
Adds(u, u2, n, o, c, O) ==
  \A d \in u2 : d \in u \/ /\ d.kind = "DATA" /\ d.from = n /\ d.to = o /\ d.conv = c
                           /\ d.payload \in O

(* New datagrams are in flight where they belong only. *)
LEMMA FlightAdds ==
  ASSUME NEW u, NEW u2, NEW n, NEW o, NEW c, NEW O, Adds(u, u2, n, o, c, O)
  PROVE  /\ Flight(u2, n, o, c) \in SUBSET (Flight(u, n, o, c) \cup O)
         /\ \A a, b, x : ~(a = n /\ b = o /\ x = c) =>
              Flight(u2, a, b, x) \in SUBSET Flight(u, a, b, x)
BY DEF Adds, Flight

(* A node with a control block for c gives it a new one, by a call that keeps  *)
(* the conversation in order: the others are not disturbed.                    *)
LEMMA CellStep ==
  ASSUME NEW cn, NEW nx, NEW u, NEW sd, NEW hd, Sound(cn, nx, u, sd, hd),
         NEW n \in Nodes, NEW c \in Convs, cn[n][c].cb # None,
         NEW l, NEW s2, NEW h2, NEW O,
         Pair(l, Cell(cn, Other(cn, n, c), c), Flight(u, n, Other(cn, n, c), c) \cup O,
              Flight(u, Other(cn, n, c), n, c), s2, hd[Other(cn, n, c)][c],
              sd[Other(cn, n, c)][c], h2, LayerBytes),
         NEW u2, Adds(u, u2, n, Other(cn, n, c), c, O),
         NEW cn2 \in [Nodes -> [Convs -> Entries]],
         Changed(cn, cn2, n, c, [cn[n][c] EXCEPT !.cb = l]),
         NEW sd2 \in [Nodes -> [Convs -> Messages]], Changed(sd, sd2, n, c, s2),
         NEW hd2 \in [Nodes -> [Convs -> Messages]], Changed(hd, hd2, n, c, h2)
  PROVE  Sound(cn2, nx, u2, sd2, hd2)
<1> DEFINE o == Other(cn, n, c)
<1>1. /\ o \in Nodes /\ o # n
      /\ \/ n = Server /\ o \in Clients /\ cn[Server][c].peer = o
         \/ n \in Clients /\ o = Server /\ cn[Server][c].peer = n
  BY OtherFacts
<1>2. /\ cn \in [Nodes -> [Convs -> Entries]]
      /\ nx \in [Nodes -> Nat] /\ \A m \in Clients : nx[m] = 1
      /\ \A d \in u : DatagramOK(d, cn, nx)
      /\ \A x \in Convs : ServerOK(cn, nx, x)
      /\ \A m \in Clients, x \in Convs : ClientOK(cn, m, x)
      /\ \A m \in Nodes, x \in Convs : cn[m][x].cb = None => sd[m][x] = <<>> /\ hd[m][x] = <<>>
      /\ \A m \in Clients, x \in Convs :
           cn[Server][x].peer = m => Linked(cn, u, sd, hd, Server, m, x)
  BY DEF Sound
<1>3. l # None
  BY PairTypes, NoneFacts
<1>4. /\ Pair(l, Cell(cn, o, c), Flight(u, n, o, c) \cup O, Flight(u, o, n, c), s2, hd[o][c],
              sd[o][c], h2, LayerBytes)
      /\ Adds(u, u2, n, o, c, O)
  OBVIOUS
<1> HIDE DEF o
<1>5. ASSUME NEW m \in Nodes, NEW x \in Convs
      PROVE  /\ cn2[m][x].peer = cn[m][x].peer
             /\ cn2[m][x].cb = IF m = n /\ x = c THEN l ELSE cn[m][x].cb
  <2>1. cn[m][x] \in Entries
    BY <1>2
  <2>2. CASE m = n /\ x = c
    BY <2>1, <2>2 DEF Changed, Entries
  <2>3. CASE ~(m = n /\ x = c)
    BY <2>3 DEF Changed
  <2> QED
    BY <2>2, <2>3
<1>6. ASSUME NEW m \in Nodes, NEW x \in Convs
      PROVE  cn2[m][x].cb = None <=> cn[m][x].cb = None
  BY <1>3, <1>5
<1>7. ASSUME NEW m \in Nodes, NEW x \in Convs
      PROVE  Cell(cn2, m, x) = IF m = n /\ x = c THEN l ELSE Cell(cn, m, x)
  BY <1>3, <1>5 DEF Cell
<1>8. \A d \in u2 : DatagramOK(d, cn2, nx)
  <2> TAKE d \in u2
  <2>1. ASSUME d \in u PROVE DatagramOK(d, cn2, nx)
    <3>1. CASE SynOK(d)
      BY <3>1 DEF DatagramOK
    <3>2. CASE HandshakeOK(d, cn, nx)
      <4>1. HandshakeOK(d, cn2, nx)
        BY <1>5, <1>6, <3>2, NodeFacts DEF HandshakeOK
      <4> QED
        BY <4>1 DEF DatagramOK
    <3>3. CASE PayloadOK(d, cn)
      <4>1. PayloadOK(d, cn2)
        BY <1>5, <3>3, NodeFacts DEF PayloadOK
      <4> QED
        BY <4>1 DEF DatagramOK
    <3> QED
      BY <1>2, <2>1, <3>1, <3>2, <3>3 DEF DatagramOK
  <2>2. ASSUME d.kind = "DATA", d.from = n, d.to = o, d.conv = c PROVE DatagramOK(d, cn2, nx)
    <3>1. cn2[Server][c].peer = cn[Server][c].peer
      BY <1>5, NodeFacts
    <3>2. PayloadOK(d, cn2)
      BY <1>1, <2>2, <3>1 DEF PayloadOK
    <3> QED
      BY <3>2 DEF DatagramOK
  <2> QED
    BY <1>4, <2>1, <2>2 DEF Adds
<1>9. \A x \in Convs : ServerOK(cn2, nx, x)
  BY <1>2, <1>5, <1>6, NodeFacts DEF ServerOK
<1>10. \A m \in Clients, x \in Convs : ClientOK(cn2, m, x)
  <2> TAKE m \in Clients, x \in Convs
  <2>1. m \in Nodes /\ Server \in Nodes
    BY NodeFacts
  <2>2. ClientOK(cn, m, x)
    BY <1>2
  <2> QED
    BY <1>5, <1>6, <2>1, <2>2 DEF ClientOK
<1>11. \A m \in Nodes, x \in Convs :
         cn2[m][x].cb = None => sd2[m][x] = <<>> /\ hd2[m][x] = <<>>
  <2> TAKE m \in Nodes, x \in Convs
  <2> HAVE cn2[m][x].cb = None
  <2>1. cn[m][x].cb = None /\ ~(m = n /\ x = c)
    BY <1>6
  <2>2. sd2[m][x] = sd[m][x] /\ hd2[m][x] = hd[m][x]
    BY <2>1 DEF Changed
  <2>3. sd[m][x] = <<>> /\ hd[m][x] = <<>>
    BY <1>2, <2>1
  <2> QED
    BY <2>2, <2>3
<1>12. ASSUME NEW m \in Clients, NEW x \in Convs, cn2[Server][x].peer = m
       PROVE  Linked(cn2, u2, sd2, hd2, Server, m, x)
  <2>1. m \in Nodes /\ Server \in Nodes /\ cn[Server][x].peer = m
    BY <1>5, <1>12, NodeFacts
  <2>2. /\ Flight(u2, n, o, c) \in SUBSET (Flight(u, n, o, c) \cup O)
        /\ \A a, b, y : ~(a = n /\ b = o /\ y = c) =>
              Flight(u2, a, b, y) \in SUBSET Flight(u, a, b, y)
    BY <1>4, FlightAdds
  <2>3. CASE x # c
    <3>1. Pair(Cell(cn, Server, x), Cell(cn, m, x), Flight(u, Server, m, x),
               Flight(u, m, Server, x), sd[Server][x], hd[m][x], sd[m][x], hd[Server][x],
               LayerBytes)
      BY <1>2, <2>1 DEF Linked
    <3>2. /\ Cell(cn2, Server, x) = Cell(cn, Server, x) /\ Cell(cn2, m, x) = Cell(cn, m, x)
          /\ sd2[Server][x] = sd[Server][x] /\ sd2[m][x] = sd[m][x]
          /\ hd2[Server][x] = hd[Server][x] /\ hd2[m][x] = hd[m][x]
      BY <1>7, <2>1, <2>3 DEF Changed
    <3>3. /\ Flight(u2, Server, m, x) \in SUBSET Flight(u, Server, m, x)
          /\ Flight(u2, m, Server, x) \in SUBSET Flight(u, m, Server, x)
      BY <2>2, <2>3
    <3>4. Pair(Cell(cn, Server, x), Cell(cn, m, x), Flight(u2, Server, m, x),
               Flight(u2, m, Server, x), sd[Server][x], hd[m][x], sd[m][x], hd[Server][x],
               LayerBytes)
      BY <3>1, <3>3, PairFewer
    <3> QED
      BY <3>2, <3>4 DEF Linked
  <2>4. CASE x = c
    <3>1. /\ Flight(u2, n, o, c) \in SUBSET (Flight(u, n, o, c) \cup O)
          /\ Flight(u2, o, n, c) \in SUBSET Flight(u, o, n, c)
      BY <1>1, <2>2
    <3>2. Pair(l, Cell(cn, o, c), Flight(u2, n, o, c), Flight(u2, o, n, c), s2, hd[o][c],
               sd[o][c], h2, LayerBytes)
      BY <1>4, <3>1, PairFewer
    <3>3. /\ Cell(cn2, n, c) = l /\ Cell(cn2, o, c) = Cell(cn, o, c)
          /\ sd2[n][c] = s2 /\ sd2[o][c] = sd[o][c]
          /\ hd2[n][c] = h2 /\ hd2[o][c] = hd[o][c]
      BY <1>1, <1>7 DEF Changed
    <3>4. Linked(cn2, u2, sd2, hd2, n, o, c)
      BY <3>2, <3>3 DEF Linked
    <3>5. Linked(cn2, u2, sd2, hd2, o, n, c)
      BY <3>4, PairTurned DEF Linked
    <3>6. (n = Server /\ o = m) \/ (n = m /\ o = Server)
      BY <1>1, <2>1, <2>4
    <3> QED
      BY <2>4, <3>4, <3>5, <3>6
  <2> QED
    BY <2>3, <2>4
<1> QED
  BY <1>2, <1>8, <1>9, <1>10, <1>11, <1>12 DEF Sound

(* conn with another control block for n and c. *)
LEMMA BlockSet ==
  ASSUME NEW cn \in [Nodes -> [Convs -> Entries]], NEW n \in Nodes, NEW c \in Convs,
         NEW l \in Blocks(LayerBytes), NEW cn2, cn2 = [cn EXCEPT ![n][c].cb = l]
  PROVE  /\ cn2 \in [Nodes -> [Convs -> Entries]]
         /\ Changed(cn, cn2, n, c, [cn[n][c] EXCEPT !.cb = l])
<1> DEFINE v == [cn[n][c] EXCEPT !.cb = l]
<1>1. cn[n][c] \in Entries
  OBVIOUS
<1>2. v \in Entries
  BY <1>1 DEF Entries
<1>3. cn2 = Put(cn, n, c, v)
  BY DEF Put
<1> HIDE DEF v
<1>4. cn2 \in [Nodes -> [Convs -> Entries]] /\ Changed(cn, cn2, n, c, v)
  BY <1>2, <1>3, CellSet
<1> QED
  BY <1>4 DEF v

(* kcpUpdate on a control block that the user or a datagram just changed. *)
LEMMA UpdateStep ==
  ASSUME Sound(conn, nextConv, udp, said, heard),
         NEW n \in Nodes, NEW c \in Convs, conn[n][c].cb # None,
         NEW cb, NEW s2, NEW h2,
         Pair(cb, Cell(conn, Other(conn, n, c), c), Flight(udp, n, Other(conn, n, c), c),
              Flight(udp, Other(conn, n, c), n, c), s2, heard[Other(conn, n, c)][c],
              said[Other(conn, n, c)][c], h2, LayerBytes),
         NEW base \in SUBSET udp, KcpUpdate(n, c, cb, base),
         NEW sd2 \in [Nodes -> [Convs -> Messages]], Changed(said, sd2, n, c, s2),
         NEW hd2 \in [Nodes -> [Convs -> Messages]], Changed(heard, hd2, n, c, h2)
  PROVE  Sound(conn', nextConv, udp', sd2, hd2)
<1> DEFINE o == Other(conn, n, c)
           kp == Flight(udp, n, o, c)
           pk == Flight(udp, o, n, c)
<1>1. conn[n][c].peer \in {NoAddr, o}
  BY OtherFacts
<1>2. conn \in [Nodes -> [Convs -> Entries]]
  BY DEF Sound
<1>3. Pair(cb, Cell(conn, o, c), kp, pk, s2, heard[o][c], said[o][c], h2, LayerBytes)
  OBVIOUS
<1>4. ASSUME NEW l, NEW O,
             Pair(l, Cell(conn, o, c), kp \cup O, pk, s2, heard[o][c], said[o][c], h2, LayerBytes),
             conn' = [conn EXCEPT ![n][c].cb = l], Adds(udp, udp', n, o, c, O)
      PROVE  Sound(conn', nextConv, udp', sd2, hd2)
  <2>1. l \in Blocks(LayerBytes)
    BY <1>4, PairTypes
  <2>2. /\ conn' \in [Nodes -> [Convs -> Entries]]
        /\ Changed(conn, conn', n, c, [conn[n][c] EXCEPT !.cb = l])
    BY <1>2, <1>4, <2>1, BlockSet
  <2> QED
    BY <1>4, <2>2, CellStep
<1>5. CASE conn' = [conn EXCEPT ![n][c].cb = cb] /\ udp' = base
  <2>1. kp \cup {} = kp
    OBVIOUS
  <2>2. Pair(cb, Cell(conn, o, c), kp \cup {}, pk, s2, heard[o][c], said[o][c], h2, LayerBytes)
    BY <1>3, <2>1
  <2>3. Adds(udp, udp', n, o, c, {})
    BY <1>5 DEF Adds
  <2> QED
    BY <1>4, <1>5, <2>2, <2>3
<1>6. ASSUME NEW due, NEW probeDue,
             conn' = [conn EXCEPT ![n][c].cb = Flushed(cb, due, probeDue)],
             udp' = base \cup Datagrams(n, c, conn[n][c].peer, Output(cb, due, probeDue))
      PROVE  Sound(conn', nextConv, udp', sd2, hd2)
  <2> DEFINE l == Flushed(cb, due, probeDue)
             O == ToSet(Output(cb, due, probeDue))
  <2>1. Pair(l, Cell(conn, o, c), kp \cup O, pk, s2, heard[o][c], said[o][c], h2, LayerBytes)
    BY <1>3, PairFlushes
  <2>2. Adds(udp, udp', n, o, c, O)
    <3>1. ASSUME NEW d \in Datagrams(n, c, conn[n][c].peer, Output(cb, due, probeDue))
          PROVE  /\ d.kind = "DATA" /\ d.from = n /\ d.to = o /\ d.conv = c
                 /\ d.payload \in O
      BY <1>1 DEF Datagrams
    <3> QED
      BY <1>6, <3>1 DEF Adds
  <2> HIDE DEF l, O
  <2>3. conn' = [conn EXCEPT ![n][c].cb = l]
    BY <1>6 DEF l
  <2> QED
    BY <1>4, <2>1, <2>2, <2>3
<1> QED
  BY <1>5, <1>6 DEF KcpUpdate

(* KcpServer::send and KcpClient::send. *)
LEMMA UserSends ==
  ASSUME LayerInv, NEW n \in Nodes, UserSend(n)
  PROVE  LayerInv'
<1> DEFINE c == curConv[n]
           msg == <<n, calls[n].send>>
<1>0. SUFFICES /\ Sound(conn', nextConv', udp', said', heard')
               /\ calls' \in [Nodes -> [connect : Nat, send : Nat]]
  BY DEF LayerInv
<1>1. Sound(conn, nextConv, udp, said, heard) /\ calls \in [Nodes -> [connect : Nat, send : Nat]]
  BY DEF LayerInv
<1>2. CASE Usable(n, c)
  <2> DEFINE k == conn[n][c].cb
             o == Other(conn, n, c)
             s2 == IF SendFits(msg) THEN Append(said[n][c], msg) ELSE said[n][c]
  <2>1. /\ KcpUpdate(n, c, IkcpSend(k, msg), udp)
        /\ said' = [said EXCEPT ![n][c] = s2]
        /\ calls' = [calls EXCEPT ![n].send = calls[n].send + 1]
        /\ UNCHANGED <<nextConv, heard>>
    BY <1>2 DEF UserSend
  <2>2. c \in Convs /\ k # None
    BY <1>2 DEF Usable
  <2>3. calls' \in [Nodes -> [connect : Nat, send : Nat]]
    <3> DEFINE r == [calls[n] EXCEPT !.send = calls[n].send + 1]
    <3>1. calls[n] \in [connect : Nat, send : Nat]
      BY <1>1
    <3>2. r \in [connect : Nat, send : Nat]
      BY <3>1
    <3>3. calls' = [calls EXCEPT ![n] = r]
      BY <2>1
    <3> HIDE DEF r
    <3> QED
      BY <1>1, <3>2, <3>3
  <2>4. msg \in Seq(LayerBytes)
    <3>1. calls[n].send \in Nat
      BY <1>1
    <3>2. n \in LayerBytes /\ calls[n].send \in LayerBytes
      BY <3>1 DEF LayerBytes
    <3> QED
      BY <3>2
  <2> HIDE DEF msg, c
  <2>5. Linked(conn, udp, said, heard, n, o, c)
    BY <1>1, <2>2, OtherFacts
  <2>6. Cell(conn, n, c) = k
    BY <2>2 DEF Cell
  <2>7. Pair(k, Cell(conn, o, c), Flight(udp, n, o, c), Flight(udp, o, n, c), said[n][c],
             heard[o][c], said[o][c], heard[n][c], LayerBytes)
    BY <2>5, <2>6 DEF Linked
  <2> HIDE DEF k
  <2>8. Pair(IkcpSend(k, msg), Cell(conn, o, c), Flight(udp, n, o, c), Flight(udp, o, n, c), s2,
             heard[o][c], said[o][c], heard[n][c], LayerBytes)
    BY <2>4, <2>7, PairSends
  <2> HIDE DEF s2
  <2>9. s2 \in Messages /\ heard[n][c] \in Messages
    BY <2>8, PairTypes DEF Messages
  <2>10. said \in [Nodes -> [Convs -> Messages]] /\ heard \in [Nodes -> [Convs -> Messages]]
    BY <1>1 DEF Sound
  <2>11. said' \in [Nodes -> [Convs -> Messages]] /\ Changed(said, said', n, c, s2)
    <3>1. said' = Put(said, n, c, s2)
      BY <2>1 DEF Put
    <3> QED
      BY <2>9, <2>10, <3>1, CellSet
  <2>12. heard' = heard /\ Changed(heard, heard, n, c, heard[n][c])
    BY <2>1 DEF Changed
  <2>13. conn[n][c].cb # None /\ udp \in SUBSET udp
    BY <2>2 DEF k
  <2>14. Sound(conn', nextConv, udp', said', heard)
    BY <1>1, <2>1, <2>2, <2>8, <2>10, <2>11, <2>12, <2>13, UpdateStep
  <2> QED
    BY <2>1, <2>3, <2>12, <2>14
<1>3. CASE ~Usable(n, c)
  <2>1. UNCHANGED <<conn, nextConv, calls, said, heard, udp>>
    BY <1>3 DEF UserSend, Crash
  <2> QED
    BY <1>1, <2>1
<1> QED
  BY <1>2, <1>3

(* KcpServer::handleRead and KcpClient::handleRead. *)
LEMMA UserReceives ==
  ASSUME LayerInv, NEW n \in Nodes, HandleData(n)
  PROVE  LayerInv'
<1> DEFINE c == dataFd[n]
           k == conn[n][c].cb
<1>0. SUFFICES /\ Sound(conn', nextConv', udp', said', heard')
               /\ calls' \in [Nodes -> [connect : Nat, send : Nat]]
  BY DEF LayerInv
<1>1. Sound(conn, nextConv, udp, said, heard) /\ calls \in [Nodes -> [connect : Nat, send : Nat]]
  BY DEF LayerInv
<1>2. CASE Usable(n, c) /\ CanRecv(k, DatagramLen)
  <2> DEFINE o == Other(conn, n, c)
             h2 == Append(heard[n][c], Received(k))
             l == IkcpRecv(k)
  <2>1. /\ heard' = [heard EXCEPT ![n][c] = h2]
        /\ conn' = [conn EXCEPT ![n][c].cb = l]
        /\ UNCHANGED <<nextConv, said, udp, calls>>
    BY <1>2 DEF HandleData
  <2>2. c \in Convs /\ k # None /\ PeekCount(k) > 0
    BY <1>2 DEF Usable, CanRecv
  <2> HIDE DEF c
  <2>3. Linked(conn, udp, said, heard, n, o, c)
    BY <1>1, <2>2, OtherFacts
  <2>4. Cell(conn, n, c) = k
    BY <2>2 DEF Cell
  <2>5. Pair(k, Cell(conn, o, c), Flight(udp, n, o, c), Flight(udp, o, n, c), said[n][c],
             heard[o][c], said[o][c], heard[n][c], LayerBytes)
    BY <2>3, <2>4 DEF Linked
  <2> HIDE DEF k
  <2>6. Pair(l, Cell(conn, o, c), Flight(udp, n, o, c), Flight(udp, o, n, c), said[n][c],
             heard[o][c], said[o][c], h2, LayerBytes)
    BY <2>2, <2>5, PairReceives
  <2> HIDE DEF h2, l
  <2>7. l \in Blocks(LayerBytes) /\ h2 \in Messages
    BY <2>6, PairTypes DEF Messages
  <2>8. /\ said \in [Nodes -> [Convs -> Messages]] /\ heard \in [Nodes -> [Convs -> Messages]]
        /\ conn \in [Nodes -> [Convs -> Entries]]
    BY <1>1 DEF Sound
  <2>9. heard' \in [Nodes -> [Convs -> Messages]] /\ Changed(heard, heard', n, c, h2)
    <3>1. heard' = Put(heard, n, c, h2)
      BY <2>1 DEF Put
    <3> QED
      BY <2>7, <2>8, <3>1, CellSet
  <2>10. /\ conn' \in [Nodes -> [Convs -> Entries]]
         /\ Changed(conn, conn', n, c, [conn[n][c] EXCEPT !.cb = l])
    BY <2>1, <2>2, <2>7, <2>8, BlockSet
  <2>11. Changed(said, said, n, c, said[n][c]) /\ Adds(udp, udp, n, o, c, {})
    BY DEF Changed, Adds
  <2>12. conn[n][c].cb # None
    BY <2>2 DEF k
  <2>13. Flight(udp, n, o, c) \cup {} = Flight(udp, n, o, c)
    OBVIOUS
  <2>14. Pair(l, Cell(conn, o, c), Flight(udp, n, o, c) \cup {}, Flight(udp, o, n, c), said[n][c],
              heard[o][c], said[o][c], h2, LayerBytes)
    BY <2>6, <2>13
  <2>15. Sound(conn', nextConv, udp, said, heard')
    BY <1>1, <2>2, <2>8, <2>9, <2>10, <2>11, <2>12, <2>14, CellStep
  <2> QED
    BY <1>1, <2>1, <2>15
<1>3. CASE ~(Usable(n, c) /\ CanRecv(k, DatagramLen))
  <2>1. UNCHANGED <<conn, nextConv, calls, said, heard, udp>>
    BY <1>3 DEF HandleData, Crash
  <2> QED
    BY <1>1, <2>1
<1> QED
  BY <1>2, <1>3

(* Conversations are numbered. *)
LEMMA ConvFacts ==
  ASSUME NEW c \in Convs
  PROVE  c \in Nat
BY DEF Convs

(* Datagrams that get lost, and SYNs, disturb no conversation. *)
LEMMA SoundFewer ==
  ASSUME NEW cn, NEW nx, NEW u, NEW sd, NEW hd, Sound(cn, nx, u, sd, hd),
         NEW u2, \A d \in u2 : d \in u \/ SynOK(d)
  PROVE  Sound(cn, nx, u2, sd, hd)
<1>1. \A d \in u2 : DatagramOK(d, cn, nx)
  BY DEF Sound, DatagramOK
<1>2. \A a, b, x : Flight(u2, a, b, x) \in SUBSET Flight(u, a, b, x)
  BY DEF Flight, SynOK
<1>3. ASSUME NEW n \in Clients, NEW c \in Convs, cn[Server][c].peer = n
      PROVE  Linked(cn, u2, sd, hd, Server, n, c)
  <2>1. Linked(cn, u, sd, hd, Server, n, c)
    BY <1>3 DEF Sound
  <2> QED
    BY <1>2, <2>1, PairFewer DEF Linked
<1> QED
  BY <1>1, <1>3 DEF Sound

(* A SYN makes a conversation that nobody has used. *)
LEMMA SynStep ==
  ASSUME NEW cn, NEW nx, NEW u, NEW sd, NEW hd, Sound(cn, nx, u, sd, hd),
         NEW m \in Clients, NEW c, c = nx[Server],
         NEW cn2 \in [Nodes -> [Convs -> Entries]],
         Changed(cn, cn2, Server, c, [cb |-> Create, peer |-> m]),
         NEW nx2, nx2 = [nx EXCEPT ![Server] = c + 1],
         NEW u2,
         \A d \in u2 : d \in u \/ d = [kind |-> "ACK", from |-> Server, to |-> m, conv |-> c]
  PROVE  Sound(cn2, nx2, u2, sd, hd)
<1>1. /\ cn \in [Nodes -> [Convs -> Entries]]
      /\ nx \in [Nodes -> Nat] /\ \A n \in Clients : nx[n] = 1
      /\ sd \in [Nodes -> [Convs -> Messages]] /\ hd \in [Nodes -> [Convs -> Messages]]
      /\ \A d \in u : DatagramOK(d, cn, nx)
      /\ \A x \in Convs : ServerOK(cn, nx, x)
      /\ \A n \in Clients, x \in Convs : ClientOK(cn, n, x)
      /\ \A n \in Nodes, x \in Convs : cn[n][x].cb = None => sd[n][x] = <<>> /\ hd[n][x] = <<>>
      /\ \A n \in Clients, x \in Convs :
           cn[Server][x].peer = n => Linked(cn, u, sd, hd, Server, n, x)
  BY DEF Sound
<1>2. Create # None
  <2>1. Create \in Blocks(LayerBytes)
    BY PairCreate DEF Pair
  <2> QED
    BY <2>1, NoneFacts
<1>3. c \in Nat /\ m \in Nodes /\ m # NoAddr /\ m # Server /\ Server \in Nodes
  BY <1>1, NodeFacts
<1>4. ASSUME c \in Convs
      PROVE  /\ cn[Server][c].cb = None /\ cn[Server][c].peer = NoAddr
             /\ \A n \in Nodes : cn[n][c].cb = None
  <2>1. c >= nx[Server]
    BY <1>3
  <2>2. cn[Server][c].cb = None /\ cn[Server][c].peer = NoAddr
    BY <1>1, <1>4, <2>1 DEF ServerOK
  <2>3. ASSUME NEW n \in Clients PROVE cn[n][c].cb = None
    BY <1>1, <1>4, <2>2 DEF ClientOK
  <2> QED
    BY <2>2, <2>3, NodeFacts
<1>5. /\ \A n \in Nodes, x \in Convs : ~(n = Server /\ x = c) => cn2[n][x] = cn[n][x]
      /\ c \in Convs => cn2[Server][c].cb = Create /\ cn2[Server][c].peer = m
  BY <1>3 DEF Changed
<1>6. nx2 \in [Nodes -> Nat] /\ nx2[Server] = c + 1 /\ \A n \in Clients : nx2[n] = 1
  BY <1>1, <1>3, NodeFacts
<1>7. \A d \in u2 : DatagramOK(d, cn2, nx2)
  <2> TAKE d \in u2
  <2>1. ASSUME d \in u PROVE DatagramOK(d, cn2, nx2)
    <3>1. CASE SynOK(d)
      BY <3>1 DEF DatagramOK
    <3>2. CASE HandshakeOK(d, cn, nx)
      <4>1. d.conv \in Nat /\ d.conv < c /\ d.to \in Clients
        BY <3>2 DEF HandshakeOK
      <4>2. d.conv < c + 1 /\ d.conv # c
        BY <1>3, <4>1
      <4>3. d.conv \in Convs =>
              cn2[Server][d.conv] = cn[Server][d.conv] /\ cn2[d.to][d.conv] = cn[d.to][d.conv]
        BY <1>3, <1>5, <4>1, <4>2, NodeFacts
      <4>4. HandshakeOK(d, cn2, nx2)
        BY <1>6, <3>2, <4>2, <4>3 DEF HandshakeOK
      <4> QED
        BY <4>4 DEF DatagramOK
    <3>3. CASE PayloadOK(d, cn)
      <4>1. d.conv \in Convs /\ d.conv # c
        BY <1>4, <3>3, NodeFacts DEF PayloadOK
      <4>2. cn2[Server][d.conv] = cn[Server][d.conv]
        BY <1>3, <1>5, <4>1
      <4>3. PayloadOK(d, cn2)
        BY <3>3, <4>2 DEF PayloadOK
      <4> QED
        BY <4>3 DEF DatagramOK
    <3> QED
      BY <1>1, <2>1, <3>1, <3>2, <3>3 DEF DatagramOK
  <2>2. ASSUME d = [kind |-> "ACK", from |-> Server, to |-> m, conv |-> c]
        PROVE  DatagramOK(d, cn2, nx2)
    <3>1. d.to = m /\ d.conv = c
      BY <2>2
    <3>2. c < c + 1
      BY <1>3
    <3>3. c \in Convs => cn2[m][c].cb = None
      BY <1>3, <1>4, <1>5
    <3>4. HandshakeOK(d, cn2, nx2)
      BY <1>2, <1>3, <1>5, <1>6, <2>2, <3>1, <3>2, <3>3 DEF HandshakeOK
    <3> QED
      BY <3>4 DEF DatagramOK
  <2> QED
    BY <2>1, <2>2
<1>8. ASSUME NEW x \in Convs PROVE ServerOK(cn2, nx2, x)
  <2>1. CASE x = c
    <3>1. ~(c >= c + 1)
      BY <1>3
    <3> QED
      BY <1>2, <1>3, <1>5, <1>6, <2>1, <3>1 DEF ServerOK
  <2>2. CASE x # c
    <3>1. cn2[Server][x] = cn[Server][x]
      BY <1>3, <1>5, <2>2
    <3>2. x >= c + 1 => x >= nx[Server]
      BY <1>3, ConvFacts
    <3>3. ServerOK(cn, nx, x)
      BY <1>1
    <3> QED
      BY <1>6, <3>1, <3>2, <3>3 DEF ServerOK
  <2> QED
    BY <2>1, <2>2
<1>9. ASSUME NEW n \in Clients, NEW x \in Convs PROVE ClientOK(cn2, n, x)
  <2>1. n \in Nodes /\ n # Server
    BY NodeFacts
  <2>2. cn2[n][x] = cn[n][x] /\ ClientOK(cn, n, x)
    BY <1>1, <1>5, <2>1
  <2>3. CASE x = c
    BY <1>4, <2>1, <2>2, <2>3 DEF ClientOK
  <2>4. CASE x # c
    <3>1. cn2[Server][x] = cn[Server][x]
      BY <1>3, <1>5, <2>4
    <3> QED
      BY <2>2, <3>1 DEF ClientOK
  <2> QED
    BY <2>3, <2>4
<1>10. ASSUME NEW n \in Nodes, NEW x \in Convs, cn2[n][x].cb = None
       PROVE  sd[n][x] = <<>> /\ hd[n][x] = <<>>
  <2>1. cn2[n][x] = cn[n][x]
    BY <1>2, <1>5, <1>10
  <2> QED
    BY <1>1, <1>10, <2>1
<1>11. \A a, b, x : Flight(u2, a, b, x) \in SUBSET Flight(u, a, b, x)
  BY DEF Flight
<1>12. ASSUME NEW n \in Clients, NEW x \in Convs, cn2[Server][x].peer = n
       PROVE  Linked(cn2, u2, sd, hd, Server, n, x)
  <2>1. n \in Nodes /\ n # Server
    BY NodeFacts
  <2>2. CASE x = c
    <3>1. n = m /\ Cell(cn2, Server, x) = Create /\ Cell(cn2, n, x) = Create
      BY <1>2, <1>3, <1>4, <1>5, <1>12, <2>1, <2>2 DEF Cell
    <3>2. /\ sd[Server][x] = <<>> /\ hd[Server][x] = <<>>
          /\ sd[n][x] = <<>> /\ hd[n][x] = <<>>
      BY <1>1, <1>3, <1>4, <2>1, <2>2
    <3>3. \A d \in u : ~(d.kind = "DATA" /\ d.conv = c)
      <4> SUFFICES ASSUME NEW d \in u, d.kind = "DATA", d.conv = c PROVE FALSE
        OBVIOUS
      <4>1. PayloadOK(d, cn)
        BY <1>1 DEF DatagramOK, SynOK, HandshakeOK
      <4> QED
        BY <1>4, <4>1, NodeFacts DEF PayloadOK
    <3>4. Flight(u2, Server, n, x) = {} /\ Flight(u2, n, Server, x) = {}
      <4>1. Flight(u, Server, n, x) = {} /\ Flight(u, n, Server, x) = {}
        BY <2>2, <3>3 DEF Flight
      <4> QED
        BY <1>11, <4>1
    <3> QED
      BY <3>1, <3>2, <3>4, PairCreate DEF Linked
  <2>3. CASE x # c
    <3>1. cn2[Server][x] = cn[Server][x] /\ cn2[n][x] = cn[n][x]
      BY <1>3, <1>5, <2>1, <2>3
    <3>2. Linked(cn, u, sd, hd, Server, n, x)
      BY <1>1, <1>12, <3>1
    <3>3. Cell(cn2, Server, x) = Cell(cn, Server, x) /\ Cell(cn2, n, x) = Cell(cn, n, x)
      BY <3>1 DEF Cell
    <3>4. Linked(cn, u2, sd, hd, Server, n, x)
      BY <1>11, <3>2, PairFewer DEF Linked
    <3> QED
      BY <3>3, <3>4 DEF Linked
  <2> QED
    BY <2>2, <2>3
<1> QED
  BY <1>1, <1>6, <1>7, <1>8, <1>9, <1>10, <1>12 DEF Sound

(* cn2 is cn after HandleAck(d). *)
Acked(cn, cn2, d) ==
  \A m \in Nodes, x \in Convs :
    /\ cn2[m][x].cb = IF m = d.to /\ x = d.conv THEN Create ELSE cn[m][x].cb
    /\ cn2[m][x].peer = IF m = d.to /\ x = 1 THEN Server ELSE cn[m][x].peer

(* An ACK gives the client its end of the conversation. *)
LEMMA AckStep ==
  ASSUME NEW cn, NEW nx, NEW u, NEW sd, NEW hd, Sound(cn, nx, u, sd, hd),
         NEW d \in u, HandshakeOK(d, cn, nx),
         NEW cn2 \in [Nodes -> [Convs -> Entries]], Acked(cn, cn2, d)
  PROVE  Sound(cn2, nx, u \ {d}, sd, hd)
<1> DEFINE n == d.to
           c == d.conv
           u2 == u \ {d}
<1>1. /\ cn \in [Nodes -> [Convs -> Entries]]
      /\ nx \in [Nodes -> Nat] /\ \A m \in Clients : nx[m] = 1
      /\ sd \in [Nodes -> [Convs -> Messages]] /\ hd \in [Nodes -> [Convs -> Messages]]
      /\ \A e \in u : DatagramOK(e, cn, nx)
      /\ \A x \in Convs : ServerOK(cn, nx, x)
      /\ \A m \in Clients, x \in Convs : ClientOK(cn, m, x)
      /\ \A m \in Nodes, x \in Convs : cn[m][x].cb = None => sd[m][x] = <<>> /\ hd[m][x] = <<>>
      /\ \A m \in Clients, x \in Convs :
           cn[Server][x].peer = m => Linked(cn, u, sd, hd, Server, m, x)
  BY DEF Sound
<1>2. Create # None
  <2>1. Create \in Blocks(LayerBytes)
    BY PairCreate DEF Pair
  <2> QED
    BY <2>1, NoneFacts
<1>3. /\ n \in Clients /\ n \in Nodes /\ n # Server /\ Server \in Nodes
      /\ d = [kind |-> "ACK", from |-> Server, to |-> n, conv |-> c]
      /\ c \in Convs => /\ cn[Server][c].cb # None /\ cn[Server][c].peer = n
                        /\ cn[n][c].cb = None
  BY NodeFacts DEF HandshakeOK
<1>4. \A m \in Nodes, x \in Convs :
        /\ cn2[m][x].cb = IF m = n /\ x = c THEN Create ELSE cn[m][x].cb
        /\ cn2[m][x].peer = IF m = n /\ x = 1 THEN Server ELSE cn[m][x].peer
  BY DEF Acked
<1> HIDE DEF n, c
<1>5. \A x \in Convs : cn2[Server][x].cb = cn[Server][x].cb /\ cn2[Server][x].peer = cn[Server][x].peer
  BY <1>3, <1>4
<1>6. \A m \in Nodes, x \in Convs : Cell(cn2, m, x) = Cell(cn, m, x)
  BY <1>2, <1>3, <1>4 DEF Cell
<1>7. ASSUME NEW e \in u2 PROVE DatagramOK(e, cn2, nx)
  <2>1. CASE SynOK(e)
    BY <2>1 DEF DatagramOK
  <2>2. CASE HandshakeOK(e, cn, nx)
    <3>1. /\ e.to \in Clients /\ e.to \in Nodes
          /\ e = [kind |-> "ACK", from |-> Server, to |-> e.to, conv |-> e.conv]
          /\ e.conv \in Nat /\ e.conv < nx[Server]
          /\ e.conv \in Convs => /\ cn[Server][e.conv].cb # None
                                 /\ cn[Server][e.conv].peer = e.to
                                 /\ cn[e.to][e.conv].cb = None
      BY <2>2, NodeFacts DEF HandshakeOK
    <3>2. ~(e.to = n /\ e.conv = c)
      BY <1>3, <3>1
    <3>3. e.conv \in Convs => /\ cn2[Server][e.conv].cb # None
                              /\ cn2[Server][e.conv].peer = e.to
                              /\ cn2[e.to][e.conv].cb = None
      BY <1>4, <1>5, <3>1, <3>2
    <3>4. HandshakeOK(e, cn2, nx)
      BY <3>1, <3>3 DEF HandshakeOK
    <3> QED
      BY <3>4 DEF DatagramOK
  <2>3. CASE PayloadOK(e, cn)
    <3>1. PayloadOK(e, cn2)
      BY <1>5, <2>3 DEF PayloadOK
    <3> QED
      BY <3>1 DEF DatagramOK
  <2> QED
    BY <1>1, <2>1, <2>2, <2>3 DEF DatagramOK
<1>8. ASSUME NEW x \in Convs PROVE ServerOK(cn2, nx, x)
  BY <1>1, <1>5 DEF ServerOK
<1>9. ASSUME NEW m \in Clients, NEW x \in Convs PROVE ClientOK(cn2, m, x)
  <2>1. m \in Nodes /\ ClientOK(cn, m, x)
    BY <1>1, NodeFacts
  <2>2. cn2[m][x].peer \in {NoAddr, Server}
    BY <1>4, <2>1 DEF ClientOK
  <2>3. ASSUME cn2[m][x].cb # None
        PROVE  cn2[Server][x].cb # None /\ cn2[Server][x].peer = m
    <3>1. CASE m = n /\ x = c
      BY <1>3, <1>5, <3>1
    <3>2. CASE ~(m = n /\ x = c)
      BY <1>4, <1>5, <2>1, <2>3, <3>2 DEF ClientOK
    <3> QED
      BY <3>1, <3>2
  <2> QED
    BY <2>2, <2>3 DEF ClientOK
<1>10. ASSUME NEW m \in Nodes, NEW x \in Convs, cn2[m][x].cb = None
       PROVE  sd[m][x] = <<>> /\ hd[m][x] = <<>>
  <2>1. cn[m][x].cb = None
    BY <1>2, <1>4, <1>10
  <2> QED
    BY <1>1, <2>1
<1>11. \A a, b, x : Flight(u2, a, b, x) \in SUBSET Flight(u, a, b, x)
  BY DEF Flight
<1>12. ASSUME NEW m \in Clients, NEW x \in Convs, cn2[Server][x].peer = m
       PROVE  Linked(cn2, u2, sd, hd, Server, m, x)
  <2>1. m \in Nodes /\ cn[Server][x].peer = m
    BY <1>5, <1>12, NodeFacts
  <2>2. Linked(cn, u, sd, hd, Server, m, x)
    BY <1>1, <2>1
  <2>3. Cell(cn2, Server, x) = Cell(cn, Server, x) /\ Cell(cn2, m, x) = Cell(cn, m, x)
    BY <1>3, <1>6, <2>1
  <2>4. Linked(cn, u2, sd, hd, Server, m, x)
    <3> HIDE DEF u2
    <3> QED
      BY <1>11, <2>2, PairFewer DEF Linked
  <2> QED
    BY <2>3, <2>4 DEF Linked
<1> QED
  BY <1>1, <1>7, <1>8, <1>9, <1>10, <1>12 DEF Sound

(* KcpLayer::handleRead, for each kind of datagram. *)
LEMMA LayerReads ==
  ASSUME LayerInv, NEW n \in Nodes, HandleRead(n)
  PROVE  LayerInv'
<1>0. SUFFICES /\ Sound(conn', nextConv', udp', said', heard')
               /\ calls' \in [Nodes -> [connect : Nat, send : Nat]]
  BY DEF LayerInv
<1>1. Sound(conn, nextConv, udp, said, heard) /\ calls \in [Nodes -> [connect : Nat, send : Nat]]
  BY DEF LayerInv
<1>2. UNCHANGED <<calls, said, heard>>
  BY DEF HandleRead
<1>3. PICK d \in udp : /\ d.to = n
                       /\ \/ d.kind = "SYN" /\ HandleSyn(d)
                          \/ d.kind = "ACK" /\ HandleAck(d)
                          \/ d.kind = "DATA" /\ HandleSegments(d)
  BY DEF HandleRead
<1>4. /\ conn \in [Nodes -> [Convs -> Entries]] /\ nextConv \in [Nodes -> Nat]
      /\ said \in [Nodes -> [Convs -> Messages]] /\ heard \in [Nodes -> [Convs -> Messages]]
      /\ \A m \in Clients : nextConv[m] = 1
      /\ DatagramOK(d, conn, nextConv)
  BY <1>1 DEF Sound
<1>5. Create \in Blocks(LayerBytes)
  BY PairCreate DEF Pair
<1>6. CASE d.kind = "SYN" /\ HandleSyn(d)
  <2> DEFINE c == nextConv[n]
             v == [cb |-> Create, peer |-> d.from]
  <2>1. d.from \in Clients /\ n = Server
    BY <1>3, <1>4, <1>6 DEF DatagramOK, SynOK, HandshakeOK, PayloadOK
  <2>2. /\ conn' = [conn EXCEPT ![n][c] = v]
        /\ udp' = (udp \ {d}) \cup {[kind |-> "ACK", from |-> n, to |-> d.from, conv |-> c]}
        /\ nextConv' = [nextConv EXCEPT ![n] = c + 1]
    BY <1>3, <1>6 DEF HandleSyn
  <2>3. c \in Convs => v \in Entries
    BY <1>5, <2>1, NodeFacts DEF Entries
  <2> HIDE DEF v, c
  <2>4. conn' \in [Nodes -> [Convs -> Entries]] /\ Changed(conn, conn', n, c, v)
    <3>1. conn' = Put(conn, n, c, v)
      BY <2>2 DEF Put
    <3> QED
      BY <1>4, <2>3, <3>1, CellSet
  <2>5. \A e \in udp' : \/ e \in udp
                        \/ e = [kind |-> "ACK", from |-> Server, to |-> d.from, conv |-> c]
    BY <2>1, <2>2
  <2>6. /\ Changed(conn, conn', Server, c, [cb |-> Create, peer |-> d.from])
        /\ c = nextConv[Server] /\ nextConv' = [nextConv EXCEPT ![Server] = c + 1]
    BY <2>1, <2>2, <2>4 DEF v, c
  <2>7. Sound(conn', nextConv', udp', said, heard)
    BY <1>1, <2>1, <2>4, <2>5, <2>6, SynStep
  <2> QED
    BY <1>1, <1>2, <2>7
<1>7. CASE d.kind = "ACK" /\ HandleAck(d)
  <2> DEFINE c == d.conv
             v == [conn[n][c] EXCEPT !.cb = Create]
             f == Put(conn, n, c, v)
             q == nextConv[n]
             r == [f[n][q] EXCEPT !.peer = d.from]
  <2>1. HandshakeOK(d, conn, nextConv)
    BY <1>4, <1>7 DEF DatagramOK, SynOK, PayloadOK
  <2>2. n \in Clients /\ d.from = Server
    BY <1>3, <2>1 DEF HandshakeOK
  <2>3. q = 1
    BY <1>4, <2>2
  <2>4. /\ conn' = Put(f, n, q, r) /\ udp' = udp \ {d} /\ nextConv' = nextConv
    BY <1>3, <1>7 DEF HandleAck, Put
  <2>5. c \in Convs => v \in Entries
    <3> SUFFICES ASSUME c \in Convs PROVE v \in Entries
      OBVIOUS
    <3>1. conn[n][c] \in Entries
      BY <1>4
    <3> HIDE DEF c
    <3> QED
      BY <1>5, <3>1 DEF Entries
  <2> HIDE DEF v
  <2>6. f \in [Nodes -> [Convs -> Entries]] /\ Changed(conn, f, n, c, v)
    BY <1>4, <2>5, CellSet
  <2> HIDE DEF f, q
  <2>7. q \in Convs => r \in Entries
    <3> SUFFICES ASSUME q \in Convs PROVE r \in Entries
      OBVIOUS
    <3>1. f[n][q] \in Entries
      BY <2>6
    <3> QED
      BY <2>2, <3>1, NodeFacts DEF Entries
  <2> HIDE DEF r
  <2>8. conn' \in [Nodes -> [Convs -> Entries]] /\ Changed(f, conn', n, q, r)
    BY <2>4, <2>6, <2>7, CellSet
  <2>9. ASSUME NEW m \in Nodes, NEW x \in Convs
        PROVE  /\ conn'[m][x].cb = IF m = n /\ x = c THEN Create ELSE conn[m][x].cb
               /\ conn'[m][x].peer = IF m = n /\ x = 1 THEN Server ELSE conn[m][x].peer
    <3>1. conn[m][x] \in Entries /\ f[m][x] \in Entries
      BY <1>4, <2>6
    <3>2. /\ f[m][x].cb = IF m = n /\ x = c THEN Create ELSE conn[m][x].cb
          /\ f[m][x].peer = conn[m][x].peer
      <4>1. CASE m = n /\ x = c
        BY <2>6, <3>1, <4>1 DEF Changed, v, Entries
      <4>2. CASE ~(m = n /\ x = c)
        BY <2>6, <4>2 DEF Changed
      <4> QED
        BY <4>1, <4>2
    <3>3. /\ conn'[m][x].peer = IF m = n /\ x = 1 THEN Server ELSE f[m][x].peer
          /\ conn'[m][x].cb = f[m][x].cb
      <4>1. CASE m = n /\ x = 1
        <5>1. conn'[m][x] = [f[m][x] EXCEPT !.peer = Server]
          BY <2>2, <2>3, <2>8, <4>1 DEF Changed, r
        <5> QED
          BY <3>1, <4>1, <5>1 DEF Entries
      <4>2. CASE ~(m = n /\ x = 1)
        BY <2>3, <2>8, <4>2 DEF Changed
      <4> QED
        BY <4>1, <4>2
    <3> QED
      BY <3>2, <3>3
  <2>10. Acked(conn, conn', d)
    BY <1>3, <2>9 DEF Acked
  <2>11. Sound(conn', nextConv, udp \ {d}, said, heard)
    BY <1>1, <1>3, <2>1, <2>8, <2>10, AckStep
  <2> QED
    BY <1>1, <1>2, <2>4, <2>11
<1>8. CASE d.kind = "DATA" /\ HandleSegments(d)
  <2> DEFINE c == d.conv
             k == conn[n][c].cb
             o == Other(conn, n, c)
             base == udp \ {d}
  <2>1. PayloadOK(d, conn)
    BY <1>4, <1>8 DEF DatagramOK, SynOK, HandshakeOK
  <2>2. CASE Usable(n, c)
    <3>1. KcpUpdate(n, c, IkcpInput(k, d.payload), base) /\ nextConv' = nextConv
      BY <1>3, <1>8, <2>2 DEF HandleSegments
    <3>2. c \in Convs /\ k # None
      BY <2>2 DEF Usable
    <3>3. /\ Linked(conn, udp, said, heard, n, o, c)
          /\ \/ n = Server /\ o \in Clients /\ conn[Server][c].peer = o
             \/ n \in Clients /\ o = Server /\ conn[Server][c].peer = n
      BY <1>1, <3>2, OtherFacts
    <3>4. d.from = o
      BY <1>3, <2>1, <3>3, NodeFacts DEF PayloadOK
    <3>5. d.payload \in Flight(udp, o, n, c)
      BY <1>3, <1>8, <3>4 DEF Flight
    <3>6. Cell(conn, n, c) = k
      BY <3>2 DEF Cell
    <3>7. Pair(k, Cell(conn, o, c), Flight(udp, n, o, c), Flight(udp, o, n, c), said[n][c],
               heard[o][c], said[o][c], heard[n][c], LayerBytes)
      BY <3>3, <3>6 DEF Linked
    <3> HIDE DEF k, c
    <3>8. Pair(IkcpInput(k, d.payload), Cell(conn, o, c), Flight(udp, n, o, c),
               Flight(udp, o, n, c), said[n][c], heard[o][c], said[o][c], heard[n][c], LayerBytes)
      BY <3>5, <3>7, PairInputs
    <3>9. /\ Changed(said, said, n, c, said[n][c]) /\ Changed(heard, heard, n, c, heard[n][c])
          /\ base \in SUBSET udp /\ conn[n][c].cb # None
      BY <3>2 DEF Changed, k
    <3> HIDE DEF base
    <3>10. Sound(conn', nextConv, udp', said, heard)
      BY <1>1, <1>4, <3>1, <3>2, <3>8, <3>9, UpdateStep
    <3> QED
      BY <1>1, <1>2, <3>1, <3>10
  <2>3. CASE ~Usable(n, c)
    <3>1. udp' = base /\ conn' = conn /\ nextConv' = nextConv
      BY <1>3, <1>8, <2>3 DEF HandleSegments
    <3>2. \A e \in base : e \in udp \/ SynOK(e)
      OBVIOUS
    <3> HIDE DEF base
    <3>3. Sound(conn, nextConv, base, said, heard)
      BY <1>1, <3>2, SoundFewer
    <3> QED
      BY <1>1, <1>2, <3>1, <3>3
  <2> QED
    BY <2>2, <2>3
<1> QED
  BY <1>3, <1>6, <1>7, <1>8

(* The initial state satisfies the invariant. *)
LEMMA LayerStarts ==
  ASSUME LayerInit
  PROVE  LayerInv
<1> DEFINE e == [cb |-> None, peer |-> NoAddr]
<1>1. /\ conn = [n \in Nodes |-> [c \in Convs |-> e]]
      /\ nextConv = [n \in Nodes |-> 1] /\ udp = {}
      /\ calls = [n \in Nodes |-> [connect |-> 0, send |-> 0]]
      /\ said = [n \in Nodes |-> [c \in Convs |-> <<>>]]
      /\ heard = [n \in Nodes |-> [c \in Convs |-> <<>>]]
  BY DEF LayerInit
<1>2. e \in Entries /\ e.cb = None /\ e.peer = NoAddr
  BY DEF Entries
<1>3. <<>> \in Messages
  BY EmptySeq DEF Messages
<1> HIDE DEF e
<1>4. \A n \in Nodes, c \in Convs : conn[n][c] = e /\ said[n][c] = <<>> /\ heard[n][c] = <<>>
  BY <1>1
<1>5. /\ conn \in [Nodes -> [Convs -> Entries]] /\ nextConv \in [Nodes -> Nat]
      /\ said \in [Nodes -> [Convs -> Messages]] /\ heard \in [Nodes -> [Convs -> Messages]]
      /\ calls \in [Nodes -> [connect : Nat, send : Nat]]
      /\ \A n \in Clients : nextConv[n] = 1
  BY <1>1, <1>2, <1>3, NodeFacts
<1>6. \A c \in Convs : ServerOK(conn, nextConv, c) /\ conn[Server][c].peer \notin Clients
  BY <1>2, <1>4, NodeFacts DEF ServerOK
<1>7. \A n \in Clients, c \in Convs : ClientOK(conn, n, c)
  BY <1>2, <1>4, NodeFacts DEF ClientOK
<1>8. Sound(conn, nextConv, udp, said, heard)
  BY <1>1, <1>4, <1>5, <1>6, <1>7 DEF Sound
<1> QED
  BY <1>5, <1>8 DEF LayerInv

(* Every step keeps the invariant. *)
LEMMA LayerContinues ==
  ASSUME LayerInv, [LayerNext]_layerVars
  PROVE  LayerInv'
<1>1. Sound(conn, nextConv, udp, said, heard) /\ calls \in [Nodes -> [connect : Nat, send : Nat]]
  BY DEF LayerInv
<1>2. ASSUME /\ Sound(conn', nextConv', udp', said', heard')
             /\ calls' \in [Nodes -> [connect : Nat, send : Nat]]
      PROVE  LayerInv'
  BY <1>2 DEF LayerInv
<1>3. ASSUME NEW n \in Nodes, Connect(n) PROVE LayerInv'
  <2> DEFINE r == [calls[n] EXCEPT !.connect = calls[n].connect + 1]
             s == [kind |-> "SYN", from |-> n, to |-> Server]
  <2>1. /\ n \in Clients /\ calls' = [calls EXCEPT ![n] = r] /\ udp' = udp \cup {s}
        /\ UNCHANGED <<conn, nextConv, said, heard>>
    BY <1>3 DEF Connect
  <2>2. calls[n] \in [connect : Nat, send : Nat]
    BY <1>1
  <2>3. r \in [connect : Nat, send : Nat]
    BY <2>2
  <2> HIDE DEF r
  <2>4. calls' \in [Nodes -> [connect : Nat, send : Nat]]
    BY <1>1, <2>1, <2>3
  <2>5. \A d \in udp' : d \in udp \/ SynOK(d)
    BY <2>1 DEF SynOK
  <2>6. Sound(conn, nextConv, udp', said, heard)
    BY <1>1, <2>5, SoundFewer
  <2> QED
    BY <1>2, <2>1, <2>4, <2>6
<1>4. ASSUME NEW n \in Nodes, HandleConnection(n) PROVE LayerInv'
  <2>1. UNCHANGED <<conn, nextConv, udp, calls, said, heard>>
    BY <1>4 DEF HandleConnection
  <2> QED
    BY <1>1, <1>2, <2>1
<1>5. ASSUME LoseDatagram PROVE LayerInv'
  <2>1. /\ \A d \in udp' : d \in udp \/ SynOK(d)
        /\ UNCHANGED <<conn, nextConv, calls, said, heard>>
    BY <1>5 DEF LoseDatagram
  <2>2. Sound(conn, nextConv, udp', said, heard)
    BY <1>1, <2>1, SoundFewer
  <2> QED
    BY <1>1, <1>2, <2>1, <2>2
<1>6. CASE UNCHANGED layerVars
  BY <1>1, <1>2, <1>6 DEF layerVars
<1> QED
  BY <1>3, <1>4, <1>5, <1>6, UserSends, UserReceives, LayerReads DEF LayerNext

(* Every conversation keeps the invariant of a pair of control blocks, however *)
(* many there are and whatever the network loses.                              *)
THEOREM LayerInvariant == LayerSpec => []LayerInv
<1>1. LayerInit => LayerInv
  BY LayerStarts
<1>2. LayerInv /\ [LayerNext]_layerVars => LayerInv'
  BY LayerContinues
<1> QED
  BY <1>1, <1>2, PTL DEF LayerSpec

(* A client has a control block only for a conversation the server made for it. *)
THEOREM LayerHandshake == LayerSpec => []HandshakeAgrees
<1>1. LayerInv => HandshakeAgrees
  BY DEF LayerInv, Sound, ClientOK, HandshakeAgrees
<1> QED
  BY <1>1, LayerInvariant, PTL

(* What a user receives on a conversation is what the user at its other end    *)
(* sent on it.                                                                 *)
THEOREM LayerKeepsApart == LayerSpec => []ConversationsApart
<1>1. LayerInv => ConversationsApart
  <2> SUFFICES ASSUME LayerInv, NEW c \in Convs
               PROVE  LET n == conn[Server][c].peer IN
                      IF n = NoAddr
                        THEN heard[Server][c] = <<>>
                        ELSE /\ IsPrefix(heard[Server][c], said[n][c])
                             /\ IsPrefix(heard[n][c], said[Server][c])
    BY DEF ConversationsApart
  <2> DEFINE n == conn[Server][c].peer
  <2>1. /\ ServerOK(conn, nextConv, c) /\ Server \in Nodes
        /\ conn[Server][c].cb = None => heard[Server][c] = <<>>
        /\ n \in Clients => Linked(conn, udp, said, heard, Server, n, c)
    BY NodeFacts DEF LayerInv, Sound
  <2>2. CASE n = NoAddr
    BY <2>1, <2>2 DEF ServerOK
  <2>3. CASE n # NoAddr
    <3>1. Linked(conn, udp, said, heard, Server, n, c)
      BY <2>1, <2>3 DEF ServerOK
    <3>2. Linked(conn, udp, said, heard, n, Server, c)
      BY <3>1, PairTurned DEF Linked
    <3>3. IsPrefix(heard[n][c], said[Server][c])
      BY <3>1, PairSafe DEF Linked
    <3>4. IsPrefix(heard[Server][c], said[n][c])
      BY <3>2, PairSafe DEF Linked
    <3> QED
      BY <2>3, <3>3, <3>4
  <2> QED
    BY <2>2, <2>3
<1> QED
  BY <1>1, LayerInvariant, PTL
=============================================================================
