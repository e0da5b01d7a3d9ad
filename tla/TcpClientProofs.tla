--------------------------- MODULE TcpClientProofs ---------------------------
(***************************************************************************)
(* Proofs about TcpClient and its Connector.  The model has no constants:  *)
(* what the proofs add to its finite check is the argument, and the        *)
(* queues, which are of any length here.                                   *)
(***************************************************************************)
EXTENDS TcpClient, SequenceTheorems, FiniteSetTheorems, TLAPS

Functor == {"startInLoop", "resetChannel", "connectDestroyed", "cancelFirst", "cancel"}

(* Every variable has its type, and no assertion has failed. *)
TypeOK ==
    /\ userThread \in {"loop", "other"}
    /\ state \in {"kDisconnected", "kConnecting", "kConnected"}
    /\ trying \in BOOLEAN /\ wanted \in BOOLEAN /\ retry \in BOOLEAN
    /\ channel \in {"none", "live", "removed"}
    /\ timer \in {"none", "first", "later"} /\ timerId \in {"none", "first", "later"}
    /\ fresh \in BOOLEAN /\ connection \in BOOLEAN /\ open \in Nat
    /\ functors \in Seq(Functor) /\ batch \in Seq(Functor)
    /\ phase \in {"poll", "events", "restarting", "functors"}
    /\ started \in BOOLEAN /\ stopping \in {"no", "client", "connector", "stopped"}
    /\ gaveUp \in BOOLEAN /\ aborted \in BOOLEAN

(* What an iteration of the loop has fetched is still so: it has one event at   *)
(* most, because there is at most one attempt, and the channel it would use is  *)
(* free.                                                                        *)
Fetched ==
    /\ fetched \in {{}, {"timer"}, {"channel"}, {"connection"}}
    /\ phase # "events" => fetched = {}
    /\ "timer" \in fetched => channel = "none"
    /\ "channel" \in fetched => channel = "live"
    /\ "connection" \in fetched => connection = TRUE /\ channel = "none"
    /\ phase = "restarting" => channel = "none"

(* A functor queued while events are handled runs in the same iteration. *)
Batches ==
    /\ phase # "functors" => batch = <<>>
    /\ phase # "events" => Occurrences(functors, "resetChannel") = 0
    /\ Count("resetChannel") = One(channel = "removed")

(* state_ fits what carries the attempt. *)
States ==
    /\ channel = "live" => state = "kConnecting"
    /\ Count("startInLoop") # 0 => state = "kDisconnected" /\ channel = "none"
    /\ timer # "none" => state = "kDisconnected"
    /\ started = FALSE => /\ Carriers = 0 /\ state = "kDisconnected" /\ channel = "none"
                          /\ stopping = "no"

(* A stop() in the loop's thread has ended the attempts. *)
Stopped ==
    /\ stopping \in {"client", "connector"} => userThread = "other"
    /\ userThread = "loop" /\ stopping = "stopped" =>
          trying = FALSE /\ wanted = FALSE /\ phase # "restarting"

IInv ==
    TypeOK /\ aborted = FALSE /\ Fetched /\ Batches /\ States /\ OneAttempt /\ NoSocketLeak /\ Stopped

----------------------------------------------------------------------------
(* Queues of functors *)

(* A queue holds a functor so many times. *)
LEMMA OccurrencesFinite ==
    ASSUME NEW q \in Seq(Functor), NEW f
    PROVE  IsFiniteSet({i \in DOMAIN q : q[i] = f}) /\ Occurrences(q, f) \in Nat
<1> DEFINE places == {i \in DOMAIN q : q[i] = f}
<1>1. DOMAIN q = 1..Len(q) /\ Len(q) \in Nat
  BY LenProperties
<1>2. IsFiniteSet(1..Len(q))
  BY <1>1, FS_Interval
<1>3. places \in SUBSET (1..Len(q))
  BY <1>1
<1>4. IsFiniteSet(places)
  BY <1>2, <1>3, FS_Subset
<1> QED
  BY <1>4, FS_CardinalityType DEF Occurrences

(* An empty queue holds none. *)
LEMMA OccurrencesEmpty == ASSUME NEW f PROVE Occurrences(<<>>, f) = 0
<1>1. {i \in DOMAIN <<>> : <<>>[i] = f} = {}
  OBVIOUS
<1> QED
  BY <1>1, FS_EmptySet DEF Occurrences

(* queueInLoop() adds one occurrence of the functor it queues. *)
LEMMA OccurrencesAppend ==
    ASSUME NEW q \in Seq(Functor), NEW g \in Functor, NEW f
    PROVE  Occurrences(Append(q, g), f) = Occurrences(q, f) + (IF g = f THEN 1 ELSE 0)
<1> DEFINE p == Append(q, g)
           n == Len(q)
           before == {i \in DOMAIN q : q[i] = f}
           after == {i \in DOMAIN p : p[i] = f}
<1>0. Occurrences(q, f) = Cardinality(before) /\ Occurrences(p, f) = Cardinality(after)
  BY DEF Occurrences
<1>1. DOMAIN q = 1..n /\ n \in Nat
  BY LenProperties
<1>2. /\ DOMAIN p = 1..(n + 1) /\ p[n + 1] = g /\ \A i \in 1..n : p[i] = q[i]
  BY <1>1, AppendProperties, LenProperties
<1> HIDE DEF p, n
<1>3. n + 1 \notin before
  BY <1>1
<1>4. \A i \in 1..(n + 1) : i \in 1..n \/ i = n + 1
  BY <1>1
<1>5. \A i \in 1..n : i \in 1..(n + 1)
  BY <1>1
<1>6. n + 1 \in 1..(n + 1)
  BY <1>1
<1>7. ASSUME g = f PROVE Occurrences(p, f) = Occurrences(q, f) + 1
  <2>1. after = before \cup {n + 1}
    BY <1>1, <1>2, <1>4, <1>5, <1>6, <1>7
  <2>2. IsFiniteSet(before)
    BY OccurrencesFinite
  <2> HIDE DEF before, after
  <2>3. Cardinality(before \cup {n + 1}) = Cardinality(before) + 1
    BY <1>3, <2>2, FS_AddElement
  <2> QED
    BY <1>0, <2>1, <2>3
<1>8. ASSUME g # f PROVE Occurrences(p, f) = Occurrences(q, f) + 0
  <2>1. after = before
    BY <1>1, <1>2, <1>4, <1>5, <1>6, <1>8
  <2>2. Occurrences(q, f) \in Nat
    BY OccurrencesFinite
  <2> HIDE DEF before, after
  <2> QED
    BY <1>0, <2>1, <2>2
<1>9. Occurrences(p, f) = Occurrences(q, f) + (IF g = f THEN 1 ELSE 0)
  BY <1>7, <1>8
<1> QED
  BY <1>9 DEF p

(* doPendingFunctors() takes one occurrence of the functor it runs. *)
LEMMA OccurrencesTail ==
    ASSUME NEW q \in Seq(Functor), q # <<>>, NEW f
    PROVE  Occurrences(q, f) = Occurrences(Tail(q), f) + (IF Head(q) = f THEN 1 ELSE 0)
<1> DEFINE p == Tail(q)
           n == Len(q)
           before == {i \in DOMAIN q : q[i] = f}
           after == {i \in DOMAIN p : p[i] = f}
           rest == before \ {1}
<1>0. Occurrences(q, f) = Cardinality(before) /\ Occurrences(p, f) = Cardinality(after)
  BY DEF Occurrences
<1>1. DOMAIN q = 1..n /\ n \in Nat \ {0}
  BY LenProperties, EmptySeq
<1>2. /\ p \in Seq(Functor) /\ DOMAIN p = 1..(n - 1)
      /\ \A i \in 1..(n - 1) : p[i] = q[i + 1]
  BY <1>1, HeadTailProperties, LenProperties
<1>3. Head(q) = q[1]
  OBVIOUS
<1>4. IsFiniteSet(before) /\ IsFiniteSet(after) /\ Cardinality(after) \in Nat
  BY <1>2, OccurrencesFinite DEF Occurrences
<1> HIDE DEF p, n
<1>5. Cardinality(after) = Cardinality(rest)
  <2> DEFINE shift == [i \in after |-> i + 1]
  <2>1. \A i \in after : i \in Nat /\ i + 1 \in rest
    BY <1>1, <1>2
  <2>2. shift \in [after -> rest]
    BY <2>1
  <2>3. \A i, j \in after : shift[i] = shift[j] => i = j
    BY <2>1
  <2>4. \A j \in rest : \E i \in after : shift[i] = j
    <3> SUFFICES ASSUME NEW j \in rest PROVE \E i \in after : shift[i] = j
      OBVIOUS
    <3>1. j - 1 \in 1..(n - 1) /\ (j - 1) + 1 = j /\ q[j] = f
      BY <1>1
    <3>2. j - 1 \in after
      BY <1>2, <3>1
    <3> QED
      BY <3>1, <3>2
  <2>5. shift \in Bijection(after, rest)
    <3>1. shift \in Injection(after, rest)
      BY <2>2, <2>3 DEF Injection, IsInjective
    <3>2. shift \in Surjection(after, rest)
      BY <2>2, <2>4 DEF Surjection
    <3> QED
      BY <3>1, <3>2 DEF Bijection
  <2>6. ExistsBijection(after, rest)
    BY <2>5 DEF ExistsBijection
  <2> QED
    BY <1>4, <2>6, FS_Bijection
<1>6. Cardinality(rest) = IF 1 \in before THEN Cardinality(before) - 1 ELSE Cardinality(before)
  BY <1>4, FS_RemoveElement
<1>7. 1 \in before <=> Head(q) = f
  BY <1>1, <1>3
<1>8. Cardinality(before) \in Nat
  BY <1>4, FS_CardinalityType
<1> HIDE DEF before, after, rest
<1>9. Occurrences(q, f) = Occurrences(p, f) + (IF Head(q) = f THEN 1 ELSE 0)
  BY <1>0, <1>4, <1>5, <1>6, <1>7, <1>8
<1> QED
  BY <1>9 DEF p

(* Counts are natural numbers. *)
LEMMA CountNat ==
    ASSUME TypeOK, NEW f
    PROVE  Count(f) \in Nat /\ Occurrences(functors, f) \in Nat
<1>1. Occurrences(functors, f) \in Nat /\ Occurrences(batch, f) \in Nat
  BY OccurrencesFinite DEF TypeOK
<1> QED
  BY <1>1 DEF Count

(* What queueInLoop() does to the counts. *)
LEMMA QueueCount ==
    ASSUME TypeOK, NEW g \in Functor, functors' = Append(functors, g), batch' = batch, NEW f
    PROVE  /\ functors' \in Seq(Functor)
           /\ Count(f)' = Count(f) + (IF g = f THEN 1 ELSE 0)
           /\ Occurrences(functors, f)' = Occurrences(functors, f) + (IF g = f THEN 1 ELSE 0)
<1>1. functors' \in Seq(Functor)
  BY AppendProperties DEF TypeOK
<1>2. Occurrences(functors', f) = Occurrences(functors, f) + (IF g = f THEN 1 ELSE 0)
  BY OccurrencesAppend DEF TypeOK
<1>3. Count(f)' = Count(f) + (IF g = f THEN 1 ELSE 0)
  <2>1. Occurrences(functors, f) \in Nat /\ Occurrences(batch, f) \in Nat
    BY OccurrencesFinite DEF TypeOK
  <2> QED
    BY <1>2, <2>1 DEF Count
<1> QED
  BY <1>1, <1>2, <1>3

(* The same for the counts the invariant is about. *)
LEMMA QueueCounts ==
    ASSUME TypeOK, NEW g \in Functor, functors' = Append(functors, g), batch' = batch
    PROVE  /\ functors' \in Seq(Functor)
           /\ Count("startInLoop") \in Nat /\ Count("resetChannel") \in Nat
           /\ Count("connectDestroyed") \in Nat /\ Occurrences(functors, "resetChannel") \in Nat
           /\ Count("startInLoop")' = Count("startInLoop") + (IF g = "startInLoop" THEN 1 ELSE 0)
           /\ Count("resetChannel")' = Count("resetChannel") + (IF g = "resetChannel" THEN 1 ELSE 0)
           /\ Count("connectDestroyed")'
                 = Count("connectDestroyed") + (IF g = "connectDestroyed" THEN 1 ELSE 0)
           /\ Occurrences(functors, "resetChannel")'
                 = Occurrences(functors, "resetChannel") + (IF g = "resetChannel" THEN 1 ELSE 0)
<1>1. /\ Count("startInLoop") \in Nat /\ Count("resetChannel") \in Nat
      /\ Count("connectDestroyed") \in Nat /\ Occurrences(functors, "resetChannel") \in Nat
  BY CountNat
<1>2. /\ functors' \in Seq(Functor)
      /\ Count("startInLoop")' = Count("startInLoop") + (IF g = "startInLoop" THEN 1 ELSE 0)
  BY QueueCount, Zenon
<1>3. /\ Count("resetChannel")' = Count("resetChannel") + (IF g = "resetChannel" THEN 1 ELSE 0)
      /\ Occurrences(functors, "resetChannel")'
                 = Occurrences(functors, "resetChannel") + (IF g = "resetChannel" THEN 1 ELSE 0)
  BY QueueCount, Zenon
<1>4. Count("connectDestroyed")'
                 = Count("connectDestroyed") + (IF g = "connectDestroyed" THEN 1 ELSE 0)
  BY QueueCount, Zenon
<1> QED
  BY <1>1, <1>2, <1>3, <1>4

(* What running a functor does to the counts. *)
LEMMA RunCount ==
    ASSUME TypeOK, NEW g, RunFunctor(g), NEW f
    PROVE  /\ batch' \in Seq(Functor) /\ functors' = functors
           /\ Count(f)' \in Nat /\ Count(f) = Count(f)' + (IF g = f THEN 1 ELSE 0)
<1>1. /\ batch \in Seq(Functor) /\ batch # <<>> /\ batch' = Tail(batch) /\ Head(batch) = g
      /\ functors' = functors /\ functors \in Seq(Functor)
  BY DEF TypeOK, RunFunctor
<1>2. batch' \in Seq(Functor)
  BY <1>1, HeadTailProperties
<1>3. /\ Occurrences(functors, f) \in Nat /\ Occurrences(batch, f) \in Nat
      /\ Occurrences(batch', f) \in Nat
  BY <1>1, <1>2, OccurrencesFinite
<1>4. Occurrences(batch, f) = Occurrences(batch', f) + (IF g = f THEN 1 ELSE 0)
  BY <1>1, OccurrencesTail
<1>5. Count(f)' \in Nat /\ Count(f) = Count(f)' + (IF g = f THEN 1 ELSE 0)
  BY <1>1, <1>3, <1>4 DEF Count
<1> QED
  BY <1>1, <1>2, <1>5

(* The same for the counts the invariant is about. *)
LEMMA RunCounts ==
    ASSUME TypeOK, NEW g, RunFunctor(g)
    PROVE  /\ batch' \in Seq(Functor) /\ functors' = functors
           /\ Count("startInLoop")' \in Nat /\ Count("resetChannel")' \in Nat
           /\ Count("connectDestroyed")' \in Nat
           /\ Count("startInLoop") = Count("startInLoop")' + (IF g = "startInLoop" THEN 1 ELSE 0)
           /\ Count("resetChannel") = Count("resetChannel")' + (IF g = "resetChannel" THEN 1 ELSE 0)
           /\ Count("connectDestroyed")
                 = Count("connectDestroyed")' + (IF g = "connectDestroyed" THEN 1 ELSE 0)
<1>1. /\ batch' \in Seq(Functor) /\ functors' = functors /\ Count("startInLoop")' \in Nat
      /\ Count("startInLoop") = Count("startInLoop")' + (IF g = "startInLoop" THEN 1 ELSE 0)
  BY RunCount, Zenon
<1>2. /\ Count("resetChannel")' \in Nat
      /\ Count("resetChannel") = Count("resetChannel")' + (IF g = "resetChannel" THEN 1 ELSE 0)
  BY RunCount, Zenon
<1>3. /\ Count("connectDestroyed")' \in Nat
      /\ Count("connectDestroyed")
            = Count("connectDestroyed")' + (IF g = "connectDestroyed" THEN 1 ELSE 0)
  BY RunCount, Zenon
<1> QED
  BY <1>1, <1>2, <1>3

----------------------------------------------------------------------------
(* One attempt *)

(* Where one thing carries the attempt, nothing else does. *)
LEMMA CarrierFacts ==
    ASSUME TypeOK, OneAttempt
    PROVE  /\ timer # "none" => /\ Count("startInLoop") = 0 /\ channel # "live"
                                /\ connection = FALSE /\ phase # "restarting"
           /\ channel = "live" => /\ Count("startInLoop") = 0 /\ timer = "none"
                                  /\ connection = FALSE /\ phase # "restarting"
           /\ connection = TRUE => /\ Count("startInLoop") = 0 /\ timer = "none"
                                   /\ channel # "live" /\ phase # "restarting"
           /\ phase = "restarting" => /\ Count("startInLoop") = 0 /\ timer = "none"
                                      /\ channel # "live" /\ connection = FALSE
           /\ Count("startInLoop") # 0 => /\ Count("startInLoop") = 1 /\ timer = "none"
                                          /\ channel # "live" /\ connection = FALSE
                                          /\ phase # "restarting"
<1>1. Count("startInLoop") \in Nat
  BY CountNat
<1>2. connection = TRUE \/ connection = FALSE
  BY DEF TypeOK
<1> QED
  BY <1>1, <1>2 DEF OneAttempt, Carriers, One

(* retry() leaves state_ kDisconnected and a timer only if it may try again. *)
LEMMA RetryFacts ==
    ASSUME TypeOK, Retry, trying' \in BOOLEAN
    PROVE  /\ state' = "kDisconnected" /\ timer' \in {"none", "first", "later"}
           /\ timerId' \in {"none", "first", "later"} /\ fresh' \in BOOLEAN
           /\ gaveUp' = gaveUp /\ aborted' = aborted
BY DEF TypeOK, Retry

(* startInLoop() with a free channel leads to a new socket in it, or to a       *)
(* timer, or to nothing.                                                        *)
LEMMA StartFacts ==
    ASSUME TypeOK, aborted = FALSE, channel = "none", StartInLoop("kDisconnected"),
           trying' \in BOOLEAN
    PROVE  /\ aborted' = FALSE /\ gaveUp' \in BOOLEAN /\ fresh' \in BOOLEAN
           /\ timer' \in {"none", "first", "later"} /\ timerId' \in {"none", "first", "later"}
           /\ \/ /\ channel' = "live" /\ state' = "kConnecting" /\ timer' = "none"
                 /\ open' = open + 1
              \/ /\ channel' = "none" /\ state' = "kDisconnected" /\ open' = open
<1>1. CASE Connecting
  BY <1>1 DEF Connecting, TypeOK
<1>2. CASE Retry /\ UNCHANGED <<channel, open>>
  BY <1>2, RetryFacts DEF TypeOK
<1>3. CASE /\ gaveUp' = TRUE
           /\ state' = "kDisconnected"
           /\ timer' = "none"
           /\ UNCHANGED <<channel, timerId, fresh, open, aborted>>
  BY <1>3 DEF TypeOK
<1>4. CASE /\ "kDisconnected" = "kDisconnected" => ~trying'
           /\ aborted' = (aborted \/ "kDisconnected" # "kDisconnected")
           /\ state' = "kDisconnected"
           /\ timer' = "none"
           /\ UNCHANGED <<channel, timerId, fresh, open, gaveUp>>
  BY <1>4 DEF TypeOK
<1> QED
  BY <1>1, <1>2, <1>3, <1>4 DEF StartInLoop, Connect

(* What it assigns has the right types. *)
LEMMA StartTypes ==
    ASSUME TypeOK, aborted = FALSE, channel = "none", StartInLoop("kDisconnected"),
           trying' \in BOOLEAN
    PROVE  /\ aborted' = FALSE /\ gaveUp' \in BOOLEAN /\ fresh' \in BOOLEAN
           /\ timer' \in {"none", "first", "later"} /\ timerId' \in {"none", "first", "later"}
           /\ state' \in {"kDisconnected", "kConnecting", "kConnected"}
           /\ channel' \in {"none", "live", "removed"} /\ open' \in Nat
<1>1. open \in Nat
  BY DEF TypeOK
<1>2. /\ aborted' = FALSE /\ gaveUp' \in BOOLEAN /\ fresh' \in BOOLEAN
      /\ timer' \in {"none", "first", "later"} /\ timerId' \in {"none", "first", "later"}
  BY StartFacts
<1>3. \/ channel' = "live" /\ state' = "kConnecting" /\ open' = open + 1
      \/ channel' = "none" /\ state' = "kDisconnected" /\ open' = open
  BY StartFacts
<1> QED
  BY <1>1, <1>2, <1>3

(* A client that has not connected yet. *)
LEMMA InvInit == Init => IInv
<1> SUFFICES ASSUME Init PROVE IInv
  OBVIOUS
<1> USE DEF Init
<1>1. \A f : Occurrences(functors, f) = 0 /\ Count(f) = 0
  BY OccurrencesEmpty DEF Count
<1>2. TypeOK
  BY EmptySeq DEF TypeOK
<1>3. Carriers = 0
  BY <1>1 DEF Carriers, One
<1> QED
  BY <1>1, <1>2, <1>3
  DEF IInv, Fetched, Batches, States, OneAttempt, NoSocketLeak, Stopped, One

----------------------------------------------------------------------------
(* The user's calls *)

(* TcpClient::connect() starts the one attempt there is. *)
LEMMA InvUserConnect == ASSUME IInv, UserConnect PROVE IInv'
<1> USE DEF IInv
<1>1. /\ started = FALSE /\ started' = TRUE /\ wanted' = TRUE /\ trying' = TRUE
      /\ functors' = Append(functors, "startInLoop") /\ batch' = batch
      /\ UNCHANGED <<attempt, connection, phase, fetched, userThread, retry, stopping>>
  BY DEF UserConnect, TypeOK
<1>2. "startInLoop" \in Functor
  BY DEF Functor
<1>3. /\ functors' \in Seq(Functor)
      /\ Count("startInLoop") \in Nat /\ Count("startInLoop")' = Count("startInLoop") + 1
      /\ Count("resetChannel")' = Count("resetChannel")
      /\ Count("connectDestroyed")' = Count("connectDestroyed")
      /\ Occurrences(functors, "resetChannel")' = Occurrences(functors, "resetChannel")
  BY <1>1, <1>2, QueueCounts
<1>4. TypeOK'
  BY <1>1, <1>3 DEF TypeOK, attempt
<1>5. Carriers = 0 /\ state = "kDisconnected" /\ channel = "none" /\ stopping = "no"
  BY <1>1 DEF States
<1>6. /\ Count("startInLoop") = 0 /\ timer = "none" /\ connection = FALSE
      /\ phase # "restarting"
  BY <1>3, <1>5 DEF Carriers, One, TypeOK
<1>7. Fetched'
  BY <1>1 DEF Fetched, attempt
<1>8. Batches'
  BY <1>1, <1>3, <1>5 DEF Batches, attempt, One
<1>9. States' /\ OneAttempt'
  BY <1>1, <1>3, <1>5, <1>6 DEF States, OneAttempt, Carriers, attempt, One
<1>10. NoSocketLeak' /\ Stopped'
  BY <1>1, <1>3, <1>5, <1>6 DEF NoSocketLeak, Stopped, attempt, One
<1> QED
  BY <1>1, <1>4, <1>7, <1>8, <1>9, <1>10 DEF attempt

(* Calls that change what the client wants, and not its attempt. *)
LEMMA InvUserFlags ==
    ASSUME IInv, Disconnect \/ StopInLoop \/ StopClient \/ StopConnector
    PROVE  IInv'
<1> USE DEF IInv
<1>1. /\ UNCHANGED <<state, channel, timerId, fresh, open, gaveUp, aborted, connection, loop,
                     userThread, retry, started>>
      /\ timer' = timer \/ timer' = "none"
      /\ trying' \in BOOLEAN /\ wanted' \in BOOLEAN
      /\ stopping' \in {"no", "client", "connector", "stopped"}
  BY DEF Disconnect, StopInLoop, StopClient, StopConnector, Cancel, TypeOK, attempt, user
<1>2. started = TRUE
  BY DEF Disconnect, StopInLoop, StopClient, StopConnector, States, TypeOK
<1>3. Count("startInLoop") \in Nat
  BY CountNat
<1>4. \A f : Count(f)' = Count(f) /\ Occurrences(functors, f)' = Occurrences(functors, f)
  BY <1>1 DEF Count, loop
<1>5. TypeOK'
  BY <1>1 DEF TypeOK, loop
<1>6. Fetched' /\ Batches'
  BY <1>1, <1>4 DEF Fetched, Batches, loop, One
<1>7. States' /\ OneAttempt'
  BY <1>1, <1>2, <1>3, <1>4 DEF States, OneAttempt, Carriers, loop, One
<1>8. NoSocketLeak'
  BY <1>1, <1>4 DEF NoSocketLeak, One
<1>9. Stopped'
  BY <1>1 DEF Disconnect, StopInLoop, StopClient, StopConnector, InUserThread, Stopped, TypeOK,
              attempt, loop, user
<1> QED
  BY <1>1, <1>5, <1>6, <1>7, <1>8, <1>9

(* stop() in another thread queues the cancellation. *)
LEMMA InvStopQueue == ASSUME IInv, StopQueue PROVE IInv'
<1> USE DEF IInv
<1>1. PICK g \in {"cancelFirst", "cancel"} :
          /\ functors' = Append(functors, g) /\ batch' = batch
          /\ stopping = "connector" /\ stopping' = "stopped"
          /\ UNCHANGED <<attempt, client, phase, fetched, userThread, retry, started>>
  BY DEF StopQueue
<1>2. g \in Functor
  BY DEF Functor
<1>3. /\ functors' \in Seq(Functor)
      /\ Count("startInLoop")' = Count("startInLoop")
      /\ Count("resetChannel")' = Count("resetChannel")
      /\ Count("connectDestroyed")' = Count("connectDestroyed")
      /\ Occurrences(functors, "resetChannel")' = Occurrences(functors, "resetChannel")
  BY <1>1, <1>2, QueueCounts
<1>4. TypeOK'
  BY <1>1, <1>3 DEF TypeOK, attempt, client
<1>5. Fetched' /\ Batches'
  BY <1>1, <1>3 DEF Fetched, Batches, attempt, client, One
<1>6. States' /\ OneAttempt'
  BY <1>1, <1>3 DEF States, OneAttempt, Carriers, attempt, client, One
<1>7. NoSocketLeak' /\ Stopped'
  BY <1>1, <1>3 DEF NoSocketLeak, Stopped, attempt, client, One
<1> QED
  BY <1>1, <1>4, <1>5, <1>6, <1>7 DEF attempt

----------------------------------------------------------------------------
(* The loop *)

(* poll() finds at most one event, for what carries the attempt. *)
LEMMA InvPoll == ASSUME IInv, NEW ready \in SUBSET Ready, Poll(ready) PROVE IInv'
<1> USE DEF IInv
<1>1. /\ phase = "poll" /\ phase' = "events" /\ fetched' = ready
      /\ UNCHANGED <<attempt, client, functors, batch, user>>
  BY DEF Poll
<1>2. \A f : Count(f)' = Count(f) /\ Occurrences(functors, f)' = Occurrences(functors, f)
  BY <1>1 DEF Count
<1>3. Count("resetChannel") = 0
  <2>1. Occurrences(batch, "resetChannel") = 0
    BY <1>1, OccurrencesEmpty DEF Batches
  <2> QED
    BY <1>1, <2>1 DEF Batches, Count
<1>4. channel # "removed"
  BY <1>3 DEF Batches, One
<1>5. TypeOK'
  BY <1>1 DEF TypeOK, attempt, client, user
<1>6. Fetched'
  <2>1. connection = TRUE \/ connection = FALSE
    BY DEF TypeOK
  <2>2. /\ "timer" \in ready => timer # "none"
        /\ "channel" \in ready => channel = "live"
        /\ "connection" \in ready => connection = TRUE
        /\ ready \subseteq {"timer", "channel", "connection"}
    BY <2>1 DEF Ready
  <2>3. /\ "timer" \in ready => "channel" \notin ready /\ "connection" \notin ready
        /\ "channel" \in ready => "timer" \notin ready /\ "connection" \notin ready
    BY <2>2, CarrierFacts
  <2>4. ready = {} \/ ready = {"timer"} \/ ready = {"channel"} \/ ready = {"connection"}
    BY <2>2, <2>3
  <2>5. channel = "none" \/ channel = "live"
    BY <1>4 DEF TypeOK
  <2>6. /\ "timer" \in ready => channel = "none"
        /\ "connection" \in ready => channel = "none"
    BY <2>2, <2>5, CarrierFacts
  <2> QED
    BY <1>1, <2>2, <2>4, <2>6 DEF Fetched, attempt, client
<1>7. Batches'
  BY <1>1, <1>2 DEF Batches, attempt, One
<1>8. States' /\ OneAttempt'
  BY <1>1, <1>2 DEF States, OneAttempt, Carriers, attempt, client, user, One
<1>9. NoSocketLeak' /\ Stopped'
  BY <1>1, <1>2 DEF NoSocketLeak, Stopped, attempt, client, user, One
<1> QED
  BY <1>1, <1>5, <1>6, <1>7, <1>8, <1>9 DEF attempt

(* The functors queued so far become the batch. *)
LEMMA InvEventsDone == ASSUME IInv, EventsDone PROVE IInv'
<1> USE DEF IInv
<1>1. /\ phase = "events" /\ fetched = {} /\ phase' = "functors"
      /\ batch' = functors /\ functors' = <<>> /\ batch = <<>>
      /\ UNCHANGED <<attempt, client, fetched, user>>
  BY DEF EventsDone, Batches
<1>2. \A f : /\ Occurrences(functors, f) \in Nat
             /\ Occurrences(batch, f) = 0 /\ Occurrences(functors', f) = 0
  BY <1>1, OccurrencesEmpty, OccurrencesFinite DEF TypeOK
<1>3. \A f : Count(f)' = Count(f) /\ Occurrences(functors, f)' = 0
  BY <1>1, <1>2 DEF Count
<1>4. TypeOK'
  BY <1>1, EmptySeq DEF TypeOK, attempt, client, user
<1>5. Fetched' /\ Batches'
  BY <1>1, <1>3 DEF Fetched, Batches, attempt, client, One
<1>6. States' /\ OneAttempt'
  BY <1>1, <1>3 DEF States, OneAttempt, Carriers, attempt, client, user, One
<1>7. NoSocketLeak' /\ Stopped'
  BY <1>1, <1>3 DEF NoSocketLeak, Stopped, attempt, client, user, One
<1> QED
  BY <1>1, <1>4, <1>5, <1>6, <1>7 DEF attempt

(* The batch has run: poll() is next. *)
LEMMA InvFunctorsDone == ASSUME IInv, FunctorsDone PROVE IInv'
<1> USE DEF IInv
<1>1. /\ phase = "functors" /\ batch = <<>> /\ phase' = "poll"
      /\ UNCHANGED <<attempt, client, functors, batch, fetched, user>>
  BY DEF FunctorsDone
<1>2. \A f : Count(f)' = Count(f) /\ Occurrences(functors, f)' = Occurrences(functors, f)
  BY <1>1 DEF Count
<1>3. TypeOK'
  BY <1>1 DEF TypeOK, attempt, client, user
<1>4. Fetched' /\ Batches'
  BY <1>1, <1>2 DEF Fetched, Batches, attempt, client, One
<1>5. States' /\ OneAttempt'
  BY <1>1, <1>2 DEF States, OneAttempt, Carriers, attempt, client, user, One
<1>6. NoSocketLeak' /\ Stopped'
  BY <1>1, <1>2 DEF NoSocketLeak, Stopped, attempt, client, user, One
<1> QED
  BY <1>1, <1>3, <1>4, <1>5, <1>6 DEF attempt

(* A retry timer starts the next attempt: the channel of the last one has been  *)
(* reset.                                                                       *)
LEMMA InvTimerFires == ASSUME IInv, TimerFires PROVE IInv'
<1> USE DEF IInv
<1>1. /\ phase = "events" /\ "timer" \in fetched /\ fetched' = fetched \ {"timer"}
      /\ UNCHANGED <<client, functors, batch, phase, user>>
  BY DEF TimerFires, Take
<1>2. \A f : Count(f)' = Count(f) /\ Occurrences(functors, f)' = Occurrences(functors, f)
  BY <1>1 DEF Count
<1>3. Count("startInLoop") \in Nat /\ Count("connectDestroyed") \in Nat
  BY CountNat
<1>4. fetched' = {} /\ channel = "none"
  BY <1>1 DEF Fetched
<1>5. CASE timer = "none"
  <2>1. UNCHANGED attempt
    BY <1>5 DEF TimerFires
  <2>2. TypeOK' /\ Fetched'
    BY <1>1, <1>4, <2>1 DEF TypeOK, Fetched, attempt, client, user
  <2>3. Batches' /\ States' /\ OneAttempt'
    BY <1>1, <1>2, <2>1
    DEF Batches, States, OneAttempt, Carriers, attempt, client, user, One
  <2>4. NoSocketLeak' /\ Stopped'
    BY <1>1, <1>2, <2>1 DEF NoSocketLeak, Stopped, attempt, client, user, One
  <2> QED
    BY <2>1, <2>2, <2>3, <2>4 DEF attempt
<1>6. CASE timer # "none"
  <2>1. /\ Count("startInLoop") = 0 /\ connection = FALSE /\ phase # "restarting"
        /\ state = "kDisconnected" /\ started = TRUE
    <3>1. Count("startInLoop") = 0 /\ connection = FALSE /\ phase # "restarting"
      BY <1>6, CarrierFacts
    <3>2. Carriers # 0
      BY <1>3, <1>6, <3>1 DEF Carriers, One
    <3>3. started = TRUE
      BY <3>2, Zenon DEF States, TypeOK
    <3> QED
      BY <1>6, <3>1, <3>3 DEF States
  <2>2. trying' \in BOOLEAN
    BY <1>1 DEF client, TypeOK
  <2>3. StartInLoop("kDisconnected")
    BY <1>6, <2>1 DEF TimerFires
  <2>4. /\ aborted' = FALSE /\ gaveUp' \in BOOLEAN /\ fresh' \in BOOLEAN
        /\ timer' \in {"none", "first", "later"} /\ timerId' \in {"none", "first", "later"}
        /\ \/ /\ channel' = "live" /\ state' = "kConnecting" /\ timer' = "none"
              /\ open' = open + 1
           \/ /\ channel' = "none" /\ state' = "kDisconnected" /\ open' = open
    BY <1>4, <2>2, <2>3, StartFacts
  <2>5. TypeOK' /\ Fetched'
    <3>1. /\ aborted' = FALSE /\ gaveUp' \in BOOLEAN /\ fresh' \in BOOLEAN
          /\ timer' \in {"none", "first", "later"} /\ timerId' \in {"none", "first", "later"}
          /\ state' \in {"kDisconnected", "kConnecting", "kConnected"}
          /\ channel' \in {"none", "live", "removed"} /\ open' \in Nat
      BY <1>4, <2>2, <2>3, StartTypes
    <3>2. Fetched'
      BY <1>1, <1>4, <2>4 DEF Fetched
    <3>3. TypeOK'
      BY <1>1, <3>1 DEF TypeOK, client, user
    <3> QED
      BY <3>2, <3>3
  <2>6. Batches'
    BY <1>1, <1>2, <1>4, <2>4 DEF Batches, One
  <2>7. States' /\ OneAttempt'
    BY <1>1, <1>2, <2>1, <2>4 DEF States, OneAttempt, Carriers, client, user, One
  <2>8. NoSocketLeak' /\ Stopped'
    BY <1>1, <1>2, <1>3, <1>4, <2>1, <2>4 DEF NoSocketLeak, Stopped, TypeOK, client, user, One
  <2> QED
    BY <2>4, <2>5, <2>6, <2>7, <2>8
<1> QED
  BY <1>5, <1>6

(* handleWrite() with a connected socket hands it to the client, or closes it   *)
(* after stop().                                                                *)
LEMMA InvHandleWrite == ASSUME IInv, HandleWrite PROVE IInv'
<1> USE DEF IInv
<1>1. /\ phase = "events" /\ "channel" \in fetched /\ fetched' = fetched \ {"channel"}
      /\ batch' = batch /\ functors' = Append(functors, "resetChannel")
      /\ channel' = "removed" /\ state' = "kConnected" /\ connection' = trying
      /\ UNCHANGED <<timer, timerId, fresh, gaveUp, aborted, trying, wanted, phase, user>>
  BY DEF HandleWrite, Take, RemoveAndResetChannel, NewConnection
<1>2. open' = IF trying = TRUE THEN open ELSE open - 1
  BY DEF HandleWrite, NewConnection, TypeOK
<1>3. /\ fetched' = {} /\ channel = "live" /\ Count("startInLoop") = 0 /\ timer = "none"
      /\ connection = FALSE
  BY <1>1, CarrierFacts DEF Fetched
<1>4. "resetChannel" \in Functor
  BY DEF Functor
<1>5. /\ functors' \in Seq(Functor)
      /\ Count("startInLoop")' = Count("startInLoop")
      /\ Count("resetChannel")' = Count("resetChannel") + 1
      /\ Count("connectDestroyed") \in Nat
      /\ Count("connectDestroyed")' = Count("connectDestroyed")
  BY <1>1, <1>4, QueueCounts
<1>6. open = 1 + Count("connectDestroyed")
  BY <1>3, <1>5 DEF NoSocketLeak, One
<1>7. started = TRUE
  BY <1>3, Zenon DEF States, TypeOK
<1>8. trying = TRUE \/ trying = FALSE
  BY DEF TypeOK
<1>9. open' = (IF connection' = TRUE THEN 1 ELSE 0) + Count("connectDestroyed") /\ open' \in Nat
  BY <1>1, <1>2, <1>5, <1>6, <1>8
<1>10. TypeOK'
  BY <1>1, <1>5, <1>9 DEF TypeOK, user
<1>11. Fetched' /\ Batches'
  BY <1>1, <1>3, <1>5 DEF Fetched, Batches, One
<1>12. States' /\ OneAttempt'
  BY <1>1, <1>3, <1>5, <1>7, <1>8 DEF States, OneAttempt, Carriers, user, One
<1>13. NoSocketLeak' /\ Stopped'
  BY <1>1, <1>5, <1>8, <1>9 DEF NoSocketLeak, Stopped, user, One
<1> QED
  BY <1>1, <1>10, <1>11, <1>12, <1>13

(* handleWrite() or handleError() of a failed attempt: the socket is closed and *)
(* the next attempt timed.                                                      *)
LEMMA InvFailed == ASSUME IInv, HandleWriteFailed \/ HandleError PROVE IInv'
<1> USE DEF IInv
<1>1. /\ phase = "events" /\ "channel" \in fetched /\ fetched' = fetched \ {"channel"}
      /\ UNCHANGED <<client, batch, phase, user>>
  BY DEF HandleWriteFailed, HandleError, Take
<1>2. /\ fetched' = {} /\ channel = "live" /\ Count("startInLoop") = 0
      /\ connection = FALSE /\ state = "kConnecting"
  BY <1>1, CarrierFacts DEF Fetched, States
<1>3. /\ functors' = Append(functors, "resetChannel") /\ channel' = "removed"
      /\ open' = open - 1 /\ Retry
  BY <1>2 DEF HandleWriteFailed, HandleError, RemoveAndResetChannel
<1>4. trying' \in BOOLEAN
  BY <1>1 DEF TypeOK, client
<1>5. /\ state' = "kDisconnected" /\ timer' \in {"none", "first", "later"}
      /\ timerId' \in {"none", "first", "later"} /\ fresh' \in BOOLEAN
      /\ gaveUp' = gaveUp /\ aborted' = aborted
  BY <1>3, <1>4, RetryFacts
<1>6. "resetChannel" \in Functor
  BY DEF Functor
<1>7. /\ functors' \in Seq(Functor)
      /\ Count("startInLoop")' = Count("startInLoop")
      /\ Count("resetChannel")' = Count("resetChannel") + 1
      /\ Count("connectDestroyed") \in Nat
      /\ Count("connectDestroyed")' = Count("connectDestroyed")
  BY <1>1, <1>3, <1>6, QueueCounts
<1>8. open = 1 + Count("connectDestroyed")
  BY <1>2, <1>7 DEF NoSocketLeak, One
<1>9. started = TRUE
  BY <1>2, Zenon DEF States, TypeOK
<1>10. open' = Count("connectDestroyed") /\ open' \in Nat
  BY <1>3, <1>7, <1>8
<1>11. TypeOK'
  BY <1>1, <1>3, <1>5, <1>7, <1>10 DEF TypeOK, user, client
<1>12. Fetched' /\ Batches'
  BY <1>1, <1>2, <1>3, <1>7 DEF Fetched, Batches, One
<1>13. States' /\ OneAttempt'
  BY <1>1, <1>2, <1>3, <1>5, <1>7, <1>9 DEF States, OneAttempt, Carriers, user, client, One
<1>14. NoSocketLeak' /\ Stopped'
  BY <1>1, <1>2, <1>3, <1>7, <1>10 DEF NoSocketLeak, Stopped, user, client, One
<1> QED
  BY <1>5, <1>11, <1>12, <1>13, <1>14

(* removeConnection() leaves the socket to connectDestroyed(). *)
LEMMA InvRemoveConnection == ASSUME IInv, RemoveConnection PROVE IInv'
<1> USE DEF IInv
<1>1. /\ phase = "events" /\ "connection" \in fetched /\ fetched' = fetched \ {"connection"}
      /\ connection' = FALSE /\ functors' = Append(functors, "connectDestroyed")
      /\ UNCHANGED <<attempt, trying, wanted, user, batch>>
  BY DEF RemoveConnection, Take
<1>2. \/ phase' = "events"
      \/ phase' = "restarting" /\ wanted = TRUE
  BY DEF RemoveConnection, TypeOK
<1>3. /\ fetched' = {} /\ channel = "none" /\ Count("startInLoop") = 0
      /\ connection = TRUE /\ timer = "none"
  BY <1>1, CarrierFacts DEF Fetched
<1>4. "connectDestroyed" \in Functor
  BY DEF Functor
<1>5. /\ functors' \in Seq(Functor)
      /\ Count("startInLoop")' = Count("startInLoop")
      /\ Count("resetChannel")' = Count("resetChannel")
      /\ Count("connectDestroyed") \in Nat
      /\ Count("connectDestroyed")' = Count("connectDestroyed") + 1
      /\ Occurrences(functors, "resetChannel") \in Nat
      /\ Occurrences(functors, "resetChannel")' = Occurrences(functors, "resetChannel")
  BY <1>1, <1>4, QueueCounts
<1>6. Occurrences(functors, "resetChannel") = 0
  <2>1. Occurrences(batch, "resetChannel") = 0
    BY <1>1, OccurrencesEmpty DEF Batches
  <2> QED
    BY <1>3, <1>5, <2>1 DEF Batches, Count, One
<1>7. started = TRUE
  <2>1. Carriers # 0
    BY <1>1, <1>3 DEF Carriers, One
  <2> QED
    BY <2>1, Zenon DEF States, TypeOK
<1>8. TypeOK'
  <2>1. phase' \in {"poll", "events", "restarting", "functors"}
    BY <1>2
  <2>2. /\ connection' \in BOOLEAN /\ functors' \in Seq(Functor)
        /\ UNCHANGED <<attempt, trying, wanted, user, batch>>
    BY <1>1, <1>5
  <2> QED
    BY <2>1, <2>2 DEF TypeOK, attempt, user
<1>9. Fetched' /\ Batches'
  BY <1>1, <1>2, <1>3, <1>5, <1>6 DEF Fetched, Batches, attempt, One
<1>10. States' /\ OneAttempt'
  BY <1>1, <1>2, <1>3, <1>5, <1>7 DEF States, OneAttempt, Carriers, attempt, user, One
<1>11. NoSocketLeak'
  BY <1>1, <1>3, <1>5 DEF NoSocketLeak, attempt, One
<1>12. Stopped'
  BY <1>1, <1>2 DEF Stopped, user
<1> QED
  BY <1>1, <1>8, <1>9, <1>10, <1>11, <1>12 DEF attempt

(* restart() begins a new attempt with a free channel. *)
LEMMA InvRestart == ASSUME IInv, Restart PROVE IInv'
<1> USE DEF IInv
<1>1. /\ phase = "restarting" /\ phase' = "events" /\ trying' = TRUE
      /\ StartInLoop("kDisconnected")
      /\ UNCHANGED <<wanted, connection, functors, batch, fetched, user>>
  BY DEF Restart
<1>2. \A f : Count(f)' = Count(f) /\ Occurrences(functors, f)' = Occurrences(functors, f)
  BY <1>1 DEF Count
<1>3. Count("connectDestroyed") \in Nat
  BY CountNat
<1>4. /\ fetched = {} /\ channel = "none" /\ connection = FALSE /\ timer = "none"
      /\ Count("startInLoop") = 0
  BY <1>1, CarrierFacts DEF Fetched
<1>5. started = TRUE
  <2>1. Carriers # 0
    BY <1>1, <1>4 DEF Carriers, One
  <2> QED
    BY <2>1, Zenon DEF States, TypeOK
<1>6. /\ \/ /\ channel' = "live" /\ state' = "kConnecting" /\ timer' = "none"
            /\ open' = open + 1
         \/ /\ channel' = "none" /\ state' = "kDisconnected" /\ open' = open
  BY <1>1, <1>4, StartFacts
<1>7. /\ aborted' = FALSE /\ gaveUp' \in BOOLEAN /\ fresh' \in BOOLEAN
      /\ timer' \in {"none", "first", "later"} /\ timerId' \in {"none", "first", "later"}
      /\ state' \in {"kDisconnected", "kConnecting", "kConnected"}
      /\ channel' \in {"none", "live", "removed"} /\ open' \in Nat
  BY <1>1, <1>4, StartTypes
<1>8. TypeOK'
  BY <1>1, <1>7 DEF TypeOK, user
<1>9. Fetched' /\ Batches'
  BY <1>1, <1>2, <1>4, <1>6 DEF Fetched, Batches, One
<1>10. States' /\ OneAttempt'
  BY <1>1, <1>2, <1>4, <1>5, <1>6 DEF States, OneAttempt, Carriers, user, One
<1>11. NoSocketLeak'
  BY <1>1, <1>2, <1>3, <1>4, <1>6 DEF NoSocketLeak, TypeOK, One
<1>12. Stopped'
  BY <1>1 DEF Stopped, user
<1> QED
  BY <1>7, <1>8, <1>9, <1>10, <1>11, <1>12

(* The functor of connect() begins the first attempt. *)
LEMMA InvRunStart == ASSUME IInv, RunStart PROVE IInv'
<1> USE DEF IInv
<1>1. /\ phase = "functors" /\ RunFunctor("startInLoop")
      /\ UNCHANGED <<client, functors, phase, fetched, user>>
  BY DEF RunStart, RunFunctor
<1>2. /\ batch' \in Seq(Functor)
      /\ Count("startInLoop")' \in Nat /\ Count("connectDestroyed")' \in Nat
      /\ Count("startInLoop") = Count("startInLoop")' + 1
      /\ Count("resetChannel")' = Count("resetChannel")
      /\ Count("connectDestroyed")' = Count("connectDestroyed")
  BY <1>1, RunCounts
<1>3. Count("startInLoop") # 0
  BY <1>2
<1>4. /\ Count("startInLoop")' = 0 /\ timer = "none" /\ connection = FALSE
      /\ channel = "none" /\ state = "kDisconnected"
  BY <1>2, <1>3, CarrierFacts DEF States
<1>5. started = TRUE
  <2>1. Carriers # 0
    BY <1>1, <1>2, <1>4 DEF Carriers, One
  <2> QED
    BY <2>1, Zenon DEF States, TypeOK
<1>6. StartInLoop("kDisconnected") /\ trying' \in BOOLEAN
  BY <1>1, <1>4 DEF RunStart, TypeOK, client
<1>7. /\ \/ /\ channel' = "live" /\ state' = "kConnecting" /\ timer' = "none"
            /\ open' = open + 1
         \/ /\ channel' = "none" /\ state' = "kDisconnected" /\ open' = open
  BY <1>4, <1>6, StartFacts
<1>8. /\ aborted' = FALSE /\ gaveUp' \in BOOLEAN /\ fresh' \in BOOLEAN
      /\ timer' \in {"none", "first", "later"} /\ timerId' \in {"none", "first", "later"}
      /\ state' \in {"kDisconnected", "kConnecting", "kConnected"}
      /\ channel' \in {"none", "live", "removed"} /\ open' \in Nat
  BY <1>4, <1>6, StartTypes
<1>9. TypeOK'
  BY <1>1, <1>2, <1>8 DEF TypeOK, user, client
<1>10. Fetched' /\ Batches'
  BY <1>1, <1>2, <1>4, <1>7 DEF Fetched, Batches, One
<1>11. States' /\ OneAttempt'
  BY <1>1, <1>4, <1>5, <1>7 DEF States, OneAttempt, Carriers, user, client, One
<1>12. NoSocketLeak'
  BY <1>1, <1>2, <1>4, <1>7 DEF NoSocketLeak, TypeOK, client, One
<1>13. Stopped'
  BY <1>1 DEF Stopped, user, client
<1> QED
  BY <1>8, <1>9, <1>10, <1>11, <1>12, <1>13

(* The functor of removeAndResetChannel() frees the channel. *)
LEMMA InvRunReset == ASSUME IInv, RunReset PROVE IInv'
<1> USE DEF IInv
<1>1. /\ phase = "functors" /\ RunFunctor("resetChannel") /\ channel' = "none"
      /\ UNCHANGED <<state, timer, timerId, fresh, open, gaveUp, aborted, client, functors,
                     phase, fetched, user>>
  BY DEF RunReset, RunFunctor
<1>2. /\ batch' \in Seq(Functor) /\ Count("resetChannel")' \in Nat
      /\ Count("startInLoop")' = Count("startInLoop")
      /\ Count("resetChannel") = Count("resetChannel")' + 1
      /\ Count("connectDestroyed")' = Count("connectDestroyed")
  BY <1>1, RunCounts
<1>3. channel = "removed" /\ Count("resetChannel")' = 0
  BY <1>2 DEF Batches, One
<1>4. TypeOK'
  BY <1>1, <1>2 DEF TypeOK, user, client
<1>5. Fetched' /\ Batches'
  BY <1>1, <1>2, <1>3 DEF Fetched, Batches, client, One
<1>6. States' /\ OneAttempt'
  BY <1>1, <1>2, <1>3 DEF States, OneAttempt, Carriers, user, client, One
<1>7. NoSocketLeak' /\ Stopped'
  BY <1>1, <1>2, <1>3 DEF NoSocketLeak, Stopped, user, client, One
<1> QED
  BY <1>1, <1>4, <1>5, <1>6, <1>7

(* connectDestroyed() closes the socket of a connection that is gone. *)
LEMMA InvRunDestroyed == ASSUME IInv, RunDestroyed PROVE IInv'
<1> USE DEF IInv
<1>1. /\ phase = "functors" /\ RunFunctor("connectDestroyed") /\ open' = open - 1
      /\ UNCHANGED <<state, channel, timer, timerId, fresh, gaveUp, aborted, client, functors,
                     phase, fetched, user>>
  BY DEF RunDestroyed, RunFunctor
<1>2. /\ batch' \in Seq(Functor) /\ Count("connectDestroyed")' \in Nat
      /\ Count("startInLoop")' = Count("startInLoop")
      /\ Count("resetChannel")' = Count("resetChannel")
      /\ Count("connectDestroyed") = Count("connectDestroyed")' + 1
  BY <1>1, RunCounts
<1>3. connection = TRUE \/ connection = FALSE
  BY DEF TypeOK
<1>4. open' \in Nat /\ NoSocketLeak'
  BY <1>1, <1>2, <1>3 DEF NoSocketLeak, client, One
<1>5. TypeOK'
  BY <1>1, <1>2, <1>4 DEF TypeOK, user, client
<1>6. Fetched' /\ Batches'
  BY <1>1, <1>2 DEF Fetched, Batches, client, One
<1>7. States' /\ OneAttempt' /\ Stopped'
  BY <1>1, <1>2 DEF States, OneAttempt, Carriers, Stopped, user, client, One
<1> QED
  BY <1>1, <1>4, <1>5, <1>6, <1>7

(* A queued cancellation at most takes the timer away. *)
LEMMA InvRunCancel == ASSUME IInv, RunCancel PROVE IInv'
<1> USE DEF IInv
<1>1. PICK g \in {"cancelFirst", "cancel"} :
          /\ phase = "functors" /\ RunFunctor(g) /\ (timer' = timer \/ timer' = "none")
          /\ UNCHANGED <<state, channel, timerId, fresh, open, gaveUp, aborted, client, functors,
                         phase, fetched, user>>
  BY DEF RunCancel, RunFunctor, Cancel
<1>2. /\ batch' \in Seq(Functor) /\ Count("startInLoop")' \in Nat
      /\ Count("startInLoop")' = Count("startInLoop")
      /\ Count("resetChannel")' = Count("resetChannel")
      /\ Count("connectDestroyed")' = Count("connectDestroyed")
  BY <1>1, RunCounts
<1>3. connection = TRUE \/ connection = FALSE
  BY DEF TypeOK
<1>4. timer' \in {"none", "first", "later"}
  BY <1>1 DEF TypeOK
<1>5. TypeOK'
  BY <1>1, <1>2, <1>4 DEF TypeOK, user, client
<1>6. Fetched' /\ Batches'
  BY <1>1, <1>2 DEF Fetched, Batches, client, One
<1>7. States' /\ OneAttempt'
  BY <1>1, <1>2, <1>3 DEF States, OneAttempt, Carriers, user, client, One
<1>8. NoSocketLeak' /\ Stopped'
  BY <1>1, <1>2 DEF NoSocketLeak, Stopped, user, client, One
<1> QED
  BY <1>1, <1>5, <1>6, <1>7, <1>8

----------------------------------------------------------------------------
(* The invariant, and what it says *)

(* Every behaviour of the client keeps the invariant. *)
THEOREM InvHolds == Spec => []IInv
<1>1. ASSUME IInv, UNCHANGED vars PROVE IInv'
  <2>1. UNCHANGED <<attempt, client, loop, user>>
    BY <1>1 DEF vars
  <2>2. \A f : Count(f)' = Count(f) /\ Occurrences(functors, f)' = Occurrences(functors, f)
    BY <2>1 DEF Count, loop
  <2>3. TypeOK' /\ aborted' = FALSE
    BY <1>1, <2>1 DEF IInv, TypeOK, attempt, client, loop, user
  <2>4. Fetched' /\ Batches'
    BY <1>1, <2>1, <2>2 DEF IInv, Fetched, Batches, attempt, client, loop, One
  <2>5. States' /\ OneAttempt'
    BY <1>1, <2>1, <2>2
    DEF IInv, States, OneAttempt, Carriers, attempt, client, loop, user, One
  <2>6. NoSocketLeak' /\ Stopped'
    BY <1>1, <2>1, <2>2
    DEF IInv, NoSocketLeak, Stopped, attempt, client, loop, user, One
  <2> QED
    BY <2>3, <2>4, <2>5, <2>6 DEF IInv
<1>2. ASSUME IInv, Loop PROVE IInv'
  BY <1>2, InvPoll, InvEventsDone, InvFunctorsDone, InvTimerFires, InvHandleWrite, InvFailed,
     InvRemoveConnection, InvRestart, InvRunStart, InvRunReset, InvRunDestroyed, InvRunCancel, Zenon
  DEF Loop
<1>3. ASSUME IInv, User PROVE IInv'
  BY <1>3, InvUserConnect, InvUserFlags, InvStopQueue, Zenon DEF User
<1>4. IInv /\ [Next]_vars => IInv'
  BY <1>1, <1>2, <1>3 DEF Next
<1> QED
  BY InvInit, <1>4, PTL DEF Spec

(* However timers, the channel, the connection, stop() and the functors         *)
(* interleave, there is never more than one attempt under way.                  *)
THEOREM AttemptsExclude == Spec => []OneAttempt
<1>1. IInv => OneAttempt
  BY DEF IInv
<1> QED
  BY <1>1, InvHolds, PTL

(* No assertion of Connector.cc fails: startInLoop() finds state_ kDisconnected,*)
(* connecting() no channel, and handleError() an attempt under way.             *)
THEOREM AssertionsHold == Spec => []NoAbort
<1>1. IInv => NoAbort
  BY DEF IInv, NoAbort
<1> QED
  BY <1>1, InvHolds, PTL

(* Every socket that is opened is owned until it is closed, once. *)
THEOREM SocketsOwned == Spec => []NoSocketLeak
<1>1. IInv => NoSocketLeak
  BY DEF IInv
<1> QED
  BY <1>1, InvHolds, PTL

(* After a stop() in the loop's thread no attempt leads to a connection. *)
THEOREM StopEndsAttempts == Spec => StopIsFinal
<1>1. ASSUME IInv, [Next]_vars, userThread = "loop", stopping = "stopped", connection' = TRUE
      PROVE  connection = TRUE
  <2>1. trying = FALSE
    BY <1>1 DEF IInv, Stopped
  <2>2. connection' # connection => HandleWrite \/ connection' = FALSE
    BY <1>1 DEF Next, Loop, User, Poll, EventsDone, FunctorsDone, TimerFires, HandleWriteFailed,
                HandleError, RemoveConnection, Restart, RunStart, RunReset, RunDestroyed, RunCancel,
                RunFunctor, UserConnect, Disconnect, StopInLoop, StopClient, StopConnector, StopQueue,
                client, vars
  <2>3. HandleWrite => connection' = FALSE
    BY <2>1 DEF HandleWrite, NewConnection
  <2> QED
    BY <1>1, <2>2, <2>3
<1>2. IInv /\ [Next]_vars
        => [userThread = "loop" /\ stopping = "stopped" => (connection' => connection)]_vars
  BY <1>1
<1> QED
  BY <1>2, InvHolds, PTL DEF Spec, StopIsFinal
=============================================================================
