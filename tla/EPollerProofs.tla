--------------------------- MODULE EPollerProofs ----------------------------
(***************************************************************************)
(* Proofs about EPoller, for any Channels and descriptors.                 *)
(***************************************************************************)
EXTENDS EPoller, TLAPS

(* The lives in which a Channel is known to the poller, and in which its owner *)
(* holds an open descriptor.                                                   *)
Known == {"up", "closing", "connecting"}
Holding == {"new", "up", "closing", "down", "connecting"}

(* What the poller and the kernel know of the Channels, and the owners of      *)
(* descriptors.                                                                *)
AddedInv ==
    \A c \in Channels : index[c] = "kAdded" =>
        /\ epoll[fdOf[c]] = c /\ channels[fdOf[c]] = c
        /\ interest[fdOf[c]] = events[c]

DeletedInv ==
    \A c \in Channels : index[c] = "kDeleted" =>
        epoll[fdOf[c]] = NoChannel /\ channels[fdOf[c]] = c

PointerInv ==
    \A f \in Fds :
        /\ epoll[f] # NoChannel => index[epoll[f]] = "kAdded" /\ fdOf[epoll[f]] = f
        /\ channels[f] # NoChannel => index[channels[f]] # "kNew" /\ fdOf[channels[f]] = f

LifeInv ==
    /\ \A c \in Channels : index[c] # "kNew" <=> life[c] \in Known
    /\ \A c \in Channels : life[c] = "none" <=> fdOf[c] = NoFd
    /\ \A c \in Channels : life[c] \in Holding => fdOf[c] \in open
    /\ \A c, d \in Channels :
          life[c] \in Holding /\ life[d] \in Holding /\ c # d => fdOf[c] # fdOf[d]

RegistryInv == AddedInv /\ DeletedInv /\ PointerInv /\ LifeInv /\ ~failed

(* Where the loop is, and which Channels it may still touch. *)
LoopInv ==
    /\ \A c \in active : life[c] \in Known
    /\ active # {} => phase = "handling"
    /\ current \notin active
    /\ current # NoChannel => phase = "handling" /\ life[current] \in Known \cup {"removed"}

Inv == TypeOK /\ RegistryInv /\ LoopInv

(* An empty poller satisfies the invariant. *)
LEMMA InvInit == Init => Inv
<1> SUFFICES ASSUME Init PROVE Inv
  OBVIOUS
<1>1. TypeOK
  BY NoChannelAssumption, NoFdAssumption DEF Init, TypeOK, Lives, Events
<1>2. RegistryInv
  BY DEF Init, RegistryInv, AddedInv, DeletedInv, PointerInv, LifeInv, Known, Holding
<1>3. LoopInv
  BY DEF Init, LoopInv
<1> QED
  BY <1>1, <1>2, <1>3 DEF Inv

(* A Channel with a descriptor has one of the existing ones. *)
LEMMA FdOfKnown ==
    ASSUME TypeOK, LifeInv, NEW c \in Channels, life[c] # "none"
    PROVE  fdOf[c] \in Fds
BY DEF TypeOK, LifeInv

(* A descriptor that is not open, or open for one Channel that is not known    *)
(* yet, is not in the epoll set.                                               *)
LEMMA FreeFd ==
    ASSUME TypeOK, RegistryInv, NEW f \in Fds,
           \/ f \notin open
           \/ \E c \in Channels : life[c] \in Holding \ Known /\ fdOf[c] = f
    PROVE  epoll[f] = NoChannel /\ channels[f] = NoChannel
<1> USE DEF TypeOK, RegistryInv, PointerInv, LifeInv, Known, Holding
<1>1. ASSUME NEW d \in Channels, life[d] \in Known, fdOf[d] = f PROVE FALSE
  BY <1>1
<1>2. epoll[f] = NoChannel
  BY <1>1
<1>3. channels[f] = NoChannel
  BY <1>1
<1> QED
  BY <1>2, <1>3

(* updateChannel() of a Channel whose owner has an open descriptor. *)
LEMMA UpdateKeeps ==
    ASSUME TypeOK, RegistryInv, NEW c \in Channels, NEW ev \in SUBSET Events,
           life[c] \in {"new", "up", "closing"}, UpdateChannel(c, ev),
           NEW l \in {"up", "closing"}, life' = [life EXCEPT ![c] = l],
           UNCHANGED <<fdOf, open>>
    PROVE  /\ RegistryInv'
           /\ events' \in [Channels -> SUBSET Events]
           /\ index' \in [Channels -> {"kNew", "kAdded", "kDeleted"}]
           /\ channels' \in [Fds -> Channels \cup {NoChannel}]
           /\ epoll' \in [Fds -> Channels \cup {NoChannel}]
           /\ interest' \in [Fds -> SUBSET Events]
           /\ failed' \in BOOLEAN
           /\ life' \in [Channels -> Lives]
<1> DEFINE f == fdOf[c]
           added == ~(index[c] = "kAdded" /\ ev = {})
<1>1. f \in Fds
  BY FdOfKnown DEF RegistryInv
<1>2. /\ events' = [events EXCEPT ![c] = ev]
      /\ index' = [index EXCEPT ![c] = IF added THEN "kAdded" ELSE "kDeleted"]
      /\ epoll' = [epoll EXCEPT ![f] = IF added THEN c ELSE NoChannel]
      /\ interest' = [interest EXCEPT ![f] = ev]
      /\ fdOf' = fdOf /\ open' = open
  BY DEF UpdateChannel, TypeOK
<1>3. channels' = [channels EXCEPT ![f] = c]
  <2>1. CASE index[c] = "kNew"
    BY <2>1 DEF UpdateChannel
  <2>2. CASE index[c] # "kNew"
    <3>1. channels[f] = c
      BY <2>2 DEF RegistryInv, AddedInv, DeletedInv, TypeOK
    <3> QED
      BY <2>2, <3>1, <1>1 DEF UpdateChannel, TypeOK
  <2> QED
    BY <2>1, <2>2
<1>4. ~failed'
  <2>1. index[c] = "kNew" => epoll[f] = NoChannel
    BY <1>1, FreeFd DEF RegistryInv, LifeInv, Known, Holding
  <2>2. (index[c] # "kAdded") <=> epoll[f] = NoChannel
    BY <2>1, NoChannelAssumption DEF RegistryInv, AddedInv, DeletedInv, TypeOK
  <2> QED
    BY <2>2 DEF UpdateChannel, CtlFails, RegistryInv
<1>5. \A d \in Channels : d # c /\ index[d] # "kNew" => fdOf[d] # f
  BY DEF RegistryInv, LifeInv, Known, Holding
<1>6. LifeInv'
  BY <1>2 DEF RegistryInv, LifeInv, Known, Holding, TypeOK
<1>7. AddedInv'
  <2> SUFFICES ASSUME NEW d \in Channels, index'[d] = "kAdded"
               PROVE  /\ epoll'[fdOf[d]] = d /\ channels'[fdOf[d]] = d
                      /\ interest'[fdOf[d]] = events'[d]
    BY <1>2 DEF AddedInv
  <2>1. CASE d = c
    BY <2>1, <1>1, <1>2, <1>3 DEF TypeOK
  <2>2. CASE d # c
    <3>1. index[d] = "kAdded" /\ fdOf[d] # f /\ fdOf[d] \in Fds
      BY <2>2, <1>2, <1>5, FdOfKnown DEF TypeOK, RegistryInv, LifeInv, Known
    <3> QED
      BY <2>2, <3>1, <1>2, <1>3 DEF TypeOK, RegistryInv, AddedInv
  <2> QED
    BY <2>1, <2>2
<1>8. DeletedInv'
  <2> SUFFICES ASSUME NEW d \in Channels, index'[d] = "kDeleted"
               PROVE  epoll'[fdOf[d]] = NoChannel /\ channels'[fdOf[d]] = d
    BY <1>2 DEF DeletedInv
  <2>1. CASE d = c
    BY <2>1, <1>1, <1>2, <1>3 DEF TypeOK
  <2>2. CASE d # c
    <3>1. index[d] = "kDeleted" /\ fdOf[d] # f /\ fdOf[d] \in Fds
      BY <2>2, <1>2, <1>5, FdOfKnown DEF TypeOK, RegistryInv, LifeInv, Known
    <3> QED
      BY <2>2, <3>1, <1>2, <1>3 DEF TypeOK, RegistryInv, DeletedInv
  <2> QED
    BY <2>1, <2>2
<1>9. PointerInv'
  <2> SUFFICES ASSUME NEW g \in Fds
               PROVE  /\ epoll'[g] # NoChannel =>
                           index'[epoll'[g]] = "kAdded" /\ fdOf[epoll'[g]] = g
                      /\ channels'[g] # NoChannel =>
                           index'[channels'[g]] # "kNew" /\ fdOf[channels'[g]] = g
    BY <1>2 DEF PointerInv
  <2>1. CASE g = f
    BY <2>1, <1>1, <1>2, <1>3 DEF TypeOK
  <2>2. CASE g # f
    <3>1. epoll'[g] = epoll[g] /\ channels'[g] = channels[g]
      BY <2>2, <1>1, <1>2, <1>3 DEF TypeOK
    <3>2. epoll[g] # c /\ channels[g] # c
      BY <2>2, NoChannelAssumption DEF RegistryInv, PointerInv
    <3> QED
      BY <3>1, <3>2, <1>2 DEF TypeOK, RegistryInv, PointerInv
  <2> QED
    BY <2>1, <2>2
<1>10. RegistryInv'
  BY <1>4, <1>6, <1>7, <1>8, <1>9 DEF RegistryInv
<1>11. /\ events' \in [Channels -> SUBSET Events]
       /\ index' \in [Channels -> {"kNew", "kAdded", "kDeleted"}]
       /\ interest' \in [Fds -> SUBSET Events]
  BY <1>2 DEF TypeOK
<1>12. /\ channels' \in [Fds -> Channels \cup {NoChannel}]
       /\ epoll' \in [Fds -> Channels \cup {NoChannel}]
  BY <1>2, <1>3 DEF TypeOK
<1>13. life' \in [Channels -> Lives] /\ failed' \in BOOLEAN
  BY <1>4 DEF TypeOK, Lives, UpdateChannel, CtlFails
<1> QED
  BY <1>10, <1>11, <1>12, <1>13

(* disableAllEvents() and removeChannel() of a known Channel. *)
LEMMA RemoveKeeps ==
    ASSUME TypeOK, RegistryInv, NEW c \in Channels,
           life[c] \in Known, DisableAndRemove(c),
           NEW l \in {"down", "removed"}, life' = [life EXCEPT ![c] = l],
           fdOf' = fdOf,
           open' = open \/ (l = "removed" /\ open' = open \ {fdOf[c]})
    PROVE  /\ RegistryInv'
           /\ events' \in [Channels -> SUBSET Events]
           /\ index' \in [Channels -> {"kNew", "kAdded", "kDeleted"}]
           /\ channels' \in [Fds -> Channels \cup {NoChannel}]
           /\ epoll' \in [Fds -> Channels \cup {NoChannel}]
           /\ interest' \in [Fds -> SUBSET Events]
           /\ failed' \in BOOLEAN
           /\ life' \in [Channels -> Lives]
<1> DEFINE f == fdOf[c]
<1>1. f \in Fds
  BY FdOfKnown DEF RegistryInv, Known
<1>2. /\ events' = [events EXCEPT ![c] = {}]
      /\ index' = [index EXCEPT ![c] = "kNew"]
      /\ channels' = [channels EXCEPT ![f] = NoChannel]
      /\ epoll' = [epoll EXCEPT ![f] = NoChannel]
      /\ interest' = [interest EXCEPT ![f] = {}]
  BY DEF DisableAndRemove
<1>3. ~failed'
  <2>1. (index[c] # "kAdded") <=> epoll[f] = NoChannel
    BY NoChannelAssumption DEF RegistryInv, AddedInv, DeletedInv, LifeInv, TypeOK
  <2> QED
    BY <2>1 DEF DisableAndRemove, CtlFails, RegistryInv
<1>4. \A d \in Channels : d # c /\ life[d] \in Holding => fdOf[d] # f
  BY DEF RegistryInv, LifeInv, Known, Holding
<1>5. LifeInv'
  <2>1. /\ \A d \in Channels : (index'[d] # "kNew" <=> life'[d] \in Known)
        /\ \A d \in Channels : (life'[d] = "none" <=> fdOf[d] = NoFd)
    BY <1>2 DEF RegistryInv, LifeInv, Known, TypeOK
  <2>2. \A d \in Channels : life'[d] \in Holding => fdOf[d] \in open'
    BY <1>4 DEF RegistryInv, LifeInv, Known, Holding, TypeOK
  <2>3. \A d, e \in Channels :
          life'[d] \in Holding /\ life'[e] \in Holding /\ d # e => fdOf[d] # fdOf[e]
    BY <1>4 DEF RegistryInv, LifeInv, Known, Holding, TypeOK
  <2> QED
    BY <2>1, <2>2, <2>3 DEF LifeInv
<1>6. ASSUME NEW d \in Channels, index'[d] # "kNew"
      PROVE  /\ d # c /\ index'[d] = index[d] /\ events'[d] = events[d]
             /\ fdOf[d] \in Fds /\ fdOf[d] # f
             /\ epoll'[fdOf[d]] = epoll[fdOf[d]] /\ channels'[fdOf[d]] = channels[fdOf[d]]
             /\ interest'[fdOf[d]] = interest[fdOf[d]]
  <2>1. d # c /\ index'[d] = index[d] /\ events'[d] = events[d]
    BY <1>2, <1>6 DEF TypeOK
  <2>2. life[d] \in Known
    BY <2>1, <1>6 DEF RegistryInv, LifeInv
  <2>3. fdOf[d] \in Fds /\ fdOf[d] # f
    BY <2>1, <2>2, <1>4, FdOfKnown DEF RegistryInv, Known, Holding
  <2> QED
    BY <2>1, <2>3, <1>1, <1>2 DEF TypeOK
<1>7. AddedInv' /\ DeletedInv'
  BY <1>6 DEF AddedInv, DeletedInv, RegistryInv
<1>8. PointerInv'
  <2> SUFFICES ASSUME NEW g \in Fds
               PROVE  /\ epoll'[g] # NoChannel =>
                           index'[epoll'[g]] = "kAdded" /\ fdOf[epoll'[g]] = g
                      /\ channels'[g] # NoChannel =>
                           index'[channels'[g]] # "kNew" /\ fdOf[channels'[g]] = g
    BY DEF PointerInv
  <2>1. CASE g = f
    BY <2>1, <1>1, <1>2 DEF TypeOK
  <2>2. CASE g # f
    <3>1. epoll'[g] = epoll[g] /\ channels'[g] = channels[g]
      BY <2>2, <1>1, <1>2 DEF TypeOK
    <3>2. epoll[g] # c /\ channels[g] # c
      BY <2>2, NoChannelAssumption DEF RegistryInv, PointerInv
    <3> QED
      BY <3>1, <3>2, <1>2 DEF TypeOK, RegistryInv, PointerInv
  <2> QED
    BY <2>1, <2>2
<1>9. RegistryInv'
  BY <1>3, <1>5, <1>7, <1>8 DEF RegistryInv
<1>10. /\ events' \in [Channels -> SUBSET Events]
       /\ index' \in [Channels -> {"kNew", "kAdded", "kDeleted"}]
       /\ interest' \in [Fds -> SUBSET Events]
  BY <1>2 DEF TypeOK
<1>11. /\ channels' \in [Fds -> Channels \cup {NoChannel}]
       /\ epoll' \in [Fds -> Channels \cup {NoChannel}]
  BY <1>2 DEF TypeOK
<1>12. life' \in [Channels -> Lives] /\ failed' \in BOOLEAN
  BY DEF TypeOK, Lives, DisableAndRemove, CtlFails
<1> QED
  BY <1>9, <1>10, <1>11, <1>12

(* A Channel added on a descriptor that no known Channel has, by connecting(). *)
LEMMA ConnectingKeeps ==
    ASSUME TypeOK, RegistryInv, NEW c \in Channels, NEW f \in Fds, Connecting(c, f)
    PROVE  TypeOK' /\ RegistryInv'
<1>1. /\ life[c] = "none" /\ f \notin open
      /\ life' = [life EXCEPT ![c] = "connecting"]
      /\ fdOf' = [fdOf EXCEPT ![c] = f]
      /\ open' = open \cup {f}
      /\ events' = [events EXCEPT ![c] = {"write"}]
      /\ index' = [index EXCEPT ![c] = "kAdded"]
      /\ channels' = [channels EXCEPT ![f] = c]
      /\ epoll' = [epoll EXCEPT ![f] = c]
      /\ interest' = [interest EXCEPT ![f] = {"write"}]
      /\ failed' = (failed \/ epoll[f] # NoChannel)
      /\ UNCHANGED <<phase, active, current, revents, pending, batch>>
  BY DEF Connecting, loopState
<1>2. epoll[f] = NoChannel /\ channels[f] = NoChannel
  BY <1>1, FreeFd
<1>3. TypeOK'
  BY <1>1 DEF TypeOK, Lives, Events
<1>4. \A d \in Channels : d # c /\ life[d] \in Holding => fdOf[d] # f /\ fdOf[d] \in Fds
  BY <1>1, FdOfKnown DEF RegistryInv, LifeInv, Holding
<1>5. LifeInv'
  <2>1. /\ \A d \in Channels : (index'[d] # "kNew" <=> life'[d] \in Known)
        /\ \A d \in Channels : (life'[d] = "none" <=> fdOf'[d] = NoFd)
    BY <1>1, NoFdAssumption DEF RegistryInv, LifeInv, Known, TypeOK
  <2>2. \A d \in Channels : life'[d] \in Holding => fdOf'[d] \in open'
    BY <1>1 DEF RegistryInv, LifeInv, Holding, TypeOK
  <2>3. \A d, e \in Channels :
          life'[d] \in Holding /\ life'[e] \in Holding /\ d # e => fdOf'[d] # fdOf'[e]
    BY <1>1, <1>4 DEF RegistryInv, LifeInv, Holding, TypeOK
  <2> QED
    BY <2>1, <2>2, <2>3 DEF LifeInv
<1>6. ASSUME NEW d \in Channels, index'[d] # "kNew", d # c
      PROVE  /\ index'[d] = index[d] /\ events'[d] = events[d]
             /\ fdOf'[d] = fdOf[d] /\ fdOf[d] \in Fds /\ fdOf[d] # f
             /\ epoll'[fdOf[d]] = epoll[fdOf[d]] /\ channels'[fdOf[d]] = channels[fdOf[d]]
             /\ interest'[fdOf[d]] = interest[fdOf[d]]
  <2>1. index'[d] = index[d] /\ events'[d] = events[d] /\ fdOf'[d] = fdOf[d]
    BY <1>1, <1>6 DEF TypeOK
  <2>2. life[d] \in Holding
    BY <2>1, <1>6 DEF RegistryInv, LifeInv, Known, Holding
  <2>3. fdOf[d] \in Fds /\ fdOf[d] # f
    BY <2>2, <1>4, <1>6
  <2> QED
    BY <2>1, <2>3, <1>1 DEF TypeOK
<1>7. /\ index'[c] = "kAdded" /\ fdOf'[c] = f /\ events'[c] = {"write"}
      /\ epoll'[f] = c /\ channels'[f] = c /\ interest'[f] = {"write"}
  BY <1>1 DEF TypeOK
<1>8. AddedInv' /\ DeletedInv'
  <2>1. ASSUME NEW d \in Channels, index'[d] = "kAdded"
        PROVE  /\ epoll'[fdOf'[d]] = d /\ channels'[fdOf'[d]] = d
               /\ interest'[fdOf'[d]] = events'[d]
    <3>1. CASE d = c
      BY <3>1, <1>7
    <3>2. CASE d # c
      BY <3>2, <2>1, <1>6 DEF AddedInv, RegistryInv
    <3> QED
      BY <3>1, <3>2
  <2>2. ASSUME NEW d \in Channels, index'[d] = "kDeleted"
        PROVE  epoll'[fdOf'[d]] = NoChannel /\ channels'[fdOf'[d]] = d
    <3>1. d # c
      BY <2>2, <1>7
    <3> QED
      BY <3>1, <2>2, <1>6 DEF DeletedInv, RegistryInv
  <2> QED
    BY <2>1, <2>2 DEF AddedInv, DeletedInv
<1>9. PointerInv'
  <2> SUFFICES ASSUME NEW g \in Fds
               PROVE  /\ epoll'[g] # NoChannel =>
                           index'[epoll'[g]] = "kAdded" /\ fdOf'[epoll'[g]] = g
                      /\ channels'[g] # NoChannel =>
                           index'[channels'[g]] # "kNew" /\ fdOf'[channels'[g]] = g
    BY DEF PointerInv
  <2>1. CASE g = f
    BY <2>1, <1>7
  <2>2. CASE g # f
    <3>1. epoll'[g] = epoll[g] /\ channels'[g] = channels[g]
      BY <2>2, <1>1 DEF TypeOK
    <3>2. epoll[g] # c /\ channels[g] # c
      <4>1. index[c] = "kNew"
        BY <1>1 DEF RegistryInv, LifeInv, Known
      <4> QED
        BY <4>1, NoChannelAssumption DEF RegistryInv, PointerInv
    <3> QED
      BY <3>1, <3>2, <1>1 DEF TypeOK, RegistryInv, PointerInv
  <2> QED
    BY <2>1, <2>2
<1> QED
  BY <1>1, <1>2, <1>3, <1>5, <1>8, <1>9 DEF RegistryInv

(* The descriptor of a connector's Channel c is passed on to a connection d. *)
LEMMA ConnectedKeeps ==
    ASSUME TypeOK, RegistryInv, NEW c \in Channels, NEW d \in Channels, Connected(c, d)
    PROVE  TypeOK' /\ RegistryInv'
<1> DEFINE f == fdOf[c]
<1>1. /\ life[c] = "connecting" /\ life[d] = "none" /\ c # d
      /\ life' = [life EXCEPT ![d] = "up", ![c] = "removed"]
      /\ fdOf' = [fdOf EXCEPT ![d] = f]
      /\ events' = [events EXCEPT ![c] = {}, ![d] = {"read"}]
      /\ index' = [index EXCEPT ![c] = "kNew", ![d] = "kAdded"]
      /\ channels' = [channels EXCEPT ![f] = d]
      /\ epoll' = [epoll EXCEPT ![f] = d]
      /\ interest' = [interest EXCEPT ![f] = {"read"}]
      /\ failed' = (failed \/ (index[c] # "kAdded" <=> epoll[f] # NoChannel))
      /\ pending' = pending \cup {c}
      /\ UNCHANGED <<open, phase, active, current, revents, batch>>
  BY DEF Connected, ResetLater, CtlFails, loopState
<1>2. f \in Fds /\ f \in open
  BY <1>1, FdOfKnown DEF RegistryInv, LifeInv, Holding
<1> HIDE DEF f
<1>3. TypeOK'
  <2>1. life' \in [Channels -> Lives] /\ events' \in [Channels -> SUBSET Events]
        /\ interest' \in [Fds -> SUBSET Events]
    BY <1>1, <1>2 DEF TypeOK, Lives, Events
  <2>2. fdOf' \in [Channels -> Fds \cup {NoFd}]
    BY <1>1, <1>2 DEF TypeOK
  <2>3. index' \in [Channels -> {"kNew", "kAdded", "kDeleted"}]
    BY <1>1 DEF TypeOK
  <2>4. channels' \in [Fds -> Channels \cup {NoChannel}]
        /\ epoll' \in [Fds -> Channels \cup {NoChannel}]
    BY <1>1, <1>2 DEF TypeOK
  <2>5. failed' \in BOOLEAN
    BY <1>1
  <2> QED
    BY <1>1, <2>1, <2>2, <2>3, <2>4, <2>5 DEF TypeOK
<1>4. \A e \in Channels : e # c /\ life[e] \in Holding => fdOf[e] # f /\ fdOf[e] \in Fds
  BY <1>1, FdOfKnown DEF RegistryInv, LifeInv, Holding, f
<1>5. LifeInv'
  <2>1. /\ \A e \in Channels : (index'[e] # "kNew" <=> life'[e] \in Known)
        /\ \A e \in Channels : (life'[e] = "none" <=> fdOf'[e] = NoFd)
    BY <1>1, <1>2, NoFdAssumption DEF RegistryInv, LifeInv, Known, TypeOK
  <2>2. \A e \in Channels : life'[e] \in Holding => fdOf'[e] \in open'
    BY <1>1, <1>2 DEF RegistryInv, LifeInv, Holding, TypeOK
  <2>3. \A e, g \in Channels :
          life'[e] \in Holding /\ life'[g] \in Holding /\ e # g => fdOf'[e] # fdOf'[g]
    BY <1>1, <1>4 DEF RegistryInv, LifeInv, Holding, TypeOK
  <2> QED
    BY <2>1, <2>2, <2>3 DEF LifeInv
<1>6. ASSUME NEW e \in Channels, index'[e] # "kNew", e # d
      PROVE  /\ e # c /\ index'[e] = index[e] /\ events'[e] = events[e]
             /\ fdOf'[e] = fdOf[e] /\ fdOf[e] \in Fds /\ fdOf[e] # f
             /\ epoll'[fdOf[e]] = epoll[fdOf[e]] /\ channels'[fdOf[e]] = channels[fdOf[e]]
             /\ interest'[fdOf[e]] = interest[fdOf[e]]
  <2>1. e # c /\ index'[e] = index[e] /\ events'[e] = events[e] /\ fdOf'[e] = fdOf[e]
    BY <1>1, <1>6 DEF TypeOK
  <2>2. life[e] \in Holding
    BY <2>1, <1>6 DEF RegistryInv, LifeInv, Known, Holding
  <2>3. fdOf[e] \in Fds /\ fdOf[e] # f
    BY <2>1, <2>2, <1>4
  <2> QED
    BY <2>1, <2>3, <1>1 DEF TypeOK
<1>7. /\ index'[d] = "kAdded" /\ fdOf'[d] = f /\ events'[d] = {"read"}
      /\ epoll'[f] = d /\ channels'[f] = d /\ interest'[f] = {"read"}
  BY <1>1, <1>2 DEF TypeOK
<1>8. AddedInv' /\ DeletedInv'
  <2>1. ASSUME NEW e \in Channels, index'[e] = "kAdded"
        PROVE  /\ epoll'[fdOf'[e]] = e /\ channels'[fdOf'[e]] = e
               /\ interest'[fdOf'[e]] = events'[e]
    <3>1. CASE e = d
      BY <3>1, <1>7
    <3>2. CASE e # d
      BY <3>2, <2>1, <1>6 DEF AddedInv, RegistryInv
    <3> QED
      BY <3>1, <3>2
  <2>2. ASSUME NEW e \in Channels, index'[e] = "kDeleted"
        PROVE  epoll'[fdOf'[e]] = NoChannel /\ channels'[fdOf'[e]] = e
    <3>1. e # d
      BY <2>2, <1>7
    <3> QED
      BY <3>1, <2>2, <1>6 DEF DeletedInv, RegistryInv
  <2> QED
    BY <2>1, <2>2 DEF AddedInv, DeletedInv
<1>9. PointerInv'
  <2> SUFFICES ASSUME NEW g \in Fds
               PROVE  /\ epoll'[g] # NoChannel =>
                           index'[epoll'[g]] = "kAdded" /\ fdOf'[epoll'[g]] = g
                      /\ channels'[g] # NoChannel =>
                           index'[channels'[g]] # "kNew" /\ fdOf'[channels'[g]] = g
    BY DEF PointerInv
  <2>1. CASE g = f
    BY <2>1, <1>7
  <2>2. CASE g # f
    <3>1. epoll'[g] = epoll[g] /\ channels'[g] = channels[g]
      BY <2>2, <1>1 DEF TypeOK
    <3>2. epoll[g] \notin {c, d} /\ channels[g] \notin {c, d}
      <4>1. index[d] = "kNew" /\ fdOf[c] = f
        BY <1>1 DEF RegistryInv, LifeInv, Known, f
      <4> QED
        BY <4>1, <2>2, NoChannelAssumption DEF RegistryInv, PointerInv
    <3> QED
      BY <3>1, <3>2, <1>1 DEF TypeOK, RegistryInv, PointerInv
  <2> QED
    BY <2>1, <2>2
<1>10. ~failed'
  <2>1. (index[c] # "kAdded") <=> epoll[f] = NoChannel
    BY <1>1, NoChannelAssumption
       DEF RegistryInv, AddedInv, DeletedInv, LifeInv, Known, TypeOK, f
  <2> QED
    BY <2>1, <1>1 DEF RegistryInv
<1> QED
  BY <1>3, <1>5, <1>8, <1>9, <1>10 DEF RegistryInv

(* An accepted descriptor gets a Channel; the poller does not know it yet. *)
LEMMA NewConnectionKeeps ==
    ASSUME TypeOK, RegistryInv, NEW c \in Channels, NEW f \in Fds, NewConnection(c, f)
    PROVE  TypeOK' /\ RegistryInv'
<1>1. /\ life[c] = "none" /\ f \notin open
      /\ life' = [life EXCEPT ![c] = "new"]
      /\ fdOf' = [fdOf EXCEPT ![c] = f]
      /\ open' = open \cup {f}
      /\ pending' = pending \cup {c}
      /\ UNCHANGED <<events, index, channels, epoll, interest, failed,
                     phase, active, current, revents, batch>>
  BY DEF NewConnection, registry, loopState
<1>2. TypeOK'
  BY <1>1 DEF TypeOK, Lives
<1>3. index[c] = "kNew"
  BY <1>1 DEF RegistryInv, LifeInv, Known
<1>4. \A d \in Channels : d # c => fdOf'[d] = fdOf[d]
  BY <1>1 DEF TypeOK
<1>5. AddedInv' /\ DeletedInv'
  BY <1>1, <1>3, <1>4 DEF RegistryInv, AddedInv, DeletedInv
<1>6. PointerInv'
  BY <1>1, <1>3, <1>4 DEF RegistryInv, PointerInv, TypeOK
<1>7. LifeInv'
  <2>1. /\ \A d \in Channels : (index'[d] # "kNew" <=> life'[d] \in Known)
        /\ \A d \in Channels : (life'[d] = "none" <=> fdOf'[d] = NoFd)
    BY <1>1, <1>3, NoFdAssumption DEF RegistryInv, LifeInv, Known, TypeOK
  <2>2. \A d \in Channels : life'[d] \in Holding => fdOf'[d] \in open'
    BY <1>1 DEF RegistryInv, LifeInv, Holding, TypeOK
  <2>3. \A d, e \in Channels :
          life'[d] \in Holding /\ life'[e] \in Holding /\ d # e => fdOf'[d] # fdOf'[e]
    BY <1>1 DEF RegistryInv, LifeInv, Holding, TypeOK
  <2> QED
    BY <2>1, <2>2, <2>3 DEF LifeInv
<1> QED
  BY <1>1, <1>2, <1>5, <1>6, <1>7 DEF RegistryInv

(* A connection that is down, or a Channel that was removed, is destroyed; with *)
(* the former its descriptor is closed.                                         *)
LEMMA DestroyKeeps ==
    ASSUME TypeOK, RegistryInv, NEW c \in Channels, Destroy(c)
    PROVE  TypeOK' /\ RegistryInv'
<1>1. /\ life[c] = "down"
      /\ life' = [life EXCEPT ![c] = "dead"]
      /\ open' = open \ {fdOf[c]}
      /\ epoll' = [epoll EXCEPT ![fdOf[c]] = NoChannel]
      /\ UNCHANGED <<fdOf, events, index, channels, interest, failed,
                     phase, active, current, revents, pending, batch>>
  BY DEF Destroy, loopState
<1>2. fdOf[c] \in Fds
  BY <1>1, FdOfKnown DEF RegistryInv
<1>3. epoll[fdOf[c]] = NoChannel
  BY <1>1, <1>2, FreeFd DEF Holding, Known
<1>4. epoll' = epoll
  BY <1>1, <1>2, <1>3 DEF TypeOK
<1>5. TypeOK'
  BY <1>1, <1>4 DEF TypeOK, Lives
<1>6. LifeInv'
  <2>1. \A d \in Channels : d # c /\ life[d] \in Holding => fdOf[d] # fdOf[c]
    BY <1>1 DEF RegistryInv, LifeInv, Holding
  <2> QED
    BY <1>1, <2>1 DEF RegistryInv, LifeInv, Known, Holding, TypeOK
<1> QED
  BY <1>1, <1>4, <1>5, <1>6 DEF RegistryInv, AddedInv, DeletedInv, PointerInv

(* Destroying a channel that was removed keeps the invariant. *)
LEMMA ResetKeeps ==
    ASSUME TypeOK, RegistryInv, NEW c \in Channels, ResetChannel(c)
    PROVE  TypeOK' /\ RegistryInv'
<1>1. /\ life[c] = "removed"
      /\ life' = [life EXCEPT ![c] = "dead"]
      /\ batch' = batch \ {c}
      /\ UNCHANGED <<fdOf, open, events, index, channels, epoll, interest, failed,
                     phase, active, current, revents, pending>>
  BY DEF ResetChannel, registry, loopState
<1>2. TypeOK'
  BY <1>1 DEF TypeOK, Lives
<1>3. LifeInv'
  BY <1>1 DEF RegistryInv, LifeInv, Known, Holding, TypeOK
<1> QED
  BY <1>1, <1>2, <1>3 DEF RegistryInv, AddedInv, DeletedInv, PointerInv

(* The loop's own steps leave the registry and its owners alone. *)
LEMMA LoopStepKeeps ==
    ASSUME Inv, UNCHANGED <<life, fdOf, events, index, channels, epoll, interest, open, failed>>
    PROVE  RegistryInv'
BY DEF Inv, RegistryInv, AddedInv, DeletedInv, PointerInv, LifeInv

(* The steps of an owner keep LoopInv if they do not touch the loop and leave  *)
(* the Channels the loop may still touch in a life of that kind.               *)
LEMMA OwnerKeepsLoop ==
    ASSUME Inv, NEW c \in Channels, NEW l, life' = [life EXCEPT ![c] = l],
           UNCHANGED <<phase, active, current>>,
           l \in Known \/ (c \notin active /\ c # current)
             \/ (c \notin active /\ l = "removed")
    PROVE  LoopInv'
BY NoChannelAssumption DEF Inv, LoopInv, TypeOK

(* Every step keeps the invariant. *)
LEMMA InvNext == Inv /\ [Next]_vars => Inv'
<1> SUFFICES ASSUME Inv, [Next]_vars PROVE Inv'
  OBVIOUS
<1> USE DEF registry, loopState
<1>1. CASE Poll
  <2>1. RegistryInv'
    BY <1>1, LoopStepKeeps DEF Poll
  <2>2. PICK fs \in SUBSET {f \in Fds : epoll[f] # NoChannel} :
            /\ active' = {epoll[f] : f \in fs}
            /\ revents' \in [Channels -> SUBSET (Events \cup {"error"})]
    BY <1>1 DEF Poll
  <2>3. \A c \in active' : c \in Channels /\ life[c] \in Known
    BY <2>2 DEF Inv, TypeOK, RegistryInv, PointerInv, LifeInv
  <2>4. current = NoChannel
    BY <1>1 DEF Inv, LoopInv, Poll
  <2> QED
    BY <1>1, <2>1, <2>2, <2>3, <2>4, NoChannelAssumption DEF Inv, TypeOK, LoopInv, Poll
<1>2. CASE HandlerReturns
  <2>1. RegistryInv'
    BY <1>2, LoopStepKeeps DEF HandlerReturns
  <2> QED
    BY <1>2, <2>1, NoChannelAssumption DEF Inv, TypeOK, LoopInv, HandlerReturns
<1>3. CASE TakeFunctors
  <2>1. RegistryInv'
    BY <1>3, LoopStepKeeps DEF TakeFunctors
  <2> QED
    BY <1>3, <2>1 DEF Inv, TypeOK, LoopInv, TakeFunctors
<1>4. CASE FunctorsDone
  <2>1. RegistryInv'
    BY <1>4, LoopStepKeeps DEF FunctorsDone
  <2> QED
    BY <1>4, <2>1 DEF Inv, TypeOK, LoopInv, FunctorsDone
<1>5. ASSUME NEW c \in Channels, HandleEvent(c) PROVE Inv'
  <2>1. RegistryInv'
    BY <1>5, LoopStepKeeps DEF HandleEvent
  <2> QED
    BY <1>5, <2>1 DEF Inv, TypeOK, LoopInv, HandleEvent
<1>6. ASSUME NEW c \in Channels, ConnectEstablished(c) PROVE Inv'
  <2>1. events[c] \cup {"read"} \in SUBSET Events
    BY DEF Inv, TypeOK, Events
  <2>2. TypeOK' /\ RegistryInv'
    BY <1>6, <2>1, UpdateKeeps DEF Inv, ConnectEstablished, TypeOK
  <2>3. LoopInv'
    BY <1>6, OwnerKeepsLoop DEF ConnectEstablished, Known
  <2> QED
    BY <2>2, <2>3 DEF Inv
<1>7. ASSUME NEW c \in Channels, EnableWriting(c) PROVE Inv'
  <2>1. events[c] \cup {"write"} \in SUBSET Events
    BY DEF Inv, TypeOK, Events
  <2>2. life' = [life EXCEPT ![c] = life[c]] /\ life[c] \in {"up", "closing"}
    BY <1>7 DEF Inv, TypeOK, EnableWriting
  <2>3. TypeOK' /\ RegistryInv'
    BY <1>7, <2>1, <2>2, UpdateKeeps DEF Inv, EnableWriting, TypeOK
  <2>4. LoopInv'
    BY <1>7, <2>2, OwnerKeepsLoop DEF EnableWriting, Known
  <2> QED
    BY <2>3, <2>4 DEF Inv
<1>8. ASSUME NEW c \in Channels, DisableWriting(c) PROVE Inv'
  <2>1. events[c] \ {"write"} \in SUBSET Events
    BY DEF Inv, TypeOK
  <2>2. life' = [life EXCEPT ![c] = life[c]] /\ life[c] \in {"up", "closing"}
    BY <1>8 DEF Inv, TypeOK, DisableWriting
  <2>3. TypeOK' /\ RegistryInv'
    BY <1>8, <2>1, <2>2, UpdateKeeps DEF Inv, DisableWriting, TypeOK
  <2>4. LoopInv'
    BY <1>8, <2>2, OwnerKeepsLoop DEF DisableWriting, Known
  <2> QED
    BY <2>3, <2>4 DEF Inv
<1>9. ASSUME NEW c \in Channels, HandleClose(c) PROVE Inv'
  <2>1. TypeOK' /\ RegistryInv'
    BY <1>9, UpdateKeeps DEF Inv, HandleClose, TypeOK
  <2>2. LoopInv'
    BY <1>9, OwnerKeepsLoop DEF HandleClose, Known
  <2> QED
    BY <2>1, <2>2 DEF Inv
<1>10. ASSUME NEW c \in Channels, RemoveConnection(c) PROVE Inv'
  <2>1. RegistryInv'
    BY <1>10, LoopStepKeeps DEF RemoveConnection
  <2> QED
    BY <1>10, <2>1 DEF Inv, TypeOK, LoopInv, RemoveConnection
<1>11. ASSUME NEW c \in Channels, ConnectDestroyed(c) PROVE Inv'
  <2>1. TypeOK' /\ RegistryInv'
    BY <1>11, RemoveKeeps DEF Inv, ConnectDestroyed, TypeOK, Known
  <2>2. c \notin active /\ c # current
    BY <1>11, NoChannelAssumption DEF Inv, LoopInv, ConnectDestroyed
  <2>3. LoopInv'
    BY <1>11, <2>2, OwnerKeepsLoop DEF ConnectDestroyed
  <2> QED
    BY <2>1, <2>3 DEF Inv
<1>12. ASSUME NEW c \in Channels, Destroy(c) PROVE Inv'
  <2>1. TypeOK' /\ RegistryInv'
    BY <1>12, DestroyKeeps DEF Inv
  <2>2. c \notin active /\ c # current
    BY <1>12, NoChannelAssumption DEF Inv, LoopInv, Destroy, Known
  <2>3. LoopInv'
    BY <1>12, <2>2, OwnerKeepsLoop DEF Destroy
  <2> QED
    BY <2>1, <2>3 DEF Inv
<1>13. ASSUME NEW c \in Channels, ConnectFailed(c) PROVE Inv'
  <2>1. TypeOK' /\ RegistryInv'
    <3>1. /\ life[c] \in Known /\ DisableAndRemove(c)
          /\ life' = [life EXCEPT ![c] = "removed"] /\ pending' = pending \cup {c}
          /\ open' = open \ {fdOf[c]} /\ fdOf' = fdOf
          /\ UNCHANGED <<phase, active, current, revents, batch>>
      BY <1>13 DEF ConnectFailed, ResetLater, Known
    <3>2. TypeOK /\ RegistryInv
      BY DEF Inv
    <3>3. /\ RegistryInv'
          /\ events' \in [Channels -> SUBSET Events]
          /\ index' \in [Channels -> {"kNew", "kAdded", "kDeleted"}]
          /\ channels' \in [Fds -> Channels \cup {NoChannel}]
          /\ epoll' \in [Fds -> Channels \cup {NoChannel}]
          /\ interest' \in [Fds -> SUBSET Events]
          /\ failed' \in BOOLEAN
          /\ life' \in [Channels -> Lives]
      BY <3>1, <3>2, RemoveKeeps
    <3> QED
      BY <3>1, <3>2, <3>3 DEF TypeOK
  <2>2. life' = [life EXCEPT ![c] = "removed"] /\ UNCHANGED <<phase, active, current>>
    BY <1>13 DEF ConnectFailed, ResetLater
  <2>3. c \notin active
    BY <1>13 DEF Inv, LoopInv, ConnectFailed
  <2>4. LoopInv'
    BY <2>2, <2>3, OwnerKeepsLoop
  <2> QED
    BY <2>1, <2>4 DEF Inv
<1>14. ASSUME NEW c \in Channels, ResetChannel(c) PROVE Inv'
  <2>1. TypeOK' /\ RegistryInv'
    BY <1>14, ResetKeeps DEF Inv
  <2>2. c \notin active /\ c # current
    BY <1>14, NoChannelAssumption DEF Inv, LoopInv, ResetChannel
  <2>3. LoopInv'
    BY <1>14, <2>2, OwnerKeepsLoop DEF ResetChannel
  <2> QED
    BY <2>1, <2>3 DEF Inv
<1>15. ASSUME NEW c \in Channels, NEW f \in Fds, NewConnection(c, f) PROVE Inv'
  <2>1. TypeOK' /\ RegistryInv'
    BY <1>15, NewConnectionKeeps DEF Inv
  <2>2. c \notin active /\ c # current
    BY <1>15, NoChannelAssumption DEF Inv, LoopInv, NewConnection, Known
  <2>3. LoopInv'
    BY <1>15, <2>2, OwnerKeepsLoop DEF NewConnection
  <2> QED
    BY <2>1, <2>3 DEF Inv
<1>16. ASSUME NEW c \in Channels, NEW f \in Fds, Connecting(c, f) PROVE Inv'
  <2>1. TypeOK' /\ RegistryInv'
    BY <1>16, ConnectingKeeps DEF Inv
  <2>2. LoopInv'
    BY <1>16, OwnerKeepsLoop DEF Connecting, Known
  <2> QED
    BY <2>1, <2>2 DEF Inv
<1>17. ASSUME NEW c \in Channels, NEW d \in Channels, Connected(c, d) PROVE Inv'
  <2>1. TypeOK' /\ RegistryInv'
    BY <1>17, ConnectedKeeps DEF Inv
  <2>2. LoopInv'
    <3>1. /\ life[c] = "connecting" /\ life[d] = "none" /\ current = c
          /\ life' = [life EXCEPT ![d] = "up", ![c] = "removed"]
          /\ UNCHANGED <<phase, active, current>>
      BY <1>17 DEF Connected, ResetLater
    <3>2. c \notin active /\ d \notin active
      BY <3>1 DEF Inv, LoopInv, Known
    <3>3. \A e \in active : life'[e] = life[e]
      BY <3>1, <3>2 DEF Inv, TypeOK
    <3>4. life'[c] = "removed"
      BY <3>1 DEF Inv, TypeOK
    <3> QED
      BY <3>1, <3>2, <3>3, <3>4 DEF Inv, LoopInv
  <2> QED
    BY <2>1, <2>2 DEF Inv
<1>18. CASE UNCHANGED vars
  BY <1>18 DEF vars, Inv, TypeOK, LoopInv, RegistryInv, AddedInv, DeletedInv, PointerInv, LifeInv
<1> QED
  BY <1>1, <1>2, <1>3, <1>4, <1>5, <1>6, <1>7, <1>8, <1>9, <1>10, <1>11, <1>12, <1>13, <1>14,
     <1>15, <1>16, <1>17, <1>18 DEF Next

(* Inv is an invariant: the argument behind the theorems below. *)
THEOREM RegistryInvariant == Spec => []Inv
<1> QED
  BY InvInit, InvNext, PTL DEF Spec

(* Every variable of the poller and its Channels keeps its type. *)
THEOREM EPollerTypeCorrect == Spec => []TypeOK
<1>1. Inv => TypeOK
  BY DEF Inv
<1> QED
  BY <1>1, RegistryInvariant, PTL

(* index_ tells what channels_ and the epoll set hold. *)
THEOREM IndexIsRight == Spec => []IndexMeaning
<1>1. Inv => IndexMeaning
  <2> SUFFICES ASSUME Inv, NEW c \in Channels, fdOf[c] # NoFd
               PROVE  /\ index[c] = "kNew" <=> channels[fdOf[c]] # c
                      /\ index[c] = "kAdded" <=> epoll[fdOf[c]] = c
    BY DEF IndexMeaning
  <2>1. fdOf[c] \in Fds
    BY DEF Inv, TypeOK
  <2> QED
    BY <2>1, NoChannelAssumption
       DEF Inv, TypeOK, RegistryInv, AddedInv, DeletedInv, PointerInv
<1> QED
  BY <1>1, RegistryInvariant, PTL

(* The kernel waits for the events each Channel has enabled. *)
THEOREM KernelIsRight == Spec => []KernelAgrees
<1>1. Inv => KernelAgrees
  BY DEF Inv, RegistryInv, AddedInv, KernelAgrees
<1> QED
  BY <1>1, RegistryInvariant, PTL

(* No Channel pointer that the loop, the poller or the kernel may follow        *)
(* dangles.                                                                     *)
THEOREM NoPointerDangles == Spec => []NoDangling
<1>1. Inv => NoDangling
  <2> SUFFICES ASSUME Inv PROVE NoDangling
    OBVIOUS
  <2>1. ASSUME NEW f \in Fds
        PROVE  /\ epoll[f] = NoChannel \/ life[epoll[f]] \notin {"none", "dead"}
               /\ channels[f] = NoChannel \/ life[channels[f]] \notin {"none", "dead"}
    BY DEF Inv, TypeOK, RegistryInv, PointerInv, LifeInv, Known
  <2>2. ASSUME NEW c \in active \cup {current}
        PROVE  c = NoChannel \/ life[c] \notin {"none", "dead"}
    BY DEF Inv, TypeOK, LoopInv, Known
  <2> QED
    BY <2>1, <2>2 DEF NoDangling
<1> QED
  BY <1>1, RegistryInvariant, PTL

(* No handler removes a Channel that is still to be handled. *)
THEOREM ActiveStayRegistered == Spec => []ActiveRegistered
<1>1. Inv => ActiveRegistered
  BY DEF Inv, TypeOK, RegistryInv, LifeInv, LoopInv, ActiveRegistered
<1> QED
  BY <1>1, RegistryInvariant, PTL

(* epoll_ctl() never fails. *)
THEOREM NoCtlFails == Spec => []CtlNeverFails
<1>1. Inv => CtlNeverFails
  BY DEF Inv, RegistryInv, CtlNeverFails
<1> QED
  BY <1>1, RegistryInvariant, PTL
=============================================================================
