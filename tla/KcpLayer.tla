------------------------------ MODULE KcpLayer ------------------------------
(***************************************************************************)
(* src/src/kcp/KcpLayer.cc with its users KcpServer and KcpClient: one     *)
(* server and several clients on a UDP network that loses and reorders.    *)
(* The control blocks are those of Ikcp.                                   *)
(*                                                                         *)
(* A node is a single loop thread: every action is one callback run to its *)
(* end.  Using an entry of connections_ that has no control block ends the *)
(* process (a null pointer, or assert(kcp)).  The network does not         *)
(* duplicate: see the README for what a second copy of a handshake         *)
(* datagram does to a conversation.                                        *)
(***************************************************************************)
EXTENDS Ikcp

CONSTANTS Server, Clients,
          MaxConnects,  \* connect() calls of one client
          MaxSends,     \* send() calls of one node
          MaxUnflushed, \* acknowledgements left over by updates within the interval
          DatagramLen   \* the size of KcpServer's and KcpClient's datagram_

ASSUME KcpLayerAssumption ==
  Server \notin Clients /\ IsFiniteSet(Clients) /\ MaxConnects \in Nat

Nodes == Clients \cup {Server}
Convs == 1 .. MaxConnects * Cardinality(Clients)
None == [absent |-> TRUE]   \* no control block: a null kcpcb_
NoAddr == "zero_address"    \* the peerAddr_ of an entry operator[] just made

\* No node's socket has the zero address.
ASSUME NoAddrAssumption == NoAddr \notin Nodes

VARIABLES conn,      \* connections_: conv -> [cb, peer]
          nextConv,  \* nextConv_
          connFd,    \* the counter of the eventfd connFd_
          dataFd,    \* the counter of the eventfd dataFd_
          curConv,   \* KcpServer::curConv_ and KcpClient::curConv_, 0: not set yet
          udp,       \* the datagrams in flight
          alive,     \* the processes that have not crashed
          calls,     \* connect() and send() calls so far
          said,      \* what each user sent on each conversation, as far as ikcp_send took it
          heard      \* what each user received on each conversation

layerVars == <<conn, nextConv, connFd, dataFd, curConv, udp, alive, calls, said, heard>>

LayerInit ==
  /\ conn = [n \in Nodes |-> [c \in Convs |-> [cb |-> None, peer |-> NoAddr]]]
  /\ nextConv = [n \in Nodes |-> 1]
  /\ connFd = [n \in Nodes |-> 0]
  /\ dataFd = [n \in Nodes |-> 0]
  /\ curConv = [n \in Nodes |-> 0]
  /\ udp = {}
  /\ alive = Nodes
  /\ calls = [n \in Nodes |-> [connect |-> 0, send |-> 0]]
  /\ said = [n \in Nodes |-> [c \in Convs |-> <<>>]]
  /\ heard = [n \in Nodes |-> [c \in Convs |-> <<>>]]

\* operator[] on a conversation without a control block gives a null pointer.
Usable(n, c) == c \in Convs /\ conn[n][c].cb # None

Crash(n) ==
  /\ alive' = alive \ {n}
  /\ UNCHANGED <<conn, nextConv, curConv, calls, said, heard>>

\* sendUdpMsg: a datagram for the zero address is refused by sendto and lost.
Datagrams(n, c, peer, out) ==
  IF peer = NoAddr THEN {}
  ELSE {[kind |-> "DATA", from |-> n, to |-> peer, conv |-> c, payload |-> d] :
          d \in ToSet(out)}

\* kcpUpdate on the control block cb of conversation c: ikcp_update flushes
\* unless the last flush was less than the interval ago.
KcpUpdate(n, c, cb, base) ==
  \/ /\ Len(cb.acklist) <= MaxUnflushed
     /\ conn' = [conn EXCEPT ![n][c].cb = cb]
     /\ udp' = base
  \/ \E due \in SUBSET {cb.snd_buf[i].sn : i \in DOMAIN cb.snd_buf},
        probeDue \in BOOLEAN :
       /\ conn' = [conn EXCEPT ![n][c].cb = Flushed(cb, due, probeDue)]
       /\ udp' = base \cup Datagrams(n, c, conn[n][c].peer, Output(cb, due, probeDue))

-----------------------------------------------------------------------------
(* The users' calls *)

\* KcpClient::connect: one SYN, no retry.
Connect(n) ==
  /\ n \in alive \cap Clients
  /\ calls[n].connect < MaxConnects
  /\ calls' = [calls EXCEPT ![n].connect = @ + 1]
  /\ udp' = udp \cup {[kind |-> "SYN", from |-> n, to |-> Server]}
  /\ UNCHANGED <<conn, nextConv, connFd, dataFd, curConv, alive, said, heard>>

\* KcpServer::send and KcpClient::send, on the conversation heard of last.  That
\* ikcp_send refuses a message goes unnoticed.
UserSend(n) ==
  LET c   == curConv[n]
      msg == <<n, calls[n].send>>
  IN
  /\ n \in alive
  /\ c # 0
  /\ calls[n].send < MaxSends
  /\ IF Usable(n, c)
       THEN /\ KcpUpdate(n, c, IkcpSend(conn[n][c].cb, msg), udp)
            /\ said' = [said EXCEPT ![n][c] = IF SendFits(msg) THEN Append(@, msg) ELSE @]
            /\ calls' = [calls EXCEPT ![n].send = @ + 1]
            /\ UNCHANGED <<alive, nextConv, curConv, heard>>
       ELSE Crash(n) /\ udp' = udp
  /\ UNCHANGED <<connFd, dataFd>>

\* handleConnection, when connFd_ is readable: the counter is taken for the id of
\* a conversation.
HandleConnection(n) ==
  /\ n \in alive
  /\ connFd[n] > 0
  /\ curConv' = [curConv EXCEPT ![n] = connFd[n]]
  /\ connFd' = [connFd EXCEPT ![n] = 0]
  /\ UNCHANGED <<conn, nextConv, dataFd, udp, alive, calls, said, heard>>

\* KcpServer::handleRead and KcpClient::handleRead with KcpLayer::receive, when
\* dataFd_ is readable: one ikcp_recv on the conversation the counter names.
HandleData(n) ==
  LET c == dataFd[n] IN
  /\ n \in alive
  /\ c > 0
  /\ dataFd' = [dataFd EXCEPT ![n] = 0]
  /\ IF Usable(n, c)
       THEN /\ curConv' = [curConv EXCEPT ![n] = c]
            /\ IF CanRecv(conn[n][c].cb, DatagramLen)
                 THEN /\ heard' = [heard EXCEPT ![n][c] = Append(@, Received(conn[n][c].cb))]
                      /\ conn' = [conn EXCEPT ![n][c].cb = IkcpRecv(@)]
                 ELSE UNCHANGED <<heard, conn>>
            /\ UNCHANGED <<alive, nextConv, calls, said>>
       ELSE Crash(n)
  /\ UNCHANGED <<connFd, udp>>

-----------------------------------------------------------------------------
(* KcpLayer::handleRead: one datagram *)

\* A second client's SYN takes over the conversation of the first.
SynKeepsConv(d) ==
  LET n == d.to
      c == 1
  IN
  /\ conn' = [conn EXCEPT ![n][c] = [cb |-> Create, peer |-> d.from]]
  /\ udp' = (udp \ {d}) \cup {[kind |-> "ACK", from |-> n, to |-> d.from, conv |-> c]}
  /\ connFd' = [connFd EXCEPT ![n] = @ + c]
  /\ UNCHANGED <<nextConv, dataFd, alive>>

\* A SYN makes a conversation and answers with its id.
HandleSyn(d) ==
  LET n == d.to
      c == nextConv[n]
  IN
  /\ conn' = [conn EXCEPT ![n][c] = [cb |-> Create, peer |-> d.from]]
  /\ udp' = (udp \ {d}) \cup {[kind |-> "ACK", from |-> n, to |-> d.from, conv |-> c]}
  /\ connFd' = [connFd EXCEPT ![n] = @ + c]
  /\ nextConv' = [nextConv EXCEPT ![n] = c + 1]
  /\ UNCHANGED <<dataFd, alive>>

AckTakesOwnConv(d) ==
  LET n == d.to IN
  /\ conn' = [conn EXCEPT ![n][calls[n].connect + 1] = [cb |-> Create, peer |-> d.from]]
  /\ udp' = udp \ {d}
  /\ connFd' = [connFd EXCEPT ![n] = @ + d.conv]
  /\ UNCHANGED <<nextConv, dataFd, alive>>

\* An ACK makes the client's end, but files the server's address under the
\* client's own nextConv_, which is always 1.
HandleAck(d) ==
  LET n == d.to IN
  /\ conn' = [conn EXCEPT ![n][d.conv].cb = Create, ![n][nextConv[n]].peer = d.from]
  /\ udp' = udp \ {d}
  /\ connFd' = [connFd EXCEPT ![n] = @ + d.conv]
  /\ UNCHANGED <<nextConv, dataFd, alive>>

\* Anything else goes to the control block its conv names; the user is told when
\* the datagram is longer than one header.
HandleSegments(d) ==
  LET n == d.to IN
  IF Usable(n, d.conv)
    THEN /\ KcpUpdate(n, d.conv, IkcpInput(conn[n][d.conv].cb, d.payload), udp \ {d})
         /\ dataFd' = [dataFd EXCEPT ![n] =
              IF SizeOf(d.payload) > Overhead THEN @ + d.conv ELSE @]
         /\ UNCHANGED <<connFd, nextConv, alive>>
    ELSE /\ alive' = alive \ {n}
         /\ udp' = udp \ {d}
         /\ UNCHANGED <<conn, connFd, dataFd, nextConv>>

HandleRead(n) ==
  /\ n \in alive
  /\ \E d \in {x \in udp : x.to = n} :
       \/ d.kind = "SYN" /\ HandleSyn(d)
       \/ d.kind = "ACK" /\ HandleAck(d)
       \/ d.kind = "DATA" /\ HandleSegments(d)
  /\ UNCHANGED <<curConv, calls, said, heard>>

LoseDatagram ==
  /\ \E d \in udp : udp' = udp \ {d}
  /\ UNCHANGED <<conn, nextConv, connFd, dataFd, curConv, alive, calls, said, heard>>

LayerNext ==
  \/ \E n \in Nodes : \/ Connect(n) \/ UserSend(n)
                      \/ HandleConnection(n) \/ HandleData(n) \/ HandleRead(n)
  \/ LoseDatagram

LayerSpec == LayerInit /\ [][LayerNext]_layerVars

-----------------------------------------------------------------------------
(* Properties *)

\* The two ends of a conversation belong together: a client has a control block
\* only for a conversation the server made for that client (ikcp_create: conv
\* must be equal in the two endpoints of a connection).
HandshakeAgrees ==
  \A n \in Clients, c \in Convs :
    conn[n][c].cb # None => conn[Server][c].cb # None /\ conn[Server][c].peer = n

\* Conversations do not mix: what the server receives on one is a prefix of what
\* the client at its other end sent on it, and the other way round, whatever ids
\* the event counters made the users believe in.
ConversationsApart ==
  \A c \in Convs : LET n == conn[Server][c].peer IN
    IF n = NoAddr
      THEN heard[Server][c] = <<>>
      ELSE IsPrefix(heard[Server][c], said[n][c]) /\ IsPrefix(heard[n][c], said[Server][c])
=============================================================================
