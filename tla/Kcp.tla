-------------------------------- MODULE Kcp ---------------------------------
(***************************************************************************)
(* Two ikcp control blocks of one conversation over a datagram network     *)
(* that loses, duplicates and reorders, each with a user that sends and    *)
(* receives and a caller of ikcp_update, which nothing obliges to call it. *)
(***************************************************************************)
EXTENDS Ikcp

CONSTANTS Ends,       \* the two endpoints
          Calls,      \* Calls[e]: the lengths of the messages e passes to ikcp_send
          BufLen,     \* the length of the buffer given to ikcp_recv
          MaxFaults   \* losses, duplications and early timeouts altogether

ASSUME KcpAssumption ==
  /\ \E a, b \in Ends : a # b /\ Ends = {a, b}
  /\ Calls \in [Ends -> Seq(Nat)]

VARIABLES kcp,     \* the control blocks
          net,     \* the datagrams in flight towards each endpoint
          called,  \* ikcp_send calls made so far
          sent,    \* the messages ikcp_send accepted
          rcvd,    \* the messages ikcp_recv returned
          faults   \* losses, duplications and early timeouts so far

vars == <<kcp, net, called, sent, rcvd, faults>>

Peer(e) == CHOOSE p \in Ends : p # e

\* Message i of endpoint e: every byte is different.
Message(e, i) == [j \in 1 .. Calls[e][i] |-> <<i, j>>]

Init ==
  /\ kcp = [e \in Ends |-> Create]
  /\ net = [e \in Ends |-> {}]
  /\ called = [e \in Ends |-> 0]
  /\ sent = [e \in Ends |-> <<>>]
  /\ rcvd = [e \in Ends |-> <<>>]
  /\ faults = 0

\* The user calls ikcp_send.
Send(e) ==
  /\ called[e] < Len(Calls[e])
  /\ LET msg == Message(e, called[e] + 1) IN
       /\ kcp' = [kcp EXCEPT ![e] = IkcpSend(@, msg)]
       /\ sent' = [sent EXCEPT ![e] = IF SendFits(msg) THEN Append(@, msg) ELSE @]
  /\ called' = [called EXCEPT ![e] = @ + 1]
  /\ UNCHANGED <<net, rcvd, faults>>

\* The user calls ikcp_recv (a call that returns a negative value changes
\* nothing).
Recv(e) ==
  /\ CanRecv(kcp[e], BufLen)
  /\ rcvd' = [rcvd EXCEPT ![e] = Append(@, Received(kcp[e]))]
  /\ kcp' = [kcp EXCEPT ![e] = IkcpRecv(@)]
  /\ UNCHANGED <<net, called, sent, faults>>

\* Nothing is on its way between the endpoints: a timer that runs out now was
\* longer than the round trip.
Quiet == \A e \in Ends : net[e] = {} /\ kcp[e].acklist = <<>>

\* ikcp_update with the flush interval over.  due holds the segments whose
\* resendts has passed.
Flush(e, due, probeDue) ==
  /\ net' = [net EXCEPT ![Peer(e)] = @ \cup ToSet(Output(kcp[e], due, probeDue))]
  /\ kcp' = [kcp EXCEPT ![e] = Flushed(@, due, probeDue)]
  /\ UNCHANGED <<called, sent, rcvd>>

InFlight(e) == {kcp[e].snd_buf[i].sn : i \in DOMAIN kcp[e].snd_buf}

\* Timers may run out at any time; one that does so early, with an answer still
\* on its way, counts as a fault.
Update(e) ==
  \E due \in SUBSET InFlight(e), probeDue \in BOOLEAN :
    LET early == ~Quiet /\ (due # {} \/ probeDue)
    IN /\ early => faults < MaxFaults
       /\ faults' = IF early THEN faults + 1 ELSE faults
       /\ Flush(e, due, probeDue)

\* A datagram arrives, in any order: ikcp_input.
Deliver(e) ==
  \E d \in net[e] :
    /\ kcp' = [kcp EXCEPT ![e] = IkcpInput(@, d)]
    /\ net' = [net EXCEPT ![e] = @ \ {d}]
    /\ UNCHANGED <<called, sent, rcvd, faults>>

\* The network delivers a copy and keeps the datagram, or loses it.
Duplicate(e) ==
  \E d \in net[e] :
    /\ faults < MaxFaults
    /\ kcp' = [kcp EXCEPT ![e] = IkcpInput(@, d)]
    /\ faults' = faults + 1
    /\ UNCHANGED <<net, called, sent, rcvd>>

Lose(e) ==
  \E d \in net[e] :
    /\ faults < MaxFaults
    /\ net' = [net EXCEPT ![e] = @ \ {d}]
    /\ faults' = faults + 1
    /\ UNCHANGED <<kcp, called, sent, rcvd>>

Next ==
  \E e \in Ends :
    Send(e) \/ Recv(e) \/ Update(e) \/ Deliver(e) \/ Duplicate(e) \/ Lose(e)

Spec == Init /\ [][Next]_vars

-----------------------------------------------------------------------------
(* Properties *)

\* What a user receives is what the other one sent: whole messages, each once,
\* in order (ikcp_send's fragments and ikcp_recv's merge over any network).
MessagesInOrder == \A e \in Ends : IsPrefix(rcvd[e], sent[Peer(e)])

\* A segment leaves snd_buf only when the other end has it: one that was
\* numbered and is gone was moved to rcv_queue there or waits in its rcv_buf
\* (una, single ACKs and the window check of ikcp_input agree).
AckedIsHeld ==
  \A e \in Ends :
    LET k == kcp[e]
        p == kcp[Peer(e)]
    IN \A sn \in 0 .. k.snd_nxt - 1 :
         \/ \E i \in DOMAIN k.snd_buf : k.snd_buf[i].sn = sn
         \/ sn < p.rcv_nxt
         \/ \E i \in DOMAIN p.rcv_buf : p.rcv_buf[i].sn = sn

\* e is updated with every timer run out, the other end gets what it sends, in
\* order, and both users read what there is.
Read(k, i) == IF CanRecv(k, BufLen) THEN IkcpRecv(k) ELSE k
ReadAll(k) == FoldLeft(Read, k, [i \in 1 .. RcvWnd |-> i])

Exchange(k, e) ==
  LET q == ReadAll(k[e])
      due == {q.snd_buf[i].sn : i \in DOMAIN q.snd_buf}
  IN [k EXCEPT ![e] = Flushed(q, due, TRUE),
               ![Peer(e)] = ReadAll(FoldLeft(IkcpInput, @, Output(q, due, TRUE)))]

\* Everything was sent, acknowledged and read.
Idle(k) ==
  \A e \in Ends :
    k[e].snd_queue = <<>> /\ k[e].snd_buf = <<>> /\ k[e].rcv_buf = <<>> /\ k[e].rcv_queue = <<>>

\* No state is a dead end: although all that is on its way were lost, a fragment
\* more has arrived after each round of updates that the network lets through,
\* whoever begins, but for three rounds in which a closed window is noticed,
\* probed and found open (ikcp_flush retransmits, ikcp_input acknowledges again
\* what it has seen before, the probe asks again when the news of room was lost).
\* Nothing obliges anybody to call ikcp_update; the property is about what the
\* calls achieve if they are made, and a buffer that holds every message.
NeverStuck ==
  LET owed == FoldSet(LAMBDA e, n : n + Len(kcp[e].snd_queue) + Len(kcp[e].snd_buf), 0, Ends)
      Round(first, k) == Exchange(Exchange(k, first), Peer(first))
      After(first) == FoldLeft(LAMBDA k, i : Round(first, k), kcp, [i \in 1 .. owed + 3 |-> i])
  IN \A first \in Ends : Idle(After(first))
=============================================================================
