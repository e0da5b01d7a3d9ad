-------------------------------- MODULE Ikcp --------------------------------
(***************************************************************************)
(* The control block of src/src/kcp/ikcp.c and the functions that change   *)
(* it, as operators from a control block to a control block.  A datagram   *)
(* is the sequence of the segments encoded in it; a byte is any value.     *)
(*                                                                         *)
(* KcpLayer configures every control block with ikcp_nodelay(cb,1,10,2,1): *)
(* nocwnd is 1, so cwnd, incr and ssthresh never limit anything and are    *)
(* left out, and stream stays 0.  Clocks are left out: which segments have *)
(* reached their resendts, and whether ts_probe has passed, is a parameter *)
(* of Flush.  sn does not wrap: a conversation has fewer than 2^31         *)
(* segments.  fastack and xmit saturate where the code stops telling       *)
(* larger values apart; state (xmit >= dead_link) is written, never read.  *)
(***************************************************************************)
EXTENDS Integers, Sequences, SequencesExt, FiniteSetsExt

CONSTANTS Mss,         \* payload bytes of a segment (mtu - IKCP_OVERHEAD)
          Overhead,    \* IKCP_OVERHEAD
          SndWnd,      \* snd_wnd, IKCP_WND_SND
          RcvWnd,      \* rcv_wnd, IKCP_WND_RCV
          FastResend,  \* fastresend
          FastLimit    \* fastlimit, IKCP_FASTACK_LIMIT

ASSUME IkcpAssumption ==
  {Mss, Overhead, SndWnd, RcvWnd, FastResend, FastLimit} \subseteq Nat \ {0}

\* frg travels in one byte; IKCP_WND_RCV is 128.
ASSUME FrgAssumption == RcvWnd <= 256

Mtu == Mss + Overhead

\* A segment as it travels: the header ikcp_encode_seg writes, and the data.
Segment(cmd, frg, wnd, sn, una, data) ==
  [cmd |-> cmd, frg |-> frg % 256, wnd |-> wnd % 65536, sn |-> sn, una |-> una,
   data |-> data]

\* ikcp_create
Create ==
  [snd_una |-> 0, snd_nxt |-> 0, rcv_nxt |-> 0, rmt_wnd |-> RcvWnd,
   probe |-> {}, probing |-> FALSE,
   snd_queue |-> <<>>, snd_buf |-> <<>>, rcv_buf |-> <<>>, rcv_queue |-> <<>>,
   acklist |-> <<>>]

-----------------------------------------------------------------------------
(* The user's side: ikcp_send, ikcp_peeksize, ikcp_recv *)

FragmentCount(msg) ==
  IF Len(msg) <= Mss THEN 1 ELSE (Len(msg) + Mss - 1) \div Mss

\* A message of as many fragments as IKCP_WND_RCV is refused (-2).
SendFits(msg) == FragmentCount(msg) < RcvWnd

NumberedUp(msg) ==
  [i \in 1 .. FragmentCount(msg) |->
     [frg |-> i - 1, data |-> SubSeq(msg, (i - 1) * Mss + 1, Min({i * Mss, Len(msg)}))]]

\* frg counts the fragments still to come, so the last one carries 0.
Fragments(msg) ==
  [i \in 1 .. FragmentCount(msg) |->
     [frg  |-> FragmentCount(msg) - i,
      data |-> SubSeq(msg, (i - 1) * Mss + 1, Min({i * Mss, Len(msg)}))]]

IkcpSend(k, msg) ==
  IF SendFits(msg) THEN [k EXCEPT !.snd_queue = @ \o Fragments(msg)] ELSE k

\* The number of segments of the message at the head of rcv_queue, 0 when the
\* message is not complete (ikcp_peeksize returns a negative value).
PeekCount(k) ==
  LET q == k.rcv_queue
      last == {i \in DOMAIN q : q[i].frg = 0}
  IN IF q = <<>> \/ (Head(q).frg > 0 /\ Len(q) < Head(q).frg + 1)
       THEN 0
       ELSE IF last = {} THEN Len(q) ELSE Min(last)

\* The bytes of the first n segments of a queue of segments.
BytesOf(q, n) == FlattenSeq([i \in 1 .. n |-> q[i].data])

\* Segments in sequence leave rcv_buf while rcv_queue has room.
MoveAvailable(k) ==
  LET n == Max({i \in 0 .. Len(k.rcv_buf) :
                  /\ i = 0 \/ Len(k.rcv_queue) + i <= RcvWnd
                  /\ \A j \in 1 .. i : k.rcv_buf[j].sn = k.rcv_nxt + (j - 1)})
  IN [k EXCEPT !.rcv_queue = @ \o SubSeq(k.rcv_buf, 1, n),
               !.rcv_buf   = SubSeq(@, n + 1, Len(@)),
               !.rcv_nxt   = @ + n]

\* ikcp_recv returns a message when there is one and the buffer holds it.
CanRecv(k, len) == PeekCount(k) > 0 /\ Len(BytesOf(k.rcv_queue, PeekCount(k))) <= len

Received(k) == BytesOf(k.rcv_queue, PeekCount(k))

IkcpRecv(k) ==
  LET n     == PeekCount(k)
      taken == MoveAvailable([k EXCEPT !.rcv_queue = SubSeq(@, n + 1, Len(@))])
  IN IF Len(k.rcv_queue) >= RcvWnd /\ Len(taken.rcv_queue) < RcvWnd
       THEN [taken EXCEPT !.probe = @ \cup {"TELL"}]
       ELSE taken

-----------------------------------------------------------------------------
(* The network's side: ikcp_input *)

ShrinkBuf(k) ==
  [k EXCEPT !.snd_una = IF k.snd_buf = <<>> THEN k.snd_nxt ELSE Head(k.snd_buf).sn]

\* The search of snd_buf stops at the first segment that is not older than sn.
ParseAck(k, sn) ==
  LET stop == {i \in DOMAIN k.snd_buf : k.snd_buf[i].sn >= sn}
  IN IF \/ sn < k.snd_una \/ sn >= k.snd_nxt
        \/ stop = {}
        \/ k.snd_buf[Min(stop)].sn # sn
       THEN k
       ELSE [k EXCEPT !.snd_buf = RemoveAt(@, Min(stop))]

UnaInclusive(k, una) ==
  LET n == Max({i \in 0 .. Len(k.snd_buf) : \A j \in 1 .. i : k.snd_buf[j].sn <= una})
  IN [k EXCEPT !.snd_buf = SubSeq(@, n + 1, Len(@))]

\* Segments older than una leave snd_buf, up to the first that is not.
ParseUna(k, una) ==
  LET n == Max({i \in 0 .. Len(k.snd_buf) : \A j \in 1 .. i : k.snd_buf[j].sn < una})
  IN [k EXCEPT !.snd_buf = SubSeq(@, n + 1, Len(@))]

PassedOver(s) == [s EXCEPT !.fastack = Min({@ + 1, FastResend})]

\* Every segment older than the newest acknowledged one was passed over once.
ParseFastack(k, sn) ==
  IF sn < k.snd_una \/ sn >= k.snd_nxt
    THEN k
    ELSE [k EXCEPT !.snd_buf =
            [i \in DOMAIN @ |-> IF @[i].sn < sn THEN PassedOver(@[i]) ELSE @[i]]]

AckPush(k, sn) == [k EXCEPT !.acklist = Append(@, sn)]

\* The new segment goes behind the last one of rcv_buf that is not newer, unless
\* that one is a copy of it.
ParseData(k, seg) ==
  IF seg.sn >= k.rcv_nxt + RcvWnd \/ seg.sn < k.rcv_nxt
    THEN k
    ELSE LET at     == Max({0} \cup {i \in DOMAIN k.rcv_buf : k.rcv_buf[i].sn <= seg.sn})
             repeat == at # 0 /\ k.rcv_buf[at].sn = seg.sn
         IN MoveAvailable(
              IF repeat THEN k ELSE [k EXCEPT !.rcv_buf = InsertAt(@, at + 1, seg)])

DuplicateUnacked(k, s) ==
  IF s.sn >= k.rcv_nxt
    THEN ParseData(AckPush(k, s.sn), [sn |-> s.sn, frg |-> s.frg, data |-> s.data])
    ELSE k

\* A segment beyond the receive window is neither stored nor acknowledged; one
\* before rcv_nxt is only acknowledged again.
InputPush(k, s) ==
  IF s.sn < k.rcv_nxt + RcvWnd
    THEN LET acked == AckPush(k, s.sn)
         IN IF s.sn >= k.rcv_nxt
              THEN ParseData(acked, [sn |-> s.sn, frg |-> s.frg, data |-> s.data])
              ELSE acked
    ELSE k

InputSegment(k, s) ==
  LET k1 == ShrinkBuf(ParseUna([k EXCEPT !.rmt_wnd = s.wnd], s.una))
  IN CASE s.cmd = "ACK"  -> ShrinkBuf(ParseAck(k1, s.sn))
       [] s.cmd = "PUSH" -> InputPush(k1, s)
       [] s.cmd = "WASK" -> [k1 EXCEPT !.probe = @ \cup {"TELL"}]
       [] s.cmd = "WINS" -> k1

IkcpInput(k, datagram) ==
  LET input[i \in 0 .. Len(datagram)] ==
        IF i = 0 THEN k ELSE InputSegment(input[i - 1], datagram[i])
      k1   == input[Len(datagram)]
      acks == {datagram[i].sn : i \in {j \in DOMAIN datagram : datagram[j].cmd = "ACK"}}
  IN IF acks = {} THEN k1 ELSE ParseFastack(k1, Max(acks))

-----------------------------------------------------------------------------
(* ikcp_flush *)

WndUnused(k) == IF Len(k.rcv_queue) < RcvWnd THEN RcvWnd - Len(k.rcv_queue) ELSE 0

\* The acknowledgements a flush encodes first; it empties acklist.
FlushAcks(k) ==
  [i \in DOMAIN k.acklist |->
     Segment("ACK", 0, WndUnused(k), k.acklist[i], k.rcv_nxt, <<>>)]

\* A remote window of zero is probed: the first flush that sees it only starts
\* the timer, a later one asks once the timer (probeDue) has run out.
ProbeWindow(k, probeDue) ==
  IF k.rmt_wnd = 0
    THEN [k EXCEPT !.probing = TRUE,
                   !.probe = IF k.probing /\ probeDue THEN @ \cup {"SEND"} ELSE @]
    ELSE [k EXCEPT !.probing = FALSE]

FlushProbes(k) ==
  LET seg(cmd) == Segment(cmd, 0, WndUnused(k), 0, k.rcv_nxt, <<>>)
  IN (IF "SEND" \in k.probe THEN <<seg("WASK")>> ELSE <<>>) \o
     (IF "TELL" \in k.probe THEN <<seg("WINS")>> ELSE <<>>)

\* Segments enter snd_buf, and get their number, while the smaller of the two
\* windows allows it.
MoveToSndBuf(k) ==
  LET room == Max({0, k.snd_una + Min({SndWnd, k.rmt_wnd}) - k.snd_nxt})
      n    == Min({room, Len(k.snd_queue)})
      new  == [i \in 1 .. n |->
                 [sn |-> k.snd_nxt + (i - 1), frg |-> k.snd_queue[i].frg,
                  data |-> k.snd_queue[i].data, fastack |-> 0, xmit |-> 0]]
  IN [k EXCEPT !.snd_queue = SubSeq(@, n + 1, Len(@)), !.snd_buf = @ \o new,
               !.snd_nxt = @ + n]

\* Sent for the first time, timed out (due), or passed over often enough.
NeedSend(s, due) ==
  \/ s.xmit = 0
  \/ s.sn \in due
  \/ s.fastack >= FastResend /\ s.xmit <= FastLimit

\* A fast retransmission starts the count of passes again.
Transmitted(s, due) ==
  IF ~NeedSend(s, due) THEN s
  ELSE [s EXCEPT !.xmit = Min({@ + 1, FastLimit + 1}),
                 !.fastack = IF s.xmit = 0 \/ s.sn \in due THEN @ ELSE 0]

FlushData(k, due) ==
  LET seg(s) == Segment("PUSH", s.frg, WndUnused(k), s.sn, k.rcv_nxt, s.data)
  IN FlattenSeq([i \in DOMAIN k.snd_buf |->
                   IF NeedSend(k.snd_buf[i], due) THEN <<seg(k.snd_buf[i])>> ELSE <<>>])

SizeOf(d) == Len(d) * Overhead + Len(BytesOf(d, Len(d)))

\* Segments are packed in order; a segment that would not fit the mtu starts the
\* next datagram.  ikcp_output drops an empty one.
Pack(segs) ==
  LET add(out, s) ==
        IF out # <<>> /\ SizeOf(Append(Last(out), s)) <= Mtu
          THEN Append(Front(out), Append(Last(out), s))
          ELSE Append(out, <<s>>)
      packed[i \in 0 .. Len(segs)] == IF i = 0 THEN <<>> ELSE add(packed[i - 1], segs[i])
  IN packed[Len(segs)]

\* The control block before the data segments are looked at, and after.
Prepared(k, probeDue) == MoveToSndBuf(ProbeWindow(k, probeDue))

Flushed(k, due, probeDue) ==
  [Prepared(k, probeDue) EXCEPT
     !.acklist = <<>>, !.probe = {},
     !.snd_buf = [i \in DOMAIN @ |-> Transmitted(@[i], due)]]

\* The datagrams a flush hands to the output callback, in order.
Output(k, due, probeDue) ==
  LET p == Prepared(k, probeDue)
  IN Pack(FlushAcks(p) \o FlushProbes(p) \o FlushData(p, due))
=============================================================================
