-------------------------------- MODULE Http --------------------------------
(***************************************************************************)
(* An HttpServer or an HttpClient reading one connection: onConnection()   *)
(* makes the session, onMessage() gives it whatever a read returned.  The  *)
(* peer's bytes are a stream; a read returns any next part of it, up to    *)
(* MaxChunk characters or all that is left.                                *)
(*                                                                         *)
(* A stream is [type, user, input, expect]: the parser's type, what the    *)
(* user's callbacks answer, the characters, and either <<>> or a sequence  *)
(* of the messages that must come out of it.                               *)
(***************************************************************************)
EXTENDS HttpParser

CONSTANTS Streams,    \* what a peer may send
          MaxChunk    \* bound on the characters of a read, unless it takes all

VARIABLES stream,     \* the peer's stream
          up,         \* the connection is up
          sent,       \* how much of the stream has been read
          session     \* <<>>, or the session, as one parser

vars == <<stream, up, sent, session>>

Init == stream \in Streams /\ up = FALSE /\ sent = 0 /\ session = <<>>

NewSessionOf(st) == NewParser(st.type, st.user)

\* the session of the last connection is used again
SessionKept ==
  /\ ~up
  /\ up' = TRUE
  /\ session' = IF session = <<>> THEN <<NewSessionOf(stream)>> ELSE session
  /\ UNCHANGED <<stream, sent>>

\* onConnection() when it is up: a new session, with a parser of its own
OnConnection ==
  /\ ~up
  /\ up' = TRUE
  /\ session' = <<NewSessionOf(stream)>>
  /\ UNCHANGED <<stream, sent>>

\* onConnection() when it is down: HttpServer erases the session, HttpClient
\* keeps it until the next connection; the peer will begin again
OnDisconnection ==
  /\ up
  /\ up' = FALSE
  /\ sent' = 0
  /\ session' = IF stream.type = "HTTP_REQUEST" THEN <<>> ELSE session
  /\ UNCHANGED stream

\* onMessage(): all the buffer holds goes to the parser, none of it stays
OnMessage ==
  /\ up
  /\ \E to \in (sent + 1)..Len(stream.input) :
       /\ to - sent <= MaxChunk \/ to = Len(stream.input)
       /\ session' = <<Execute(session[1], SubSeq(stream.input, sent + 1, to))>>
       /\ sent' = to
  /\ UNCHANGED <<stream, up>>

Next == OnConnection \/ OnDisconnection \/ OnMessage

Spec == Init /\ [][Next]_vars

-----------------------------------------------------------------------------
(* A peer that writes with HttpMessage.                                     *)

\* getRequestAsString() and getResponseAsString() of a message
Headers(m) ==
  FlattenSeq([i \in DOMAIN m.headers |->
                m.headers[i][1] \o <<":", " ">> \o m.headers[i][2] \o <<"CR", "LF">>])

RequestAsString(m) ==
  m.start \o <<" ">> \o m.url \o <<" ", "H", "TTP", "/", "1", ".", m.minor, "CR", "LF">>
    \o Headers(m) \o <<"CR", "LF">> \o m.body

ResponseAsString(m) ==
  <<"H", "TTP", "/", "1", ".", m.minor, " ">> \o m.start \o <<" ", "x", "CR", "LF">>
    \o Headers(m) \o <<"CR", "LF">> \o m.body

-----------------------------------------------------------------------------
\* hint_ is left out: onStatus() appends to it once for every part of the
\* status line's text
WithoutHint(m) == [m EXCEPT !.hint = <<>>]
Shown(s) == [heads |-> [i \in DOMAIN s.heads |-> WithoutHint(s.heads[i])],
             done |-> [i \in DOMAIN s.done |-> WithoutHint(s.done[i])]]
Bare(h) == [h EXCEPT !.sess = [@ EXCEPT !.msg = WithoutHint(@), !.heads = Shown(h.sess).heads,
                                        !.done = Shown(h.sess).done]]

\* a header that is too long is an error however it is cut, but which one: the
\* characters of a value are counted later than they are looked at
SameVerdict(h, whole) ==
  \/ h.errno = whole.errno
  \/ "HPE_HEADER_OVERFLOW" \in {h.errno, whole.errno} /\ "HPE_OK" \notin {h.errno, whole.errno}

\* what must be the same in two sessions that were given the same bytes
Alike(h, whole) ==
  ~h.upgrade /\ ~whole.upgrade =>
    /\ SameVerdict(h, whole)
    /\ Shown(h.sess) = Shown(whole.sess)
    /\ h.errno = "HPE_OK" => Bare(h) = Bare(whole)

\* How the stream is cut into reads does not matter (http_parser_execute()
\* keeps its state between calls and marks again the text a read ended in):
\* after any reads the session is the one that a single read of the same bytes
\* leaves.  After an error only the texts of the message that failed may
\* differ, and the error if a header is too long (SameVerdict); an upgrade
\* ends what is claimed: the rest of its read is gone.
FragmentsDontMatter ==
  up /\ sent > 0 =>
    Alike(session[1], Execute(NewSessionOf(stream), SubSeq(stream.input, 1, sent)))

\* What a peer writes with HttpMessage is what onMessageCallback_ is shown: the
\* same messages in the same order, none twice, none made of another's body,
\* none after the one that ends the connection, also when an earlier
\* connection broke inside a message.
RoundTrip ==
  up /\ stream.expect # <<>> =>
    LET done == Shown(session[1].sess).done
    IN  /\ IsPrefix(done, stream.expect)
        /\ sent = Len(stream.input) => done = stream.expect

\* No input makes an assertion of http_parser_execute() fail: the header size
\* is counted from zero at every chunk, a body is never read with a length of
\* zero or none, and a call ends inside at most one text.
NoAssertFails == session # <<>> => session[1].errno # "assert"
=============================================================================
