------------------------------- MODULE MCHttp -------------------------------
(***************************************************************************)
(* The streams of the http run: every pair of a few requests, some         *)
(* responses, requests with one character changed, and values that exceed  *)
(* the limit of the header size.                                           *)
(***************************************************************************)
EXTENDS Http

ContentLength == <<"c", "ontent-length">>
TransferEncoding == <<"t", "ransfer-encoding">>
Connection == <<"c", "onnection">>

\* start: what the first line begins with; text: the body the peer means
Message(start, name, url, path, minor, headers, body, text) ==
  [start |-> start, name |-> name, url |-> url, path |-> path, minor |-> minor,
   headers |-> headers, body |-> body, text |-> text]

Get == Message(<<"G", "ET">>, "GET", <<"/", "a", "?", "x", "#", "x">>, <<"/", "a">>, "1",
               <<<<<<"x">>, <<"a">>>>>>, <<>>, <<>>)
Post == Message(<<"P", "OST">>, "POST", <<"/">>, <<"/">>, "1",
                <<<<ContentLength, <<"0", "2">>>>>>, <<"x", "CR">>, <<"x", "CR">>)
Put == Message(<<"P", "UT">>, "PUT", <<"a", ":", "/", "/", "x", "@", "a", ":", "4", "/">>,
               <<"/">>, "0", <<<<Connection, <<"k", "eep-alive">>>>, <<ContentLength, <<"0">>>>>>,
               <<>>, <<>>)
Chunked == Message(<<"P", "OST">>, "POST", <<"/">>, <<"/">>, "1",
                   <<<<TransferEncoding, <<"c", "hunked">>>>>>,
                   <<"2", "CR", "LF", "x", "a", "CR", "LF", "1", ";", "x", "CR", "LF", "a", "CR", "LF",
                     "0", "CR", "LF", "x", ":", "x", "CR", "LF", "CR", "LF">>,
                   <<"x", "a", "a">>)
Close == Message(<<"G", "ET">>, "GET", <<"*">>, <<"*">>, "1",
                 <<<<Connection, <<"x", ",", " ", "c", "lose">>>>, <<<<"x">>, <<>>>>>>, <<>>, <<>>)
Old == Message(<<"G", "ET">>, "GET", <<"/">>, <<"/">>, "0", <<>>, <<>>, <<>>)
Upgrade == Message(<<"G", "ET">>, "GET", <<"/">>, <<"/">>, "1",
                   <<<<Connection, <<"u", "pgrade">>>>, <<<<"u", "pgrade">>, <<"x">>>>>>, <<>>, <<>>)
Connect == Message(<<"C", "ONNECT">>, "CONNECT", <<"a", ":", "4">>, <<>>, "1", <<>>, <<>>, <<>>)

NoContent == Message(<<"2", "0", "4">>, "DELETE", <<>>, <<>>, "1", <<<<<<"x">>, <<"a">>>>>>, <<>>, <<>>)
Switching == Message(<<"1", "0", "1">>, "DELETE", <<>>, <<>>, "1",
                     <<<<Connection, <<"u", "pgrade">>>>, <<<<"u", "pgrade">>, <<"x">>>>>>, <<>>, <<>>)
Ok == Message(<<"2", "0", "0">>, "DELETE", <<>>, <<>>, "1", <<<<ContentLength, <<"2">>>>>>,
              <<"x", "x">>, <<"x", "x">>)

-----------------------------------------------------------------------------
Agree == [headers |-> 0, message |-> 0]

Map(headers) == [n \in {headers[i][1] : i \in DOMAIN headers} |->
                   (CHOOSE h \in Range(headers) : h[1] = n)[2]]

Seen(m, status) ==
  [NewMessage EXCEPT !.method = m.name, !.url = m.url, !.path = m.path, !.status = status,
                     !.headers = Map(m.headers), !.body = m.text]

\* the messages after the one that ends the connection are not seen
Requests(ms, user, judged) ==
  LET ends == {i \in DOMAIN ms : ms[i] \in {Close, Old}}
      last == IF ends = {} THEN Len(ms) ELSE CHOOSE i \in ends : \A j \in ends : i <= j
  IN  [type |-> "HTTP_REQUEST", user |-> user,
       input |-> FlattenSeq([i \in DOMAIN ms |-> RequestAsString(ms[i])]),
       expect |-> IF judged THEN [i \in 1..last |-> Seen(ms[i], 200)] ELSE <<>>]

Responses(ms, expect) ==
  [type |-> "HTTP_RESPONSE", user |-> Agree,
   input |-> FlattenSeq([i \in DOMAIN ms |-> ResponseAsString(ms[i])]), expect |-> expect]

First == {Get, Post, Put, Chunked, Close, Old}
Pairs == {Requests(<<m, n>>, Agree, TRUE) : m \in First, n \in First \cup {Upgrade, Connect}}

\* a user that skips the body, ends the protocol, refuses the headers or the message
Refused == {Requests(<<m, Get>>, [headers |-> r[1], message |-> r[2]], FALSE) :
              m \in {Get, Post, Chunked}, r \in {<<1, 0>>, <<2, 0>>, <<3, 0>>, <<0, 1>>}}

\* the body of Ok is taken for the next message, see the README: nothing is
\* expected of it
Answers == { Responses(<<NoContent, NoContent>>, <<Seen(NoContent, 204), Seen(NoContent, 204)>>),
             Responses(<<NoContent, Switching>>, <<Seen(NoContent, 204), Seen(Switching, 101)>>),
             Responses(<<Ok>>, <<>>) }

\* every character of a stream replaced by every other
Changed(s) == {[s EXCEPT !.input[i] = ch, !.expect = <<>>] :
                 i \in DOMAIN s.input, ch \in {"0", "9", "a", "x", "c", "u", "pgrade", "lose", " ",
                                               "CR", "LF", "NUL", ":", ",", "?", "@", "[", ";"}}

\* values that go on after the limit: with any character of them replaced by one
\* that is refused or ends the line, the last ones after the place where the
\* parser steps over a character
LongValue(header, ch) ==
  Requests(<<Message(<<"G", "ET">>, "GET", <<"/">>, <<"/">>, "1",
                     <<<<header, [i \in 1..MaxHeaderSize + 6 |-> ch]>>>>, <<>>, <<>>)>>, Agree, FALSE)
Broken(s) == {[s EXCEPT !.input[i] = ch] :
                i \in 16..Len(s.input) - 4, ch \in {"NUL", "CR", "LF", "x"}}
Long == Broken(LongValue(<<"x">>, "a")) \cup Broken(LongValue(ContentLength, "0"))

MCStreams == Pairs \cup Refused \cup Answers
             \cup Changed(Requests(<<Chunked>>, Agree, TRUE))
             \cup Changed(Requests(<<Put>>, Agree, TRUE))
             \cup Changed(Responses(<<NoContent>>, <<>>))
             \cup Long
=============================================================================
