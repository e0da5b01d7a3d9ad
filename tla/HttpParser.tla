----------------------------- MODULE HttpParser -----------------------------
(***************************************************************************)
(* http_parser_execute() with the callbacks of HttpSession, built with     *)
(* HTTP_PARSER_STRICT 1.  A parser h is a record: the fields of struct     *)
(* http_parser, the locals of one call (data, p, a mark for each kind of   *)
(* text, from and pe in a value, stop once the call has returned) and the  *)
(* session sess whose callbacks it makes.  Execute reads one chunk a character at a time; the *)
(* inner loops of the code, which run over a name, a URL or a body, do the *)
(* same thing as reading it so.  The loop over a header value does not: it *)
(* counts what it read only when it is left (from), and its own inner loop *)
(* may step over a character unread (pe).  One operator stands for each    *)
(* group of states; REEXECUTE is the call of the next state's operator on  *)
(* the same character, which is why they are defined from the last state   *)
(* to the first.  A failing assert() sets errno to "assert".               *)
(***************************************************************************)
EXTENDS HttpSession

CONSTANTS LengthMax,       \* ULLONG_MAX: the largest length, and "no length"
          MaxHeaderSize    \* max_header_size

ASSUME HttpAssumption == LengthMax \in Nat \ 0..15 /\ MaxHeaderSize \in Nat

Kinds == {"header_field", "header_value", "url", "body", "status"}
NoMarks == [k \in Kinds |-> 0]

\* http_parser_init()
NewParser(type, user) ==
  [state |-> IF type = "HTTP_REQUEST" THEN "s_start_req" ELSE "s_start_res",
   type |-> type, hs |-> "h_general", index |-> 0, flags |-> {}, clen |-> 0,
   method |-> "DELETE", major |-> 0, minor |-> 0, status |-> 0, upgrade |-> FALSE,
   errno |-> "HPE_OK", nread |-> 0,
   data |-> <<>>, p |-> 0, mark |-> NoMarks, from |-> 0, pe |-> 0, stop |-> FALSE,
   sess |-> NewSession(user)]

Goto(h, s) == [h EXCEPT !.state = s]
Error(h, e) == [h EXCEPT !.errno = e, !.stop = TRUE]
Mark(h, kind) == IF h.mark[kind] # 0 THEN h ELSE [h EXCEPT !.mark[kind] = h.p]
Add(h, flag) == [h EXCEPT !.flags = @ \cup {flag}]

\* assert(ok); STRICT_CHECK(~ok)
Asserting(h, ok, next) == IF ok THEN next ELSE Error(h, "assert")
Strictly(h, ok, next) == IF ok THEN next ELSE Error(h, "HPE_STRICT")

\* COUNT_HEADER_SIZE(n)
CountHeaderSize(h, n) ==
  LET r == [h EXCEPT !.nread = @ + n]
  IN  IF r.nread > MaxHeaderSize THEN Error(r, "HPE_HEADER_OVERFLOW") ELSE r

\* CALLBACK_DATA: the text from the mark to last, if there is a mark
CallbackData(h, kind, last) ==
  LET text == SubSeq(h.data, h.mark[kind], last)
      s == CASE kind = "header_field" -> OnHeaderField(h.sess, text)
             [] kind = "header_value" -> OnHeaderValue(h.sess, text)
             [] kind = "url" -> OnUrl(h.sess, text)
             [] kind = "body" -> OnBody(h.sess, text)
             [] kind = "status" -> OnStatus(h.sess, h.status)
  IN  IF h.mark[kind] = 0 THEN h ELSE [h EXCEPT !.sess = s, !.mark[kind] = 0]

\* CALLBACK_NOTIFY(message_complete): the user may refuse the message
NotifyComplete(h) ==
  LET r == OnMessageComplete(h.sess)
  IN  IF r.ret = 0 THEN [h EXCEPT !.sess = r.sess]
      ELSE Error([h EXCEPT !.sess = r.sess], "HPE_CB_message_complete")

-----------------------------------------------------------------------------
(* The end of a message.                                                    *)

MessageNeedsEof(h) ==
  /\ h.type # "HTTP_REQUEST"
  /\ h.status \div 100 # 1 /\ h.status \notin {204, 304} /\ "F_SKIPBODY" \notin h.flags
  /\ "F_CHUNKED" \notin h.flags /\ h.clen = LengthMax

ShouldKeepAlive(h) ==
  /\ IF h.major > 0 /\ h.minor > 0 THEN "F_CONNECTION_CLOSE" \notin h.flags
                                   ELSE "F_CONNECTION_KEEP_ALIVE" \in h.flags
  /\ ~MessageNeedsEof(h)

StartState(h) == IF h.type = "HTTP_REQUEST" THEN "s_start_req" ELSE "s_start_res"

\* NEW_MESSAGE(), then message_complete
FinishMessage(h) ==
  NotifyComplete(Goto(h, IF ShouldKeepAlive(h) THEN StartState(h) ELSE "s_dead"))

\* the rest of the chunk is in another protocol
StopIfUpgraded(h) == [h EXCEPT !.stop = @ \/ h.upgrade]

MessageDone(h) == StopIfUpgraded(FinishMessage(h))

\* s_body_identity, s_body_identity_eof
BodyIdentity(h) ==
  LET r == [Mark(h, "body") EXCEPT !.clen = @ - 1]
  IN  Asserting(h, h.clen \notin {0, LengthMax},
        IF r.clen = 0 THEN MessageDone(CallbackData(Goto(r, "s_message_done"), "body", h.p))
                      ELSE r)

BodyIdentityEof(h) == Mark(h, "body")

-----------------------------------------------------------------------------
(* Chunked bodies.                                                          *)

\* the size of the headers counted so far; the mutant forgets the reset
CountKept(h) == h
ResetCount(h) == [h EXCEPT !.nread = 0]

ChunkSizeStart(h, ch) ==
  Asserting(h, h.nread = 1 /\ "F_CHUNKED" \in h.flags,
    IF ch \notin Hex THEN Error(h, "HPE_INVALID_CHUNK_SIZE")
    ELSE [h EXCEPT !.clen = Unhex(ch), !.state = "s_chunk_size"])

ChunkSize(h, ch) ==
  Asserting(h, "F_CHUNKED" \in h.flags,
    CASE ch = "CR" -> Goto(h, "s_chunk_size_almost_done")
      [] ch \in {";", " "} -> Goto(h, "s_chunk_parameters")
      [] ch \in Hex -> IF (LengthMax - 16) \div 16 < h.clen
                       THEN Error(h, "HPE_INVALID_CONTENT_LENGTH")
                       ELSE [h EXCEPT !.clen = @ * 16 + Unhex(ch)]
      [] OTHER -> Error(h, "HPE_INVALID_CHUNK_SIZE"))

ChunkParameters(h, ch) ==
  Asserting(h, "F_CHUNKED" \in h.flags,
    IF ch = "CR" THEN Goto(h, "s_chunk_size_almost_done") ELSE h)

ChunkSizeAlmostDone(h, ch) ==
  Asserting(h, "F_CHUNKED" \in h.flags,
    Strictly(h, ch = "LF",
      LET r == ResetCount(h)
      IN  IF h.clen = 0 THEN Goto(Add(r, "F_TRAILING"), "s_header_field_start")
                        ELSE Goto(r, "s_chunk_data")))

ChunkData(h) ==
  LET r == [Mark(h, "body") EXCEPT !.clen = @ - 1]
  IN  Asserting(h, "F_CHUNKED" \in h.flags /\ h.clen \notin {0, LengthMax},
        IF r.clen = 0 THEN Goto(r, "s_chunk_data_almost_done") ELSE r)

ChunkDataAlmostDone(h, ch) ==
  Asserting(h, "F_CHUNKED" \in h.flags /\ h.clen = 0,
    Strictly(h, ch = "CR", CallbackData(Goto(h, "s_chunk_data_done"), "body", h.p - 1)))

ChunkDataDone(h, ch) ==
  Asserting(h, "F_CHUNKED" \in h.flags,
    Strictly(h, ch = "LF", Goto(ResetCount(h), "s_chunk_size_start")))

-----------------------------------------------------------------------------
(* The end of the headers.                                                  *)

HeadersDone(h0, ch) ==
  LET h == ResetCount(h0)
      chunked == "F_CHUNKED" \in h.flags
      hasBody == chunked \/ h.clen \notin {0, LengthMax}
      skip == "F_SKIPBODY" \in h.flags
      leaves == h.upgrade /\ (h.method = "CONNECT" \/ skip \/ ~hasBody)
  IN  Strictly(h0, ch = "LF",
        CASE leaves -> StopIfUpgraded(FinishMessage(h))
          [] ~leaves /\ ~skip /\ chunked -> Goto(h, "s_chunk_size_start")
          [] ~leaves /\ ~skip /\ ~chunked /\ hasBody -> Goto(h, "s_body_identity")
          [] ~leaves /\ ~skip /\ ~hasBody /\ MessageNeedsEof(h) -> Goto(h, "s_body_identity_eof")
          [] OTHER -> FinishMessage(h))

HeadersAlmostDone(h0, ch) ==
  LET wantsUpgrade == {"F_UPGRADE", "F_CONNECTION_UPGRADE"} \subseteq h0.flags
      h == [Goto(h0, "s_headers_done") EXCEPT
              !.upgrade = IF wantsUpgrade THEN h0.type = "HTTP_REQUEST" \/ h0.status = 101
                                          ELSE h0.method = "CONNECT"]
      cb == OnHeadersComplete(h.sess, h.method)
      r == [h EXCEPT !.sess = cb.sess]
  IN  Strictly(h0, ch = "LF",
        CASE "F_TRAILING" \in h0.flags -> MessageDone(Goto(h0, "s_message_done"))
          [] "F_TRAILING" \notin h0.flags
               /\ {"F_CHUNKED", "F_CONTENTLENGTH"} \subseteq h0.flags ->
               Error(h0, "HPE_UNEXPECTED_CONTENT_LENGTH")
          [] OTHER ->
               CASE cb.ret = 0 -> HeadersDone(r, ch)
                 [] cb.ret = 1 -> HeadersDone(Add(r, "F_SKIPBODY"), ch)
                 [] cb.ret = 2 -> HeadersDone([Add(r, "F_SKIPBODY") EXCEPT !.upgrade = TRUE], ch)
                 [] OTHER -> Error(r, "HPE_CB_headers_complete"))

-----------------------------------------------------------------------------
(* Header names.                                                            *)

\* TOKEN(ch): the characters of a header name
NameChar == Alpha \cup Digit \cup Dashed \cup {"#", "%", ".", "*"}

HeaderFieldStart(h, ch) ==
  LET hs == CASE ch \in {"c", "C"} -> "h_C"
              [] ch \in {"p", "P"} -> "h_matching_proxy_connection"
              [] ch = "t" -> "h_matching_transfer_encoding"
              [] ch = "u" -> "h_matching_upgrade"
              [] OTHER -> "h_general"
  IN  CASE ch = "CR" -> Goto(h, "s_headers_almost_done")
        [] ch = "LF" -> HeadersAlmostDone(Goto(h, "s_headers_almost_done"), ch)
        [] ch \in NameChar ->
             [Mark(h, "header_field") EXCEPT !.index = 0, !.state = "s_header_field", !.hs = hs]
        [] OTHER -> Error(h, "HPE_INVALID_HEADER_TOKEN")

\* the rest of a known name leads from its first letter to its state
NameEdges ==
  { <<{"h_C"}, {"onnection"}, "h_connection">>,
    <<{"h_C"}, {"ontent-length"}, "h_content_length">>,
    <<{"h_matching_proxy_connection"}, {"roxy-connection"}, "h_connection">>,
    <<{"h_matching_transfer_encoding"}, {"ransfer-encoding"}, "h_transfer_encoding">>,
    <<{"h_matching_upgrade"}, {"pgrade"}, "h_upgrade">> }

HeaderField(h, ch) ==
  CASE ch \in NameChar -> [h EXCEPT !.hs = Follow(NameEdges, h.hs, ch, "h_general")]
    [] ch = ":" -> CallbackData(Goto(h, "s_header_value_discard_ws"), "header_field", h.p - 1)
    [] OTHER -> Error(h, "HPE_INVALID_HEADER_TOKEN")

-----------------------------------------------------------------------------
(* Header values.                                                           *)

\* what a finished value means
ValueFlag == ("h_connection_keep_alive" :> "F_CONNECTION_KEEP_ALIVE")
          @@ ("h_connection_close" :> "F_CONNECTION_CLOSE")
          @@ ("h_connection_upgrade" :> "F_CONNECTION_UPGRADE")
          @@ ("h_transfer_encoding_chunked" :> "F_CHUNKED")

AddValueFlag(h) == IF h.hs \in DOMAIN ValueFlag THEN Add(h, ValueFlag[h.hs]) ELSE h

\* the state for the first letter of a word of a Connection header
ConnectionWord(ch) ==
  CASE ch = "k" -> "h_matching_connection_keep_alive"
    [] ch \in {"c", "C"} -> "h_matching_connection_close"
    [] ch = "u" -> "h_matching_connection_upgrade"
    [] OTHER -> "h_matching_connection_token"

HeaderValueStart(h0, ch) ==
  LET h == [Mark(h0, "header_value") EXCEPT !.state = "s_header_value", !.index = 0]
      As(hs) == [h EXCEPT !.hs = hs]
  IN  CASE h.hs = "h_upgrade" -> Add(As("h_general"), "F_UPGRADE")
        [] h.hs = "h_transfer_encoding" ->
             As(IF ch \in {"c", "C"} THEN "h_matching_transfer_encoding_chunked" ELSE "h_general")
        [] h.hs = "h_content_length" ->
             IF ch \notin Digit THEN Error(h, "HPE_INVALID_CONTENT_LENGTH")
             ELSE IF "F_CONTENTLENGTH" \in h.flags
                  THEN Error(h, "HPE_UNEXPECTED_CONTENT_LENGTH")
                  ELSE [Add(As("h_content_length_num"), "F_CONTENTLENGTH")
                          EXCEPT !.clen = Numeral(ch)]
        [] h.hs = "h_connection" -> As(ConnectionWord(ch))
        [] h.hs \in {"h_content_length_ws", "h_matching_connection_token_start"} -> h
        [] OTHER -> As("h_general")

\* one more character of a Content-Length value
ContentLengthChar(h, ch) ==
  CASE ch = " " -> [h EXCEPT !.hs = "h_content_length_ws"]
    [] ch \in Digit /\ h.hs = "h_content_length_num"
         /\ (LengthMax - 10) \div 10 >= h.clen -> [h EXCEPT !.clen = @ * 10 + Numeral(ch)]
    [] OTHER -> Error(h, "HPE_INVALID_CONTENT_LENGTH")

\* the rest of a keyword; a word that goes on differently is any other token
WordEdges ==
  { <<{"h_matching_connection_keep_alive"}, {"eep-alive"}, "h_connection_keep_alive">>,
    <<{"h_matching_connection_close"}, {"lose"}, "h_connection_close">>,
    <<{"h_matching_connection_upgrade"}, {"pgrade"}, "h_connection_upgrade">> }

\* one more character of a Connection value; LOWER() turns "@" into a token
ConnectionChar(h, ch) ==
  LET next == [h EXCEPT !.hs = "h_matching_connection_token_start", !.index = 0]
      As(hs) == [h EXCEPT !.hs = hs]
  IN  CASE h.hs = "h_matching_connection_token_start" ->
             CASE ch \in NameChar \cup {"@"} -> As(ConnectionWord(ch))
               [] ch = " " -> h
               [] OTHER -> As("h_general")
        [] h.hs = "h_matching_connection_token" -> IF ch = "," THEN next ELSE h
        [] h.hs \in DOMAIN ValueFlag ->
             CASE ch = "," -> Add(next, ValueFlag[h.hs])
               [] ch = " " -> h
               [] OTHER -> As("h_matching_connection_token")
        [] OTHER -> As(Follow(WordEdges, h.hs, ch, "h_matching_connection_token"))

\* h_general has a loop of its own, for at most max_header_size characters
\* before pe
GeneralValue(h) == IF h.pe = 0 THEN [h EXCEPT !.pe = h.p + MaxHeaderSize] ELSE h

\* one more character of any value, by what the header is
ValueChar(h, ch) ==
  CASE h.hs = "h_general" -> GeneralValue(h)
    [] h.hs \in {"h_connection", "h_transfer_encoding"} -> Error(h, "assert")
    [] h.hs \in {"h_content_length_num", "h_content_length_ws"} -> ContentLengthChar(h, ch)
    [] h.hs = "h_matching_transfer_encoding_chunked" ->
         [h EXCEPT !.hs = IF ch = "hunked" THEN "h_transfer_encoding_chunked" ELSE "h_general"]
    [] h.hs = "h_transfer_encoding_chunked" ->
         [h EXCEPT !.hs = IF ch = " " THEN @ ELSE "h_general"]
    [] OTHER -> ConnectionChar(h, ch)

HeaderAlmostDone(h, ch) ==
  IF ch = "LF" THEN Goto(h, "s_header_value_lws") ELSE Error(h, "HPE_LF_EXPECTED")

\* the loop over a value, and what it read, counted when it is left
EnterValue(h) == IF h.from = 0 THEN [h EXCEPT !.from = h.p] ELSE h
LeaveValue(h) == CountHeaderSize([h EXCEPT !.from = 0, !.pe = 0], h.p - h.from)

\* the character at pe is stepped over, whatever it is; the end of the line is
\* reported before it is counted at CR, and after it at LF
HeaderValue(h0, ch) ==
  LET h == EnterValue(h0)
      Report(r) == CallbackData(Goto(r, "s_header_almost_done"), "header_value", r.p - 1)
      left == LeaveValue(h)
  IN  CASE h.p = h.pe -> [h EXCEPT !.pe = 0]
        [] h.p # h.pe /\ ch = "CR" -> LeaveValue(Report(h))
        [] h.p # h.pe /\ ch = "LF" -> IF left.stop THEN left ELSE HeaderAlmostDone(Report(left), ch)
        [] h.p # h.pe /\ ch = "NUL" -> Error(h, "HPE_INVALID_HEADER_TOKEN")
        [] OTHER -> ValueChar(h, ch)

\* after the end of a line: a folded value goes on, any other is finished
HeaderValueLws(h, ch) ==
  IF ch = " "
  THEN HeaderValueStart([h EXCEPT !.hs = IF @ = "h_content_length_num"
                                         THEN "h_content_length_ws" ELSE @], ch)
  ELSE HeaderFieldStart(Goto(AddValueFlag(h), "s_header_field_start"), ch)

HeaderValueDiscardWs(h, ch) ==
  CASE ch = " " -> h
    [] ch = "CR" -> Goto(h, "s_header_value_discard_ws_almost_done")
    [] ch = "LF" -> Goto(h, "s_header_value_discard_lws")
    [] OTHER -> HeaderValueStart(h, ch)

HeaderValueDiscardWsAlmostDone(h, ch) ==
  Strictly(h, ch = "LF", Goto(h, "s_header_value_discard_lws"))

\* an empty value is reported as such
HeaderValueDiscardLws(h, ch) ==
  LET r == Goto(Mark(AddValueFlag(h), "header_value"), "s_header_field_start")
  IN  CASE ch = " " -> Goto(h, "s_header_value_discard_ws")
        [] ch # " " /\ h.hs = "h_content_length" -> Error(h, "HPE_INVALID_CONTENT_LENGTH")
        [] OTHER -> HeaderFieldStart(CallbackData(r, "header_value", h.p - 1), ch)

-----------------------------------------------------------------------------
(* The first line.                                                          *)

\* what a new message resets
Begin(h, s) ==
  [Goto(h, s) EXCEPT !.flags = {}, !.clen = LengthMax, !.sess = OnMessageBegin(@)]

Dead(h, ch) == IF ch \in {"CR", "LF"} THEN h ELSE Error(h, "HPE_CLOSED_CONNECTION")

StartRes(h, ch) ==
  CASE ch \in {"CR", "LF"} -> h
    [] ch = "H" -> Begin(h, "s_res_H")
    [] OTHER -> Error([h EXCEPT !.flags = {}, !.clen = LengthMax], "HPE_INVALID_CONSTANT")

\* a digit of the version, or the one character the state waits for
VersionDigit(h, ch, field, next) ==
  IF ch \in Digit THEN [Goto(h, next) EXCEPT ![field] = Numeral(ch)]
                  ELSE Error(h, "HPE_INVALID_VERSION")
Expecting(h, ch, wanted, next, e) == IF ch = wanted THEN Goto(h, next) ELSE Error(h, e)

ResVersion(h, ch) ==
  CASE h.state = "s_res_H" -> Expecting(h, ch, "TTP", "s_res_HTTP", "HPE_STRICT")
    [] h.state = "s_res_HTTP" -> Expecting(h, ch, "/", "s_res_http_major", "HPE_STRICT")
    [] h.state = "s_res_http_major" -> VersionDigit(h, ch, "major", "s_res_http_dot")
    [] h.state = "s_res_http_dot" ->
         Expecting(h, ch, ".", "s_res_http_minor", "HPE_INVALID_VERSION")
    [] h.state = "s_res_http_minor" -> VersionDigit(h, ch, "minor", "s_res_http_end")
    [] h.state = "s_res_http_end" ->
         Expecting(h, ch, " ", "s_res_first_status_code", "HPE_INVALID_VERSION")

ResStatus(h, ch) ==
  LET next == IF ch = "CR" THEN "s_res_line_almost_done" ELSE "s_header_field_start"
  IN  IF ch \in {"CR", "LF"} THEN CallbackData(Goto(h, next), "status", h.p - 1) ELSE h

ResStatusStart(h, ch) ==
  LET r == [Mark(h, "status") EXCEPT !.state = "s_res_status", !.index = 0]
  IN  IF ch \in {"CR", "LF"} THEN ResStatus(r, ch) ELSE r

ResStatusCode(h, ch) ==
  LET code == h.status * 10 + Numeral(ch)
  IN  CASE ch \in Digit -> IF code > 999 THEN Error([h EXCEPT !.status = code], "HPE_INVALID_STATUS")
                                         ELSE [h EXCEPT !.status = code]
        [] ch = " " -> Goto(h, "s_res_status_start")
        [] ch \in {"CR", "LF"} -> ResStatusStart(h, ch)
        [] OTHER -> Error(h, "HPE_INVALID_STATUS")

ResFirstStatusCode(h, ch) ==
  CASE ch \in Digit -> [Goto(h, "s_res_status_code") EXCEPT !.status = Numeral(ch)]
    [] ch = " " -> h
    [] OTHER -> Error(h, "HPE_INVALID_STATUS")

ResLineAlmostDone(h, ch) ==
  Expecting(h, ch, "LF", "s_header_field_start", "HPE_STRICT")

\* the method its first letter stands for until the next letter says otherwise
FirstMethod == ("G" :> "GET") @@ ("P" :> "POST") @@ ("C" :> "CONNECT") @@ ("H" :> "HEAD")

StartReq(h, ch) ==
  LET blank == [h EXCEPT !.flags = {}, !.clen = LengthMax]
  IN  CASE ch \in {"CR", "LF"} -> h
        [] ch \in DOMAIN FirstMethod ->
             [Begin(h, "s_req_method") EXCEPT !.method = FirstMethod[ch], !.index = 1]
        [] OTHER -> Error(blank, "HPE_INVALID_METHOD")

\* the rest of each method's name, and the methods it may turn into
Matcher == ("GET" :> "ET") @@ ("POST" :> "OST") @@ ("CONNECT" :> "ONNECT")
        @@ ("PUT" :> "UT") @@ ("HEAD" :> "EAD")
OtherMethod == (<<"POST", 1, "UT">> :> "PUT")

ReqMethod(h, ch) ==
  LET step == [h EXCEPT !.index = @ + 1]
      other == <<h.method, h.index, ch>>
  IN  CASE ch = " " /\ h.index = 2 -> Goto(step, "s_req_spaces_before_url")
        [] h.index = 1 /\ ch = Matcher[h.method] -> step
        [] other \in DOMAIN OtherMethod -> [step EXCEPT !.method = OtherMethod[other]]
        [] OTHER -> Error(h, "HPE_INVALID_METHOD")

\* a character of the URL
UrlStep(h, s, ch) ==
  LET r == Goto(h, ParseUrlChar[s, ch])
  IN  IF r.state = "s_dead" THEN Error(r, "HPE_INVALID_URL") ELSE r

ReqSpacesBeforeUrl(h, ch) ==
  IF ch = " " THEN h
  ELSE UrlStep(Mark(h, "url"),
               IF h.method = "CONNECT" THEN "s_req_server_start" ELSE h.state, ch)

ReqSchema(h, ch) == IF ch \in Blank THEN Error(h, "HPE_INVALID_URL") ELSE UrlStep(h, h.state, ch)

ReqUrl(h, ch) ==
  LET To(r, s) == CallbackData(Goto(r, s), "url", h.p - 1)
      old == [h EXCEPT !.major = 0, !.minor = 9]
  IN  CASE ch = " " -> To(h, "s_req_http_start")
        [] ch = "CR" -> To(old, "s_req_line_almost_done")
        [] ch = "LF" -> To(old, "s_header_field_start")
        [] OTHER -> UrlStep(h, h.state, ch)

ReqVersion(h, ch) ==
  CASE h.state = "s_req_http_start" ->
         IF ch = " " THEN h ELSE Expecting(h, ch, "H", "s_req_http_H", "HPE_INVALID_CONSTANT")
    [] h.state = "s_req_http_H" -> Expecting(h, ch, "TTP", "s_req_http_HTTP", "HPE_STRICT")
    [] h.state = "s_req_http_HTTP" -> Expecting(h, ch, "/", "s_req_http_major", "HPE_STRICT")
    [] h.state = "s_req_http_major" -> VersionDigit(h, ch, "major", "s_req_http_dot")
    [] h.state = "s_req_http_dot" ->
         Expecting(h, ch, ".", "s_req_http_minor", "HPE_INVALID_VERSION")
    [] h.state = "s_req_http_minor" -> VersionDigit(h, ch, "minor", "s_req_http_end")
    [] h.state = "s_req_http_end" ->
         IF ch = "CR" THEN Goto(h, "s_req_line_almost_done")
         ELSE Expecting(h, ch, "LF", "s_header_field_start", "HPE_INVALID_VERSION")
    [] h.state = "s_req_line_almost_done" ->
         Expecting(h, ch, "LF", "s_header_field_start", "HPE_LF_EXPECTED")

-----------------------------------------------------------------------------
(* One call.                                                                *)

Schema == {"s_req_schema", "s_req_schema_slash", "s_req_schema_slash_slash",
           "s_req_server_start"}

BodyState == {"s_chunk_data", "s_chunk_data_almost_done", "s_chunk_data_done",
              "s_body_identity", "s_body_identity_eof", "s_message_done"}

\* the switch on the state
Dispatch(h, ch) ==
  LET s == h.state
  IN  CASE s = "s_dead" -> Dead(h, ch)
        [] s = "s_start_req" -> StartReq(h, ch)
        [] s = "s_start_res" -> StartRes(h, ch)
        [] s = "s_res_first_status_code" -> ResFirstStatusCode(h, ch)
        [] s = "s_res_status_code" -> ResStatusCode(h, ch)
        [] s = "s_res_status_start" -> ResStatusStart(h, ch)
        [] s = "s_res_status" -> ResStatus(h, ch)
        [] s = "s_res_line_almost_done" -> ResLineAlmostDone(h, ch)
        [] s \in {"s_res_H", "s_res_HTTP", "s_res_http_major", "s_res_http_dot",
                  "s_res_http_minor", "s_res_http_end"} -> ResVersion(h, ch)
        [] s = "s_req_method" -> ReqMethod(h, ch)
        [] s = "s_req_spaces_before_url" -> ReqSpacesBeforeUrl(h, ch)
        [] s \in Schema -> ReqSchema(h, ch)
        [] s \in UrlState \ Schema -> ReqUrl(h, ch)
        [] s \in {"s_req_http_start", "s_req_http_H", "s_req_http_HTTP", "s_req_http_major",
                  "s_req_http_dot", "s_req_http_minor", "s_req_http_end",
                  "s_req_line_almost_done"} -> ReqVersion(h, ch)
        [] s = "s_header_field_start" -> HeaderFieldStart(h, ch)
        [] s = "s_header_field" -> HeaderField(h, ch)
        [] s = "s_header_value_discard_ws" -> HeaderValueDiscardWs(h, ch)
        [] s = "s_header_value_discard_ws_almost_done" -> HeaderValueDiscardWsAlmostDone(h, ch)
        [] s = "s_header_value_discard_lws" -> HeaderValueDiscardLws(h, ch)
        [] s = "s_header_value" -> HeaderValue(h, ch)
        [] s = "s_header_almost_done" -> HeaderAlmostDone(h, ch)
        [] s = "s_header_value_lws" -> HeaderValueLws(h, ch)
        [] s = "s_headers_almost_done" -> HeadersAlmostDone(h, ch)
        [] s = "s_chunk_size_start" -> ChunkSizeStart(h, ch)
        [] s = "s_chunk_size" -> ChunkSize(h, ch)
        [] s = "s_chunk_parameters" -> ChunkParameters(h, ch)
        [] s = "s_chunk_size_almost_done" -> ChunkSizeAlmostDone(h, ch)
        [] s = "s_chunk_data" -> ChunkData(h)
        [] s = "s_chunk_data_almost_done" -> ChunkDataAlmostDone(h, ch)
        [] s = "s_chunk_data_done" -> ChunkDataDone(h, ch)
        [] s = "s_body_identity" -> BodyIdentity(h)
        [] s = "s_body_identity_eof" -> BodyIdentityEof(h)
        [] OTHER -> Error(h, "assert")

\* each character of a header is counted before it is read, except inside the
\* loop over a value
CountChar(h) == IF h.state \in BodyState \/ h.from # 0 THEN h ELSE CountHeaderSize(h, 1)

\* a chunk that begins inside the query is not marked
MarkOnEntryButQuery(h) ==
  LET kind == CASE h.state = "s_header_field" -> {"header_field"}
                [] h.state = "s_header_value" -> {"header_value"}
                [] h.state \in UrlState \ Query -> {"url"}
                [] h.state = "s_res_status" -> {"status"}
                [] OTHER -> {}
  IN  [h EXCEPT !.mark = [k \in Kinds |-> IF k \in kind THEN 1 ELSE 0]]

\* a chunk that begins inside a text begins with its mark
MarkOnEntry(h) ==
  LET kind == CASE h.state = "s_header_field" -> {"header_field"}
                [] h.state = "s_header_value" -> {"header_value"}
                [] h.state \in UrlState -> {"url"}
                [] h.state = "s_res_status" -> {"status"}
                [] OTHER -> {}
  IN  [h EXCEPT !.mark = [k \in Kinds |-> IF k \in kind THEN 1 ELSE 0]]

\* the texts the chunk ends in, unless it ended in an error; there is at most
\* one
Leftover(h) ==
  LET last == Len(h.data)
      Text(r, kind) == CallbackData(r, kind, last)
  IN  IF h.stop THEN h
      ELSE Asserting(h, \A k, l \in Kinds : h.mark[k] # 0 /\ h.mark[l] # 0 => k = l,
             FoldLeft(Text, h, <<"header_field", "header_value", "url", "body", "status">>))

RECURSIVE Run(_)
Run(h) ==
  LET p == h.p + 1
      counted == CountChar([h EXCEPT !.p = p])
  IN  CASE h.stop -> h
        [] ~h.stop /\ h.p = Len(h.data) -> Leftover(IF h.from # 0 THEN LeaveValue(h) ELSE h)
        [] OTHER -> Run(IF counted.stop THEN counted ELSE Dispatch(counted, h.data[p]))

\* the locals of a call are gone when it returns
Return(h) == [h EXCEPT !.data = <<>>, !.p = 0, !.mark = NoMarks, !.from = 0, !.pe = 0,
                              !.stop = FALSE]

\* http_parser_execute(); data is not empty
Execute(h, data) ==
  IF h.errno # "HPE_OK" THEN h
  ELSE Return(Run(MarkOnEntry([h EXCEPT !.data = data])))
=============================================================================
