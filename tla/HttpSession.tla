---------------------------- MODULE HttpSession ----------------------------
(***************************************************************************)
(* HttpSession: the callbacks http_parser_execute() makes while it reads a *)
(* connection, and the HttpMessage they fill.  A session is a record; each *)
(* operator is one callback, from the session before it to the session     *)
(* after it (OnHeadersComplete and OnMessageComplete also return what the  *)
(* parser sees).  heads and done record the messages the user was shown by *)
(* onHeadersCallback_ and onMessageCallback_; user is what the user's      *)
(* callbacks answer.                                                       *)
(***************************************************************************)
EXTENDS HttpUrl, TLC

\* HttpMessage(); headers is the map headers_, hint the statuses in hint_
NewMessage == [method |-> "", url |-> <<>>, path |-> <<>>, status |-> 200, hint |-> <<>>,
               headers |-> <<>>, body |-> <<>>]

\* HttpSession(): no message before onMessageBegin()
NewSession(user) ==
  [msg |-> NewMessage, curField |-> <<>>, curValue |-> <<>>, lastIsValue |-> TRUE,
   user |-> user, heads |-> <<>>, done |-> <<>>]

AddHeader(msg, field, value) == [msg EXCEPT !.headers = (field :> value) @@ @]

\* the header collected so far goes to the message once its value has begun
FlushHeader(s) ==
  IF ~s.lastIsValue THEN s
  ELSE [s EXCEPT !.msg = IF s.curField = <<>> THEN @
                         ELSE AddHeader(@, s.curField, s.curValue),
                 !.curField = <<>>, !.curValue = <<>>]

OnMessageBegin(s) ==
  [s EXCEPT !.curField = <<>>, !.curValue = <<>>, !.lastIsValue = TRUE, !.msg = NewMessage]

OnUrl(s, text) == [s EXCEPT !.msg.url = @ \o text]

OnStatus(s, code) == [s EXCEPT !.msg.status = code, !.msg.hint = Append(@, code)]

OnHeaderField(s, text) ==
  [FlushHeader(s) EXCEPT !.curField = @ \o text, !.lastIsValue = FALSE]

OnHeaderValue(s, text) == [s EXCEPT !.curValue = @ \o text, !.lastIsValue = TRUE]

OnBody(s, text) == [s EXCEPT !.msg.body = @ \o text]

OnHeadersComplete(s, method) ==
  LET f == [FlushHeader(s) EXCEPT !.msg.method = method]
      url == ParseUrl(f.msg.url, FALSE)
      shown == [f EXCEPT !.msg.path = url.path]
  IN  IF url.ret # 0 THEN [sess |-> f, ret |-> url.ret]
      ELSE [sess |-> [shown EXCEPT !.heads = Append(@, shown.msg)], ret |-> s.user.headers]

OnMessageComplete(s) ==
  [sess |-> [s EXCEPT !.done = Append(@, s.msg)], ret |-> s.user.message]
=============================================================================
