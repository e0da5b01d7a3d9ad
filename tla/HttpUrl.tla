------------------------------ MODULE HttpUrl ------------------------------
(***************************************************************************)
(* The URL part of http_parser.c: the character classes, parse_url_char()  *)
(* (which http_parser_execute() and http_parser_parse_url() share), the    *)
(* host parser and http_parser_parse_url().                                *)
(*                                                                         *)
(* A character is a member of Char.  A keyword is cut in two pieces (its   *)
(* first letter and the rest, "c" and "hunked"), so that a read may end    *)
(* inside it; a piece counts as one character.  The code's two state       *)
(* machines are switches; here they are sets of edges.                     *)
(***************************************************************************)
EXTENDS Integers, Sequences, SequencesExt

Numerals == <<"0", "1", "2", "3", "4", "5", "6", "7", "8", "9">>
Digit == Range(Numerals)                                          \* IS_NUM
Numeral(ch) == (CHOOSE i \in DOMAIN Numerals : Numerals[i] = ch) - 1
Alpha == {"a", "x", "c", "p", "t", "u", "k", "G", "ET", "P", "OST", "UT", "C",
          "ONNECT", "H", "TTP", "onnection", "pgrade", "hunked", "lose"}
Dashed == {"roxy-connection", "ontent-length", "ransfer-encoding", "eep-alive"}
Blank == {" ", "CR", "LF"}
Char == Digit \cup Alpha \cup Dashed \cup Blank \cup {"NUL"}
          \cup {"/", "?", "#", ":", "@", "[", "]", "%", ".", ";", ",", "*"}

\* unhex[]: the pieces that are one hexadecimal digit
Hex == Digit \cup {"a", "c", "C"}
Unhex(ch) == IF ch \in Digit THEN Numeral(ch) ELSE IF ch = "a" THEN 10 ELSE 12

UserInfoChar == Alpha \cup Digit \cup Dashed \cup {".", "*", "%", ";", ":", ","}
UrlChar == Char \ (Blank \cup {"NUL", "?", "#"})
HostChar == Alpha \cup Digit \cup Dashed \cup {"."}

-----------------------------------------------------------------------------
\* the states after the first character of a URL
UrlState == {"s_req_schema", "s_req_schema_slash", "s_req_schema_slash_slash",
             "s_req_server_start", "s_req_server", "s_req_server_with_at",
             "s_req_path", "s_req_query_string_start", "s_req_query_string",
             "s_req_fragment_start", "s_req_fragment"}

Server == {"s_req_server_start", "s_req_server", "s_req_server_with_at"}
Query == {"s_req_query_string_start", "s_req_query_string"}

UrlEdges ==
  { <<{"s_req_spaces_before_url"}, {"/", "*"}, "s_req_path">>,
    <<{"s_req_spaces_before_url", "s_req_schema"}, Alpha, "s_req_schema">>,
    <<{"s_req_schema"}, {":"}, "s_req_schema_slash">>,
    <<{"s_req_schema_slash"}, {"/"}, "s_req_schema_slash_slash">>,
    <<{"s_req_schema_slash_slash"}, {"/"}, "s_req_server_start">>,
    <<Server, {"/"}, "s_req_path">>,
    <<Server, {"?"}, "s_req_query_string_start">>,
    <<Server \ {"s_req_server_with_at"}, {"@"}, "s_req_server_with_at">>,
    <<Server, UserInfoChar \cup {"[", "]"}, "s_req_server">>,
    <<{"s_req_path"}, UrlChar, "s_req_path">>,
    <<{"s_req_path"}, {"?"}, "s_req_query_string_start">>,
    <<Query, UrlChar \cup {"?"}, "s_req_query_string">>,
    <<Query \cup {"s_req_path", "s_req_fragment_start"}, {"#"}, "s_req_fragment_start">>,
    <<{"s_req_fragment_start", "s_req_fragment"}, UrlChar \cup {"?"}, "s_req_fragment">>,
    <<{"s_req_fragment"}, {"#"}, "s_req_fragment">> }

Follow(edges, s, ch, dead) ==
  IF \E e \in edges : s \in e[1] /\ ch \in e[2]
  THEN (CHOOSE e \in edges : s \in e[1] /\ ch \in e[2])[3]
  ELSE dead

\* parse_url_char()
ParseUrlChar ==
  [s \in UrlState \cup {"s_req_spaces_before_url", "s_dead"}, ch \in Char |->
     Follow(UrlEdges, s, ch, "s_dead")]

-----------------------------------------------------------------------------
HostEdges ==
  { <<{"userinfo_start", "userinfo"}, {"@"}, "host_start">>,
    <<{"userinfo_start", "userinfo"}, UserInfoChar, "userinfo">>,
    <<{"host_start"}, {"["}, "v6_start">>,
    <<{"host_start", "host"}, HostChar, "host">>,
    <<{"host", "v6_end"}, {":"}, "port_start">>,
    <<{"v6", "v6_zone"}, {"]"}, "v6_end">>,
    <<{"v6_start", "v6"}, Hex \cup {":", "."}, "v6">>,
    <<{"v6"}, {"%"}, "v6_zone_start">>,
    <<{"v6_zone_start", "v6_zone"}, Alpha \cup Digit \cup Dashed \cup {"%", "."}, "v6_zone">>,
    <<{"port_start", "port"}, Digit, "port">> }

\* http_parse_host_char()
ParseHostChar(s, ch) == Follow(HostEdges, s, ch, "dead")

\* http_parse_host(): whether the host is well formed, its port's digits, and
\* whether it has user information
ParseHost(host, foundAt) ==
  LET Step(r, ch) ==
        LET s == ParseHostChar(r.s, ch)
        IN  [s |-> s, port |-> IF s = "port" THEN Append(r.port, ch) ELSE r.port,
             info |-> r.info \/ s = "userinfo"]
      end == FoldLeft(Step, [s |-> IF foundAt THEN "userinfo_start" ELSE "host_start",
                             port |-> <<>>, info |-> FALSE], host)
  IN  [ok |-> end.s \in {"host", "v6_end", "port"}, port |-> end.port, info |-> end.info]

\* the port's digits are at most 0xffff, a prefix at a time
PortFits(port) ==
  FoldLeft(LAMBDA v, ch : IF v > 65535 THEN v ELSE v * 10 + Numeral(ch), 0, port) <= 65535

\* the field a state belongs to; delimiters belong to none
FieldOf(s) ==
  CASE s = "s_req_schema" -> "UF_SCHEMA"
    [] s \in {"s_req_server", "s_req_server_with_at"} -> "UF_HOST"
    [] s = "s_req_path" -> "UF_PATH"
    [] s = "s_req_query_string" -> "UF_QUERY"
    [] s = "s_req_fragment" -> "UF_FRAGMENT"
    [] OTHER -> "UF_MAX"

Fields == {"UF_SCHEMA", "UF_HOST", "UF_PATH", "UF_QUERY", "UF_FRAGMENT", "UF_MAX"}

\* the loop of http_parser_parse_url(): the texts of the fields
UrlTexts(url, isConnect) ==
  LET Step(r, ch) ==
        LET s == ParseUrlChar[r.s, ch]
        IN  [s |-> s, foundAt |-> r.foundAt \/ s = "s_req_server_with_at",
             text |-> [r.text EXCEPT ![FieldOf(s)] = Append(@, ch)]]
  IN  FoldLeft(Step,
        [s |-> IF isConnect THEN "s_req_server_start" ELSE "s_req_spaces_before_url",
         foundAt |-> FALSE, text |-> [f \in Fields |-> <<>>]], url)

\* what makes a URL of these texts and this host acceptable
UrlFits(end, host, isConnect) ==
  LET set == {f \in Fields \ {"UF_MAX"} : end.text[f] # <<>>}
  IN  /\ end.s # "s_dead"
      /\ "UF_SCHEMA" \in set => "UF_HOST" \in set
      /\ "UF_HOST" \in set => host.ok
      /\ isConnect => set = {"UF_HOST"} /\ host.port # <<>> /\ ~host.info
      /\ PortFits(host.port)

ParsedUrl(end, isConnect) ==
  [ret |-> IF UrlFits(end, ParseHost(end.text["UF_HOST"], end.foundAt), isConnect) THEN 0 ELSE 1,
   path |-> end.text["UF_PATH"]]

\* http_parser_parse_url(): 0 or 1, and the text of the path
ParseUrl(url, isConnect) ==
  IF url = <<>> THEN [ret |-> 1, path |-> <<>>]
  ELSE ParsedUrl(UrlTexts(url, isConnect), isConnect)
=============================================================================
