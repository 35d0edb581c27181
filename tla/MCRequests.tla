----------------------------- MODULE MCRequests -----------------------------
(***************************************************************************)
(* Instances of Requests, and of Routing in it, for TLC.                   *)
(***************************************************************************)
EXTENDS Requests, TLC

\* "/a/b", "/a/b/" and "c": the first two have the same normalized path.
Paths == {<<"", "a", "b">>, <<"", "a", "b", "">>, <<"c">>}

AX == <<"", "a", "{x}">>
XB == <<"", "{x}", "b">>
XY == <<"", "{x}", "{y}">>
Unclosed == <<"", "{x">>
Patterns == {AX, XB, XY, Unclosed}
Params == {"{x}", "{y}"}
Rejected == {"{x"}
Ranks == (AX :> 1) @@ (XB :> 2) @@ (XY :> 3) @@ (Unclosed :> 4)

\* The stock order of priorities with everything in it, the chains of the
\* examples for static files and for CORS, and an authenticated API.
Stock == <<"time", "compression", "static", "body", "auth", "rate", "security", "cors", "logger", "dispatch">>
Files == <<"static", "dispatch">>
Api == <<"auth", "rate", "security", "dispatch">>
AllChains == {Stock, Files, Api}
ServesFiles == <<"time", "static", "dispatch">>
FilesChain == {ServesFiles}
FilesOnly == {Files}
StockChain == {Stock}
ApiChain == {Api}

Get == [method |-> "GET", path |-> <<"", "a", "b">>, file |-> "none", body |-> "none", matches |-> TRUE,
        auth |-> "Basic", token |-> "good", header |-> "none", query |-> "none", cookie |-> "none",
        accept |-> <<>>, key |-> "client", throws |-> FALSE]
Gzip == [coding |-> "gzip", q |-> NoQ]
Br == [coding |-> "br", q |-> 900]

Requests1 ==
  {[Get EXCEPT !.accept = <<Gzip>>],
   [Get EXCEPT !.accept = <<Br, Gzip>>, !.matches = FALSE],
   [Get EXCEPT !.file = "big", !.accept = <<Gzip, Br>>],
   [Get EXCEPT !.file = "unreadable", !.method = "HEAD"],
   [Get EXCEPT !.method = "POST", !.body = "bad"],
   [Get EXCEPT !.method = "OPTIONS", !.path = <<"c">>],
   [Get EXCEPT !.token = "bad", !.query = "good"],
   [Get EXCEPT !.auth = "none", !.header = "throws", !.cookie = "good"],
   [Get EXCEPT !.throws = TRUE]}

SchemeList == <<"Basic", "ApiKey", "SessionCookie">>
AllSchemes == {"Basic", "ApiKey", "SessionCookie"}
TwoCodings == <<"gzip", "br">>
Calls3 == (0 :> 7) @@ (1 :> 1) @@ (2 :> 0) @@ (3 :> 0)
Calls7 == 0 :> 7
Calls0 == (0 :> 1) @@ (1 :> 1)
=============================================================================
