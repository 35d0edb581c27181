------------------------------ MODULE Requests ------------------------------
(***************************************************************************)
(* Requests through a chain of the library's own middlewares, down to the  *)
(* router's dispatch (examples/detail).  MiddlewareChain models the chain  *)
(* with arbitrary middlewares, threads and timers; here the middlewares    *)
(* are concrete, none of them suspends, and so the whole of execute or     *)
(* execute_async is one call stack.  The routes, the rate limiter's        *)
(* buckets and the clock are shared by all requests.                       *)
(***************************************************************************)
EXTENDS Routing

CONSTANTS
  Chains,             \* the chains to choose from: sequences of middlewares
  GlobalRouted,       \* the chains whose dispatch has no router of its own
  Modes,              \* "sync": execute, "async": execute_async
  Request,            \* the requests
  Conditional,        \* middlewares wrapped in a ConditionalMiddleware
  Schemes,            \* AuthMiddleware: schemes_, in order
  Validators,         \* AuthMiddleware: the schemes with a validator
  BadRequestOnError,  \* BodyParserMiddleware: bad_request_on_error_
  Supported,          \* CompressionMiddleware: supported_types_, in order
  HasBrotli,          \* the build has USING_BROTLI
  FailingCodings,     \* codings of which the compressor fails
  RateMax, RateWindow,\* RateLimitMiddleware: max_requests_, window_
  HandlerBody,        \* the bodies handlers produce
  MaxTime,            \* bound: the clock
  MaxCalls            \* bound: requests and ticks while n routes are registered

Middleware == {"time", "compression", "static", "body", "auth", "rate", "security", "cors",
               "logger", "dispatch"}

ASSUME RequestsAssumption ==
  /\ \A c \in Chains : c \in Seq(Middleware) /\ IsInjective(c)
  /\ Modes \subseteq {"sync", "async"} /\ Conditional \subseteq Middleware
  /\ RateMax \in Nat \ {0} /\ RateWindow \in Nat \ {0}
  /\ MaxTime \in Nat /\ MaxCalls \in [0 .. MaxRoutes -> Nat]

VARIABLES
  chain, mode,  \* the server's chain and how it is run
  req, res,     \* the request and the response
  pc,           \* what the innermost call of the chain does next
  index,        \* current_index
  stack,        \* the middlewares that wait for next() or for their callback
  completed,    \* the completion callback was called
  buckets,      \* the rate limiter's buckets_
  clock,
  count,        \* number of requests
  entered,      \* history: the middlewares entered for this request
  refused,      \* history: the first middleware that ended the pipeline, or "none"
  passed        \* history: when the rate limiter let the requests of a key pass

flight == <<req, res, pc, index, stack, completed, count, entered, refused>>
vars == <<routeVars, chain, mode, flight, buckets, clock, passed>>

Key == {r.key : r \in Request}
NoRequest == [key |-> "none"]
Fresh == [status |-> 200, body |-> "none", label |-> "none", coding |-> "none",
          fields |-> {}, by |-> "none"]

TypeOK ==
  /\ RoutingTypeOK
  /\ chain \in Chains /\ mode \in Modes /\ req \in Request \cup {NoRequest}
  /\ res \in [status : {200, 400, 401, 403, 404, 405, 413, 429, 500},
              body : {"none", "message"} \cup HandlerBody,
              label : {"none"} \cup Range(Supported), coding : {"none", "gzip", "deflate", "br"},
              fields : SUBSET {"cors", "security", "time", "allow", "challenge"}, by : Middleware \cup {"none"}]
  /\ pc \in {"idle", "step", "unwind"} /\ index \in 0 .. Len(chain)
  /\ stack \in Seq(Middleware \X {"next", "callback"}) /\ Len(stack) <= Len(chain)
  /\ completed \in BOOLEAN /\ entered \subseteq Middleware /\ refused \in Middleware \cup {"none"}
  /\ buckets \in [Key -> [count : 0 .. RateMax, start : 0 .. MaxTime]]
  /\ clock \in 1 .. MaxTime /\ count \in 0 .. MaxCalls[0]
  /\ passed \in [Key -> Seq(1 .. MaxTime)]

Init ==
  /\ RoutingInit /\ chain \in Chains /\ mode \in Modes
  /\ req = NoRequest /\ res = Fresh /\ pc = "idle" /\ index = 0 /\ stack = <<>>
  /\ completed = FALSE /\ count = 0 /\ entered = {} /\ refused = "none"
  /\ buckets = [k \in Key |-> [count |-> 0, start |-> 0]]
  /\ clock = 1 /\ passed = [k \in Key |-> <<>>]

-----------------------------------------------------------------------------
(* The chain around the middlewares. *)

Shared == <<routeVars, chain, mode, clock>>

\* The bound on what is asked of the server.
Room == count + clock - 1 < MaxCalls[Len(routes)]

\* execute or execute_async is called with a new request.
Arrive ==
  /\ pc = "idle" /\ Room
  /\ req' \in Request /\ pc' = "step" /\ count' = count + 1
  /\ UNCHANGED <<Shared, res, index, stack, completed, entered, refused, buckets, passed>>

Current == chain[index + 1]

\* ConditionalMiddleware passes its condition on as should_execute().
ShouldExecute(m) == m \in Conditional => req.matches

\* The middleware at the current index is popped and its body starts.
Enters(m) ==
  /\ pc = "step" /\ index < Len(chain) /\ Current = m
  /\ ShouldExecute(m)
  /\ index' = index + 1 /\ entered' = entered \cup {m}
  /\ UNCHANGED <<Shared, req, count>>

\* should_execute() is false.
SkipMiddleware ==
  /\ pc = "step" /\ index < Len(chain) /\ ~ShouldExecute(Current)
  /\ index' = index + 1
  /\ UNCHANGED <<Shared, req, res, pc, stack, completed, buckets, count, entered, refused, passed>>

\* The body calls next().
Calls(m, r) ==
  /\ res' = r /\ stack' = Append(stack, <<m, "next">>) /\ pc' = "step"
  /\ UNCHANGED <<completed, refused>>

\* A chain that goes on whether next() was called or not.
EndsGoesOn(m, r, verdict) ==
  /\ res' = r /\ refused' = IF refused = "none" THEN m ELSE refused
  /\ pc' = "step" /\ UNCHANGED <<stack, completed>>

\* The body returns without calling next(); under execute_async it has called
\* back with the verdict, and Continue steps to the next middleware.
Ends(m, r, verdict) ==
  /\ res' = r /\ refused' = IF refused = "none" THEN m ELSE refused
  /\ \/ mode = "sync" /\ pc' = "unwind" /\ UNCHANGED <<stack, completed>>
     \/ /\ mode = "async" /\ verdict = "Continue"
        /\ stack' = Append(stack, <<m, "callback">>) /\ pc' = "step" /\ UNCHANGED completed
     \/ /\ mode = "async" /\ verdict # "Continue"
        /\ completed' = TRUE /\ pc' = "unwind" /\ UNCHANGED stack

\* The index is at the end of the pipeline.
EndOfChain ==
  /\ pc = "step" /\ index = Len(chain) /\ pc' = "unwind"
  /\ completed' = (completed \/ mode = "async")
  /\ UNCHANGED <<Shared, req, res, index, stack, buckets, count, entered, refused, passed>>

-----------------------------------------------------------------------------
(* Compression, after next(). *)

\* The place of a coding in Accept-Encoding, and the q-value that follows it:
\* the next one in the field, which may belong to a later coding.  In thousandths.
Place(coding) == CHOOSE i \in DOMAIN req.accept : req.accept[i].coding = coding
Accepted == {i \in DOMAIN Supported : \E j \in DOMAIN req.accept : req.accept[j].coding = Supported[i]}
NoQ == 1001
Priority(coding) ==
  LET with == {i \in DOMAIN req.accept : i >= Place(coding) /\ req.accept[i].q # NoQ}
  IN  IF with = {} THEN 1 ELSE req.accept[CHOOSE i \in with : \A j \in with : i <= j].q

\* compress_response takes the first of the best.
BestType ==
  Supported[CHOOSE i \in Accepted : \A j \in Accepted :
              \/ Priority(Supported[i]) > Priority(Supported[j])
              \/ Priority(Supported[i]) = Priority(Supported[j]) /\ i <= j]

\* A switch over the codings whose case for gzip has no break.
CodedFallsThrough(type) == IF type = "gzip" THEN "deflate" ELSE type

\* What the compressors make of a body: brotli falls back to gzip, deflate to
\* the body as it is.
Coded(type) ==
  CASE type = "br" /\ ~(HasBrotli /\ type \notin FailingCodings) -> "gzip"
    [] type = "deflate" /\ type \in FailingCodings -> "none"
    [] OTHER -> type

\* "big" is a body that is not shorter than threshold_.
ShouldCompress(r) == r.label = "none" /\ r.body = "big" /\ Accepted # {}

CompressResponse(r) ==
  IF ShouldCompress(r) THEN [r EXCEPT !.label = BestType, !.coding = Coded(BestType)] ELSE r

-----------------------------------------------------------------------------
(* Returning from next(). *)

\* Security headers that only execute() sets.
AfterNextSyncOnly(m, r) ==
  IF mode = "sync" /\ m \in {"time", "security"} THEN [r EXCEPT !.fields = @ \cup {m}] ELSE r

\* SecurityHeadersMiddleware sets its fields in both forms, ResponseTimeMiddleware
\* only in the synchronous one.
SetSecurityHeaders(r) == [r EXCEPT !.fields = @ \cup {"security"}]
SetResponseTime(r) == IF mode = "sync" THEN [r EXCEPT !.fields = @ \cup {"time"}] ELSE r

\* What the body of a middleware does after next().
AfterNext(m, r) ==
  CASE m = "compression" -> CompressResponse(r)
    [] m = "security" -> SetSecurityHeaders(r)
    [] m = "time" -> SetResponseTime(r)
    [] OTHER -> r

\* The innermost call returns.  Under execute_async the middleware that called
\* next() then calls back with Continue, which steps again.
Unwind ==
  /\ pc = "unwind" /\ stack # <<>>
  /\ LET m == Last(stack)[1] IN
     IF Last(stack)[2] = "next"
     THEN /\ res' = AfterNext(m, res)
          /\ \/ mode = "sync" /\ stack' = Front(stack) /\ UNCHANGED pc
             \/ mode = "async" /\ stack' = Append(Front(stack), <<m, "callback">>) /\ pc' = "step"
     ELSE stack' = Front(stack) /\ UNCHANGED <<res, pc>>
  /\ UNCHANGED <<Shared, req, index, completed, buckets, count, entered, refused, passed>>

\* execute or execute_async returns.  The session prepares the payload and writes
\* the response, under execute_async when the posted completion resumes it.
Returned == pc = "unwind" /\ stack = <<>>
Finish ==
  /\ Returned /\ pc' = "idle" /\ index' = 0 /\ req' = NoRequest /\ res' = Fresh
  /\ completed' = FALSE /\ entered' = {} /\ refused' = "none"
  /\ UNCHANGED <<Shared, stack, buckets, count, passed>>

-----------------------------------------------------------------------------
(* The middlewares. *)

Reply(m, status, body) ==
  [res EXCEPT !.status = status, !.body = body, !.coding = "none", !.by = m]

\* Four middlewares call next() first; see AfterNext.  What LoggerMiddleware writes
\* to its log is left out.
Wraps(m) == Enters(m) /\ Calls(m, res) /\ UNCHANGED <<buckets, passed>>
ResponseTime    == Wraps("time")
Compression     == Wraps("compression")
SecurityHeaders == Wraps("security")
Logger          == Wraps("logger")

\* StaticMiddleware::try_serve by the state of the file the path maps to.
ServeStatus ==
  CASE req.file = "outside" -> 403
    [] req.file \in {"missing", "noindex"} -> 404
    [] req.file = "nosize" -> 500
    [] req.file = "huge" -> 413
    [] req.file = "unreadable" -> IF req.method = "HEAD" THEN 200 ELSE 500
    [] OTHER -> 200

Static ==
  /\ Enters("static") /\ UNCHANGED <<buckets, passed>>
  /\ \/ (req.method \notin {"GET", "HEAD"} \/ req.file = "none") /\ Calls("static", res)
     \/ /\ req.method \in {"GET", "HEAD"} /\ req.file # "none"
        /\ LET body == CASE ServeStatus # 200 -> "message"
                         [] req.method = "HEAD" -> "none"
                         [] OTHER -> req.file
           IN  Ends("static", Reply("static", ServeStatus, body), "Stop")

\* A parse error ends the request or is ignored.
BodyParser ==
  /\ Enters("body") /\ UNCHANGED <<buckets, passed>>
  /\ \/ ~(req.body = "bad" /\ BadRequestOnError) /\ Calls("body", res)
     \/ /\ req.body = "bad" /\ BadRequestOnError
        /\ Ends("body", Reply("body", 400, "message"), "Stop")

\* The credential a scheme finds in the request; an API key in the header goes
\* before one in the query.
Credential(scheme) ==
  CASE scheme \in {"BearerJwt", "Oauth2"} -> IF req.auth = "Bearer" THEN req.token ELSE "none"
    [] scheme \in {"Basic", "Digest"}     -> IF req.auth = scheme THEN req.token ELSE "none"
    [] scheme = "ApiKey"                  -> IF req.header # "none" THEN req.header ELSE req.query
    [] scheme = "SessionCookie"           -> req.cookie

\* The schemes that find a user, or whose validator throws.
Deciding ==
  {i \in DOMAIN Schemes : Schemes[i] \in Validators /\ Credential(Schemes[i]) \in {"good", "throws"}}

Authenticated ==
  \E i \in Deciding : Credential(Schemes[i]) = "good" /\ \A j \in Deciding : i <= j

\* 401, with WWW-Authenticate if a scheme has a name for it.
Challenge ==
  LET reply == Reply("auth", 401, "message")
  IN  IF Range(Schemes) \subseteq {"SessionCookie"} THEN reply
      ELSE [reply EXCEPT !.fields = @ \cup {"challenge"}]

\* The first scheme that decides; a validator that throws is an error reply, and
\* has the status of a failure.  The asynchronous form is the default one.
Auth ==
  /\ Enters("auth") /\ UNCHANGED <<buckets, passed>>
  /\ \/ Authenticated /\ Calls("auth", res)
     \/ ~Authenticated /\ Ends("auth", Challenge, "Continue")

\* A limit that is off by one.
IsLimitedLate(b) == b.start # 0 /\ clock - b.start < RateWindow /\ b.count > RateMax

\* The window of a key begins with its first request, or with the first request
\* after the last window ended.
IsLimited(b) == b.start # 0 /\ clock - b.start < RateWindow /\ b.count >= RateMax

RateLimit ==
  LET k == req.key b == buckets[k] IN
  /\ Enters("rate")
  /\ \/ /\ IsLimited(b) /\ UNCHANGED <<buckets, passed>>
        /\ Ends("rate", Reply("rate", 429, "message"), "Continue")
     \/ /\ ~IsLimited(b) /\ Calls("rate", res)
        /\ buckets' = [buckets EXCEPT ![k] =
             IF b.start = 0 \/ clock - b.start >= RateWindow THEN [count |-> 1, start |-> clock]
             ELSE [b EXCEPT !.count = @ + 1]]
        /\ passed' = [passed EXCEPT ![k] = Append(@, clock)]

\* Only the synchronous form empties the body of a preflight answer.
Cors ==
  LET marked == [res EXCEPT !.fields = @ \cup {"cors"}] IN
  /\ Enters("cors") /\ UNCHANGED <<buckets, passed>>
  /\ \/ req.method # "OPTIONS" /\ Calls("cors", marked)
     \/ /\ req.method = "OPTIONS"
        /\ Ends("cors", IF mode = "sync" THEN [marked EXCEPT !.status = 200, !.by = "cors",
                                                             !.body = "none", !.coding = "none"]
                        ELSE [marked EXCEPT !.status = 200, !.by = "cors"], "Stop")

\* Without a router of its own the dispatch asks the global one, which knows no
\* 405 and finds only routes for any method.
Found ==
  IF chain \in GlobalRouted THEN [route |-> ResolveRoute(req.path), allowed |-> {}]
  ELSE Resolve(req.path, req.method)

\* router_dispatch_middleware: the handler, 405 or 404.  A handler that throws is
\* caught by the chain under execute; under execute_async the dispatch reports
\* Error, and nothing writes an answer.
Dispatch ==
  LET found == Found IN
  /\ Enters("dispatch") /\ UNCHANGED <<buckets, passed>>
  /\ \/ /\ found.route # NoRoute /\ ~req.throws
        /\ \E body \in HandlerBody : Ends("dispatch", Reply("dispatch", 200, body), "Stop")
     \/ /\ found.route # NoRoute /\ req.throws
        /\ Ends("dispatch", IF mode = "sync" THEN Reply("dispatch", 500, "message") ELSE res, "Error")
     \/ /\ found.route = NoRoute /\ found.allowed # {}
        /\ Ends("dispatch", [Reply("dispatch", 405, "message") EXCEPT !.fields = @ \cup {"allow"}], "Stop")
     \/ /\ found.route = NoRoute /\ found.allowed = {}
        /\ Ends("dispatch", Reply("dispatch", 404, "message"), "Stop")

-----------------------------------------------------------------------------
Tick ==
  /\ clock < MaxTime /\ Room /\ clock' = clock + 1
  /\ UNCHANGED <<routeVars, chain, mode, flight, buckets, passed>>

\* Routes may be registered while a request is under way.
Configure ==
  /\ RoutingNext /\ count + clock - 1 <= MaxCalls[Len(routes')]
  /\ UNCHANGED <<chain, mode, flight, buckets, clock, passed>>

Next ==
  \/ Arrive \/ SkipMiddleware \/ EndOfChain \/ Unwind \/ Finish
  \/ ResponseTime \/ Compression \/ SecurityHeaders \/ Logger
  \/ Static \/ BodyParser \/ Auth \/ RateLimit \/ Cors \/ Dispatch
  \/ Tick \/ Configure

Spec == Init /\ [][Next]_vars

-----------------------------------------------------------------------------
(* Properties. *)

\* Under execute, a middleware that answers without calling next() has the last
\* word: nothing behind it runs, and no other middleware replaces its answer.
RefusalIsFinal ==
  mode = "sync" /\ refused # "none" =>
    /\ res.by = refused
    /\ \A i \in DOMAIN chain : chain[i] \in entered => i <= index /\ chain[index] = refused

\* The codings this build may be unable to make.
Unmade == (IF HasBrotli THEN {} ELSE {"br"}) \cup (FailingCodings \cap {"br", "deflate"})

\* Under execute, a body that is compressed says so, and its Content-Encoding is
\* the coding it has unless the build cannot make that one, although several
\* middlewares write the body and only one the field.
EncodingIsTrue == mode = "sync" /\ Returned => res.label = res.coding \/ res.label \in Unmade

\* A response that went through SecurityHeadersMiddleware has its fields, also if
\* a middleware behind it refused the request or a handler threw.
SecurityKept == Returned /\ "security" \in entered => "security" \in res.fields

\* "Simple sliding window limiter: allow 'max_requests' per 'window'".
WindowSlides ==
  \A k \in Key, t \in 1 .. MaxTime :
    Cardinality({i \in DOMAIN passed[k] : passed[k][i] \in t .. t + RateWindow - 1}) <= RateMax

\* What the limiter does keep: its windows do not slide, so two of them may meet;
\* still no more than 2 * max_requests_ - 1 requests of a key pass in any time of one window.
RateBound ==
  \A k \in Key, t \in 1 .. MaxTime :
    Cardinality({i \in DOMAIN passed[k] : passed[k][i] \in t .. t + RateWindow - 1}) <= 2 * RateMax - 1

\* "If a middleware does not call next(), later middleware and the default route
\* dispatch may not run": once a middleware has answered and reported Stop, the
\* answer is the one that is sent.
StopIsFinal == mode = "async" /\ Returned /\ refused \in {"static", "cors", "body"} => res.by = refused
=============================================================================
