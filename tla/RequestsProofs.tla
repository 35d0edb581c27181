--------------------------- MODULE RequestsProofs ---------------------------
(***************************************************************************)
(* Proofs about Requests and the route table in it: for every chain of the *)
(* middlewares, every set of requests, any number of routes and any limit. *)
(***************************************************************************)
EXTENDS Requests, FiniteSetTheorems, SequenceTheorems, WellFoundedInduction, TLAPS

-----------------------------------------------------------------------------
(* A request on its way through the chain. *)

ResponseFields == {"status", "body", "label", "coding", "fields", "by"}

\* What a middleware that calls next() has done to the response before.
PassesOn(r) ==
  /\ DOMAIN r = ResponseFields
  /\ r.label = res.label /\ r.coding = res.coding /\ res.fields \subseteq r.fields

\* What one that does not call next() leaves: under execute its own answer.
Answers(m, r) ==
  /\ m # "security" /\ DOMAIN r = ResponseFields
  /\ r.label = res.label /\ res.fields \subseteq r.fields
  /\ mode = "sync" => r.by = m /\ r.coding = "none"

\* Reply writes the answer and keeps the fields set so far.
LEMMA ReplyAnswers ==
  ASSUME DOMAIN res = ResponseFields, NEW m, m # "security", NEW status, NEW body
  PROVE  Answers(m, Reply(m, status, body))
  BY DEF Answers, Reply, ResponseFields

\* A middleware's step, whichever it is.
Runs(m) ==
  /\ Enters(m)
  /\ \/ \E r : PassesOn(r) /\ Calls(m, r)
     \/ \E r, verdict : Answers(m, r) /\ Ends(m, r, verdict)

\* Every middleware's action is such a step.
LEMMA MiddlewareRuns ==
  ASSUME DOMAIN res = ResponseFields,
         \/ ResponseTime \/ Compression \/ SecurityHeaders \/ Logger
         \/ Static \/ BodyParser \/ Auth \/ RateLimit \/ Cors \/ Dispatch
  PROVE  \E m \in Middleware : Runs(m)
<1>0. PassesOn(res)
  BY DEF PassesOn
<1>1. ASSUME NEW m \in Middleware, Wraps(m) PROVE Runs(m)
  BY <1>0, <1>1 DEF Wraps, Runs
<1>2. CASE Static
  BY <1>0, <1>2, ReplyAnswers DEF Static, Runs, Middleware
<1>3. CASE BodyParser
  BY <1>0, <1>3, ReplyAnswers DEF BodyParser, Runs, Middleware
<1>4. CASE Auth
  <2>1. Answers("auth", Challenge)
    BY DEF Challenge, Answers, Reply, ResponseFields
  <2>2. QED
    BY <1>0, <1>4, <2>1 DEF Auth, Runs, Middleware
<1>5. CASE RateLimit
  BY <1>0, <1>5, ReplyAnswers DEF RateLimit, Runs, Middleware
<1>6. CASE Cors
  <2> DEFINE marked == [res EXCEPT !.fields = @ \cup {"cors"}]
             answer == IF mode = "sync" THEN [marked EXCEPT !.status = 200, !.by = "cors",
                                                            !.body = "none", !.coding = "none"]
                       ELSE [marked EXCEPT !.status = 200, !.by = "cors"]
  <2>1. PassesOn(marked)
    BY DEF PassesOn, ResponseFields
  <2>2. Answers("cors", answer)
    BY DEF Answers, ResponseFields
  <2>3. Enters("cors") /\ (Calls("cors", marked) \/ Ends("cors", answer, "Stop"))
    BY <1>6 DEF Cors
  <2>4. QED
    BY <2>1, <2>2, <2>3 DEF Runs, Middleware
<1>7. CASE Dispatch
  <2> DEFINE thrown == IF mode = "sync" THEN Reply("dispatch", 500, "message") ELSE res
  <2>1. Answers("dispatch", thrown)
    <3>1. CASE mode = "sync"
      BY <3>1, ReplyAnswers
    <3>2. CASE mode # "sync"
      BY <3>2 DEF Answers
    <3>3. QED
      BY <3>1, <3>2
  <2>2. \A body : Answers("dispatch", Reply("dispatch", 200, body))
    BY ReplyAnswers
  <2>3. /\ Answers("dispatch", [Reply("dispatch", 405, "message") EXCEPT !.fields = @ \cup {"allow"}])
        /\ Answers("dispatch", Reply("dispatch", 404, "message"))
    BY DEF Answers, Reply, ResponseFields
  <2>4. \E r, verdict : Answers("dispatch", r) /\ Ends("dispatch", r, verdict)
    BY <1>7, <2>1, <2>2, <2>3, ZenonT(40) DEF Dispatch
  <2>5. QED
    BY <1>7, <2>4 DEF Dispatch, Runs, Middleware
<1>8. QED
  BY <1>1, <1>2, <1>3, <1>4, <1>5, <1>6, <1>7
  DEF ResponseTime, Compression, SecurityHeaders, Logger, Middleware

\* The steps that are not part of a request leave it alone.
LEMMA RequestUntouched ==
  ASSUME Tick \/ Configure \/ UNCHANGED vars
  PROVE  UNCHANGED <<chain, mode, flight>>
  BY DEF Tick, Configure, vars

\* Between requests nothing of the last one is left.
FlightShape ==
  /\ chain \in Chains /\ index \in 0 .. Len(chain)
  /\ stack \in Seq(Middleware \X {"next", "callback"})
  /\ DOMAIN res = ResponseFields
  /\ pc = "idle" => index = 0 /\ entered = {} /\ refused = "none" /\ res = Fresh

\* A refusal ends the walk down the chain at the middleware that refused.
Refusal ==
  mode = "sync" /\ refused # "none" =>
    pc = "unwind" /\ res.by = refused /\ index > 0 /\ chain[index] = refused

\* Only what the index has passed was entered.
Passed == \A m \in entered : \E i \in 1 .. index : chain[i] = m

\* The security headers are set, or their middleware still waits for next().
Owed ==
  "security" \in entered =>
    "security" \in res.fields \/ \E i \in DOMAIN stack : stack[i] = <<"security", "next">>

\* The invariant of RefusalIsFinal and SecurityKept.
FlightInv == FlightShape /\ Refusal /\ Passed /\ Owed

\* What a middleware does after next() takes no field away, and neither replaces
\* the answer nor leaves out the security headers.
LEMMA AfterNextKeeps ==
  ASSUME DOMAIN res = ResponseFields, NEW m
  PROVE  /\ DOMAIN AfterNext(m, res) = ResponseFields
         /\ res.fields \subseteq AfterNext(m, res).fields
         /\ AfterNext(m, res).by = res.by
         /\ m = "security" => "security" \in AfterNext(m, res).fields
<1>1. CASE m = "compression"
  BY <1>1 DEF AfterNext, CompressResponse, ResponseFields
<1>2. CASE m = "security"
  BY <1>2 DEF AfterNext, SetSecurityHeaders, ResponseFields
<1>3. CASE m = "time"
  BY <1>3 DEF AfterNext, SetResponseTime, ResponseFields
<1>4. CASE m \notin {"compression", "security", "time"}
  BY <1>4 DEF AfterNext
<1>5. QED
  BY <1>1, <1>2, <1>3, <1>4

\* Init of FlightInv.
LEMMA FlightInit == Init => FlightInv
<1> SUFFICES ASSUME Init PROVE FlightInv
  OBVIOUS
<1>1. \A c \in Chains : Len(c) \in Nat
  BY RequestsAssumption
<1>2. QED
  BY <1>1 DEF Init, FlightInv, FlightShape, Refusal, Passed, Owed, Fresh, ResponseFields

\* The call stack grows by the innermost call, which is on top of it.
LEMMA StackPush ==
  ASSUME NEW S, NEW s \in Seq(S), NEW e \in S
  PROVE  /\ Append(s, e) \in Seq(S) /\ DOMAIN s \subseteq DOMAIN Append(s, e)
         /\ Len(Append(s, e)) \in DOMAIN Append(s, e) /\ Append(s, e)[Len(Append(s, e))] = e
         /\ \A i \in DOMAIN s : Append(s, e)[i] = s[i]
  OBVIOUS

\* And shrinks by it.
LEMMA StackPop ==
  ASSUME NEW S, NEW s \in Seq(S), s # <<>>
  PROVE  /\ Front(s) \in Seq(S) /\ Last(s) \in S
         /\ \A i \in DOMAIN s : s[i] = Last(s) \/ (i \in DOMAIN Front(s) /\ Front(s)[i] = s[i])
<1>1. Len(s) \in Nat \ {0} /\ DOMAIN s = 1 .. Len(s) /\ \A i \in 1 .. Len(s) - 1 : s[i] \in S
  OBVIOUS
<1>2. /\ SubSeq(s, 1, Len(s) - 1) \in Seq(S) /\ Len(SubSeq(s, 1, Len(s) - 1)) = Len(s) - 1
      /\ \A i \in 1 .. Len(s) - 1 : SubSeq(s, 1, Len(s) - 1)[i] = s[i]
  BY <1>1
<1>3. QED
  BY <1>1, <1>2 DEF Front, Last

\* A middleware's step keeps FlightInv.
LEMMA FlightRuns ==
  ASSUME FlightInv, NEW m \in Middleware, Runs(m)
  PROVE  FlightInv'
<1> USE DEF FlightInv, FlightShape
<1>0. chain \in Seq(Middleware) /\ Len(chain) \in Nat
  BY RequestsAssumption
<1>1. /\ pc = "step" /\ index < Len(chain) /\ chain[index + 1] = m
      /\ index' = index + 1 /\ entered' = entered \cup {m}
      /\ chain' = chain /\ mode' = mode
  BY DEF Runs, Enters, Current, Shared
<1>2. mode = "sync" => refused = "none"
  BY <1>1 DEF Refusal
<1>3. Passed'
  BY <1>0, <1>1 DEF Passed
<1>4. CASE \E r : PassesOn(r) /\ Calls(m, r)
  <2>1. PICK r : PassesOn(r) /\ Calls(m, r)
    BY <1>4
  <2>2. /\ res' = r /\ stack' = Append(stack, <<m, "next">>) /\ pc' = "step" /\ refused' = refused
        /\ DOMAIN r = ResponseFields /\ res.fields \subseteq r.fields
    BY <2>1 DEF Calls, PassesOn
  <2>3. /\ stack' \in Seq(Middleware \X {"next", "callback"}) /\ DOMAIN stack \subseteq DOMAIN stack'
        /\ Len(stack') \in DOMAIN stack' /\ stack'[Len(stack')] = <<m, "next">>
        /\ \A i \in DOMAIN stack : stack'[i] = stack[i]
    BY <2>2, StackPush
  <2>4. Owed'
    <3>1. CASE m = "security"
      BY <2>3, <3>1 DEF Owed
    <3>2. CASE m # "security"
      BY <1>1, <2>2, <2>3, <3>2, Zenon DEF Owed
    <3>3. QED
      BY <3>1, <3>2
  <2>5. QED
    BY <1>0, <1>1, <1>2, <1>3, <2>2, <2>3, <2>4 DEF Refusal
<1>5. CASE \E r, verdict : Answers(m, r) /\ Ends(m, r, verdict)
  <2>1. PICK r, verdict : Answers(m, r) /\ Ends(m, r, verdict)
    BY <1>5
  <2>2. /\ res' = r /\ (refused = "none" => refused' = m)
        /\ DOMAIN r = ResponseFields /\ res.fields \subseteq r.fields
        /\ mode = "sync" => r.by = m /\ pc' = "unwind"
        /\ pc' # "idle" /\ m # "security"
        /\ stack' = stack \/ stack' = Append(stack, <<m, "callback">>)
    BY <2>1 DEF Ends, Answers
  <2>3. /\ stack' \in Seq(Middleware \X {"next", "callback"}) /\ DOMAIN stack \subseteq DOMAIN stack'
        /\ \A i \in DOMAIN stack : stack'[i] = stack[i]
    <3>1. CASE stack' = stack
      BY <3>1
    <3>2. CASE stack' = Append(stack, <<m, "callback">>)
      BY <3>2, StackPush
    <3>3. QED
      BY <2>2, <3>1, <3>2
  <2>4. Refusal'
    BY <1>0, <1>1, <1>2, <2>2 DEF Refusal
  <2>5. QED
    BY <1>0, <1>1, <1>3, <2>2, <2>3, <2>4 DEF Owed
<1>6. QED
  BY <1>4, <1>5 DEF Runs

\* So does a return from next() or from a callback.
LEMMA FlightUnwind == FlightInv /\ Unwind => FlightInv'
<1> SUFFICES ASSUME FlightInv, Unwind PROVE FlightInv'
  OBVIOUS
<1> USE DEF FlightInv, FlightShape
<1>0. chain \in Seq(Middleware) /\ Len(chain) \in Nat
  BY RequestsAssumption
<1>1. PICK m, way : Last(stack) = <<m, way>> /\ m \in Middleware /\ way \in {"next", "callback"}
  BY StackPop DEF Unwind
<1>2. /\ pc = "unwind" /\ stack # <<>>
      /\ index' = index /\ entered' = entered /\ refused' = refused
      /\ chain' = chain /\ mode' = mode
      /\ way = "next" => res' = AfterNext(m, res) /\ (mode = "sync" => pc' = pc) /\ pc' # "idle"
      /\ way = "callback" => res' = res /\ pc' = pc
      /\ stack' = Front(stack) \/ stack' = Append(Front(stack), <<m, "callback">>)
  BY <1>1 DEF Unwind, Shared
<1>3. /\ DOMAIN res' = ResponseFields /\ res.fields \subseteq res'.fields /\ res'.by = res.by
      /\ <<m, way>> = <<"security", "next">> => "security" \in res'.fields
  BY <1>1, <1>2, AfterNextKeeps
<1>4. /\ stack' \in Seq(Middleware \X {"next", "callback"})
      /\ \A i \in DOMAIN stack : stack[i] = Last(stack) \/ (i \in DOMAIN stack' /\ stack'[i] = stack[i])
  <2>1. /\ Front(stack) \in Seq(Middleware \X {"next", "callback"})
        /\ \A i \in DOMAIN stack :
             stack[i] = Last(stack) \/ (i \in DOMAIN Front(stack) /\ Front(stack)[i] = stack[i])
    BY <1>2, StackPop
  <2>2. CASE stack' = Front(stack)
    BY <2>1, <2>2
  <2>3. CASE stack' = Append(Front(stack), <<m, "callback">>)
    <3>1. /\ stack' \in Seq(Middleware \X {"next", "callback"})
          /\ DOMAIN Front(stack) \subseteq DOMAIN stack'
          /\ \A i \in DOMAIN Front(stack) : stack'[i] = Front(stack)[i]
      BY <1>1, <2>1, <2>3, StackPush
    <3>2. QED
      BY <2>1, <3>1
  <2>4. QED
    BY <1>2, <2>2, <2>3
<1>5. Owed'
  BY <1>1, <1>2, <1>3, <1>4, Zenon DEF Owed
<1>6. QED
  BY <1>0, <1>1, <1>2, <1>3, <1>4, <1>5 DEF Refusal, Passed

\* Every step of Next, sorted by what it does to a request.
LEMMA NextSorted ==
  ASSUME DOMAIN res = ResponseFields, [Next]_vars
  PROVE  \/ \E m \in Middleware : Runs(m)
         \/ Arrive \/ SkipMiddleware \/ EndOfChain \/ Unwind \/ Finish
         \/ UNCHANGED <<chain, mode, flight>>
  BY MiddlewareRuns, RequestUntouched DEF Next

\* FlightInv is inductive.
LEMMA FlightStep == FlightInv /\ [Next]_vars => FlightInv'
<1> SUFFICES ASSUME FlightInv, [Next]_vars PROVE FlightInv'
  OBVIOUS
<1>0. chain \in Seq(Middleware) /\ Len(chain) \in Nat
  BY RequestsAssumption DEF FlightInv, FlightShape
<1>1. CASE Arrive
  BY <1>0, <1>1 DEF Arrive, Shared, FlightInv, FlightShape, Refusal, Passed, Owed
<1>2. CASE SkipMiddleware
  BY <1>0, <1>2 DEF SkipMiddleware, Shared, FlightInv, FlightShape, Refusal, Passed, Owed
<1>3. CASE EndOfChain
  BY <1>0, <1>3 DEF EndOfChain, Shared, FlightInv, FlightShape, Refusal, Passed, Owed
<1>4. CASE Finish
  BY <1>0, <1>4 DEF Finish, Shared, Fresh, ResponseFields, FlightInv, FlightShape, Refusal, Passed, Owed
<1>5. CASE UNCHANGED <<chain, mode, flight>>
  BY <1>5 DEF flight, FlightInv, FlightShape, Refusal, Passed, Owed
<1>6. DOMAIN res = ResponseFields
  BY DEF FlightInv, FlightShape
<1>7. QED
  BY <1>1, <1>2, <1>3, <1>4, <1>5, <1>6, FlightRuns, FlightUnwind, NextSorted

\* The invariant holds in every behaviour.
LEMMA FlightAlways == Spec => []FlightInv
  BY FlightInit, FlightStep, PTL DEF Spec

\* Under execute, the answer of a middleware that does not call next() is the one
\* sent, and nothing behind it has run: for every chain.
THEOREM RefusalHasLastWord == Spec => []RefusalIsFinal
<1>1. FlightInv => RefusalIsFinal
  <2> SUFFICES ASSUME FlightInv, mode = "sync", refused # "none"
               PROVE  /\ res.by = refused
                      /\ \A i \in DOMAIN chain :
                           chain[i] \in entered => i <= index /\ chain[index] = refused
    BY DEF RefusalIsFinal
  <2>1. chain \in Seq(Middleware) /\ IsInjective(chain) /\ index \in 0 .. Len(chain)
    BY RequestsAssumption DEF FlightInv, FlightShape
  <2>2. \A i \in DOMAIN chain : chain[i] \in entered => i <= index
    BY <2>1 DEF FlightInv, Passed, IsInjective
  <2>3. QED
    BY <2>2 DEF FlightInv, Refusal
<1>2. QED
  BY <1>1, FlightAlways, PTL

\* A response that went through SecurityHeadersMiddleware carries its headers.
THEOREM SecurityHeadersSet == Spec => []SecurityKept
<1>1. FlightInv => SecurityKept
  BY DEF FlightInv, FlightShape, Owed, SecurityKept, Returned
<1>2. QED
  BY <1>1, FlightAlways, PTL

-----------------------------------------------------------------------------
(* What Content-Encoding says of the body. *)

\* Before the first return nothing is compressed; under execute no middleware is
\* entered after that.
EncodingInv ==
  mode = "sync" =>
    /\ res.label = res.coding \/ res.label \in Unmade
    /\ pc # "unwind" => res.label = "none" /\ res.coding = "none"

\* EncodingInv is inductive, whatever the build can compress.
LEMMA EncodingStep == FlightInv /\ EncodingInv /\ [Next]_vars => EncodingInv'
<1> SUFFICES ASSUME FlightInv, EncodingInv, [Next]_vars PROVE EncodingInv'
  OBVIOUS
<1>0. DOMAIN res = ResponseFields
  BY DEF FlightInv, FlightShape
<1>1. CASE \E m \in Middleware : Runs(m)
  BY <1>1 DEF Runs, Enters, Shared, PassesOn, Calls, Answers, Ends, EncodingInv
<1>2. CASE Unwind
  <2>1. \A t : Coded(t) = t \/ t \in Unmade
    BY DEF Coded, Unmade
  <2>2. \A m : \/ AfterNext(m, res).label = AfterNext(m, res).coding
               \/ AfterNext(m, res).label \in Unmade \/ mode # "sync"
    <3> SUFFICES ASSUME NEW m, mode = "sync"
                 PROVE  AfterNext(m, res).label = AfterNext(m, res).coding \/ AfterNext(m, res).label \in Unmade
      OBVIOUS
    <3>1. CASE m = "compression"
      BY <1>0, <2>1, <3>1 DEF AfterNext, CompressResponse, ResponseFields, EncodingInv
    <3>2. CASE m = "security"
      BY <1>0, <3>2 DEF AfterNext, SetSecurityHeaders, ResponseFields, EncodingInv
    <3>3. CASE m = "time"
      BY <1>0, <3>3 DEF AfterNext, SetResponseTime, ResponseFields, EncodingInv
    <3>4. CASE m \notin {"compression", "security", "time"}
      BY <3>4 DEF AfterNext, EncodingInv
    <3>5. QED
      BY <3>1, <3>2, <3>3, <3>4
  <2>3. QED
    BY <1>2, <2>2 DEF Unwind, Shared, EncodingInv
<1>3. CASE Arrive \/ SkipMiddleware \/ EndOfChain \/ Finish
  BY <1>3 DEF Arrive, SkipMiddleware, EndOfChain, Finish, Shared, Fresh, EncodingInv
<1>4. CASE UNCHANGED <<chain, mode, flight>>
  BY <1>4 DEF flight, EncodingInv
<1>5. QED
  BY <1>0, <1>1, <1>2, <1>3, <1>4, NextSorted

\* In every build, whichever middlewares wrote the body: a compressed body has a
\* Content-Encoding, and one that is not true names a coding the build cannot make
\* (the default build says br of what it compressed with gzip).
THEOREM ContentEncodingTrue == Spec => []EncodingIsTrue
<1>1. Init => EncodingInv
  BY DEF Init, Fresh, EncodingInv
<1>2. EncodingInv => EncodingIsTrue
  BY DEF EncodingInv, EncodingIsTrue
<1>3. FlightInv /\ EncodingInv /\ [Next]_vars => EncodingInv'
  BY EncodingStep
<1>4. QED
  BY <1>1, <1>2, <1>3, FlightAlways, PTL DEF Spec

-----------------------------------------------------------------------------
(* The rate limiter. *)

\* The times a key's requests passed, in order and not in the future.
InOrder(p, now) ==
  /\ p \in Seq(Nat)
  /\ \A i \in 1 .. Len(p) : p[i] <= now
  /\ \A i, j \in 1 .. Len(p) : i <= j => p[i] <= p[j]

\* The last count of them are the bucket's window, which its first one began; the
\* RateMax before that one are no later than the window before.
Windowed(b, p, now) ==
  /\ b \in [count : 0 .. RateMax, start : Nat] /\ b.start <= now
  /\ b.start = 0 => b.count = 0 /\ Len(p) = 0
  /\ b.start # 0 =>
       /\ 1 <= b.count /\ b.count <= Len(p) /\ p[Len(p) - b.count + 1] = b.start
       /\ Len(p) - b.count + 1 > RateMax =>
            p[Len(p) - b.count + 1 - RateMax] + RateWindow <= b.start

\* Two that have 2 * RateMax - 2 others between them are a window apart.
Spread(p) ==
  \A i \in 1 .. Len(p) :
    i + 2 * RateMax - 1 <= Len(p) => p[i] + RateWindow <= p[i + 2 * RateMax - 1]

\* The invariant of RateBound.
RateInv ==
  /\ clock \in Nat \ {0} /\ (pc # "idle" => req \in Request)
  /\ buckets \in [Key -> [count : 0 .. RateMax, start : Nat]] /\ passed \in [Key -> Seq(Nat)]
  /\ \A k \in Key : /\ InOrder(passed[k], clock) /\ Spread(passed[k])
                    /\ Windowed(buckets[k], passed[k], clock)

\* What one passed request does to the times of its key.
LEMMA OneMore ==
  ASSUME NEW p, NEW now \in Nat \ {0}, InOrder(p, now), NEW q, q = Append(p, now)
  PROVE  /\ InOrder(q, now) /\ Len(q) = Len(p) + 1 /\ q[Len(p) + 1] = now
         /\ \A i \in 1 .. Len(p) : q[i] = p[i]
  BY DEF InOrder

\* A passed request that begins a window: all of the last window is RateWindow ago.
LEMMA OpensWindow ==
  ASSUME NEW p, NEW now \in Nat \ {0}, NEW b, InOrder(p, now), Windowed(b, p, now), Spread(p),
         b.start = 0 \/ now - b.start >= RateWindow, NEW q, q = Append(p, now)
  PROVE  Windowed([count |-> 1, start |-> now], q, now) /\ Spread(q)
<1>0. RateMax \in Nat /\ RateMax >= 1 /\ RateWindow \in Nat
  BY RequestsAssumption
<1> USE <1>0
<1>a. Len(p) \in Nat /\ Len(q) = Len(p) + 1
  BY OneMore DEF InOrder
<1>1. /\ Len(p) \in Nat /\ Len(q) = Len(p) + 1 /\ q[Len(p) + 1] = now
      /\ \A i \in 1 .. Len(p) : q[i] = p[i] /\ p[i] \in Nat
  BY OneMore DEF InOrder
<1>2. \A i \in 1 .. Len(p) : i <= Len(p) + 1 - RateMax => p[i] + RateWindow <= now
  <2> SUFFICES ASSUME NEW i \in 1 .. Len(p), i <= Len(p) + 1 - RateMax PROVE p[i] + RateWindow <= now
    OBVIOUS
  <2>1. b.start # 0 /\ b.count \in 1 .. RateMax /\ b.count <= Len(p) /\ b.start \in Nat
    BY <1>1 DEF Windowed
  <2>2. PICK f \in 1 .. Len(p) : f = Len(p) - b.count + 1 /\ i <= f /\ p[f] = b.start
    BY <1>1, <2>1, SMTT(30) DEF Windowed
  <2>3. p[i] <= b.start
    BY <2>2 DEF InOrder
  <2>4. QED
    BY <1>1, <2>1, <2>3
<1>3. Windowed([count |-> 1, start |-> now], q, now)
  <2>1. Len(q) - 1 + 1 = Len(p) + 1
    BY <1>1
  <2>2. ASSUME Len(p) + 1 > RateMax PROVE q[Len(p) + 1 - RateMax] + RateWindow <= now
    BY <1>1, <1>2, <2>2, SMTT(30)
  <2>3. QED
    BY <1>1, <2>1, <2>2 DEF Windowed
<1>4. Spread(q)
  <2> SUFFICES ASSUME NEW i \in 1 .. Len(q), i + 2 * RateMax - 1 <= Len(q)
               PROVE  q[i] + RateWindow <= q[i + 2 * RateMax - 1]
    BY DEF Spread
  <2>1. CASE i + 2 * RateMax - 1 <= Len(p)
    BY <1>1, <2>1 DEF Spread
  <2>2. CASE i + 2 * RateMax - 1 = Len(p) + 1
    <3>1. i \in 1 .. Len(p) /\ i <= Len(p) + 1 - RateMax
      BY <1>1, <2>2
    <3>2. QED
      BY <1>1, <1>2, <2>2, <3>1
  <2>3. i + 2 * RateMax - 1 <= Len(p) \/ i + 2 * RateMax - 1 = Len(p) + 1
    BY <1>a
  <2>4. QED
    BY <2>1, <2>2, <2>3
<1>5. QED
  BY <1>3, <1>4

\* One inside a window that has room: what is 2 * RateMax - 1 places back lies
\* before the last window's end.
LEMMA FillsWindow ==
  ASSUME NEW p, NEW now \in Nat \ {0}, NEW b, InOrder(p, now), Windowed(b, p, now), Spread(p),
         b.start # 0, b.count < RateMax, NEW q, q = Append(p, now)
  PROVE  Windowed([b EXCEPT !.count = @ + 1], q, now) /\ Spread(q)
<1>0. RateMax \in Nat /\ RateMax >= 1 /\ RateWindow \in Nat
  BY RequestsAssumption
<1> USE <1>0
<1>a. Len(p) \in Nat /\ Len(q) = Len(p) + 1
  BY OneMore DEF InOrder
<1>1. /\ Len(p) \in Nat /\ Len(q) = Len(p) + 1 /\ q[Len(p) + 1] = now
      /\ \A i \in 1 .. Len(p) : q[i] = p[i] /\ p[i] \in Nat
  BY OneMore DEF InOrder
<1>2. b.count \in 1 .. RateMax - 1 /\ b.count <= Len(p) /\ b.start \in Nat /\ b.start <= now
  BY <1>1 DEF Windowed
<1>3. PICK f \in 1 .. Len(p) : /\ f = Len(p) - b.count + 1 /\ p[f] = b.start
                               /\ f > RateMax => p[f - RateMax] + RateWindow <= b.start
  BY <1>1, <1>2 DEF Windowed
<1>4. Windowed([b EXCEPT !.count = @ + 1], q, now)
  <2> DEFINE c == [b EXCEPT !.count = @ + 1]
  <2>0. b \in [count : 0 .. RateMax, start : Nat] /\ b.count + 1 \in 0 .. RateMax
    BY <1>2 DEF Windowed
  <2>1. c \in [count : 0 .. RateMax, start : Nat] /\ c.start = b.start /\ c.count = b.count + 1
    BY <2>0
  <2>2. Len(q) - c.count + 1 = f
    BY <1>1, <1>2, <1>3, <2>1
  <2> HIDE DEF c
  <2>3. q[f] = b.start /\ (f > RateMax => q[f - RateMax] + RateWindow <= b.start)
    BY <1>1, <1>3, SMTT(30)
  <2>4. c.start <= now /\ c.start # 0 /\ 1 <= c.count /\ c.count <= Len(q)
    BY <1>1, <1>2, <2>1
  <2>5. Windowed(c, q, now)
    BY <2>1, <2>2, <2>3, <2>4, SMTT(30) DEF Windowed
  <2>6. QED
    BY <2>5 DEF c
<1>5. Spread(q)
  <2> SUFFICES ASSUME NEW i \in 1 .. Len(q), i + 2 * RateMax - 1 <= Len(q)
               PROVE  q[i] + RateWindow <= q[i + 2 * RateMax - 1]
    BY DEF Spread
  <2>1. CASE i + 2 * RateMax - 1 <= Len(p)
    BY <1>1, <2>1 DEF Spread
  <2>2. CASE i + 2 * RateMax - 1 = Len(p) + 1
    <3>0. i \in Nat /\ i >= 1 /\ f = Len(p) - b.count + 1
      BY <1>a, <1>3
    <3>1. f - RateMax \in 1 .. Len(p) /\ i \in 1 .. Len(p) /\ i <= f - RateMax
      BY <1>a, <1>2, <2>2, <3>0, SMTT(30)
    <3>2. p[i] <= p[f - RateMax]
      BY <3>1 DEF InOrder
    <3>3. p[f - RateMax] + RateWindow <= b.start
      BY <1>3, <3>1
    <3>4. p[f - RateMax] \in Nat /\ p[i] \in Nat /\ q[i] = p[i] /\ q[i + 2 * RateMax - 1] = now
      BY <1>1, <2>2, <3>1
    <3>5. QED
      BY <1>2, <3>2, <3>3, <3>4, SMTT(30)
  <2>3. i + 2 * RateMax - 1 <= Len(p) \/ i + 2 * RateMax - 1 = Len(p) + 1
    BY <1>a
  <2>4. QED
    BY <2>1, <2>2, <2>3
<1>6. QED
  BY <1>4, <1>5

\* A later clock changes nothing about the past.
LEMMA ClockAdvances ==
  ASSUME NEW p, NEW b, NEW now \in Nat, InOrder(p, now), Windowed(b, p, now)
  PROVE  InOrder(p, now + 1) /\ Windowed(b, p, now + 1)
<1>1. InOrder(p, now + 1)
  BY DEF InOrder
<1>2. QED
  BY <1>1 DEF Windowed

\* The limiter's step keeps RateInv.
LEMMA RateLimitKeeps == RateInv /\ RateLimit => RateInv'
<1> SUFFICES ASSUME RateInv, RateLimit PROVE RateInv'
  OBVIOUS
<1>1. /\ pc = "step" /\ clock' = clock /\ req' = req /\ req \in Request /\ req.key \in Key
      /\ clock \in Nat \ {0}
  BY DEF RateLimit, Enters, Shared, RateInv, Key
<1> DEFINE k == req.key
           b == buckets[k]
<1>2. CASE UNCHANGED <<buckets, passed>>
  BY <1>1, <1>2 DEF RateInv
<1>3. CASE ~UNCHANGED <<buckets, passed>>
  <2>1. PICK c, q :
          /\ ~IsLimited(b) /\ buckets' = [buckets EXCEPT ![k] = c] /\ passed' = [passed EXCEPT ![k] = q]
          /\ c = (IF b.start = 0 \/ clock - b.start >= RateWindow THEN [count |-> 1, start |-> clock]
                  ELSE [b EXCEPT !.count = @ + 1])
          /\ q = Append(passed[k], clock)
    BY <1>3 DEF RateLimit
  <2>2. InOrder(passed[k], clock) /\ Windowed(b, passed[k], clock) /\ Spread(passed[k])
    BY <1>1 DEF RateInv
  <2>3. InOrder(q, clock)
    BY <1>1, <2>1, <2>2, OneMore
  <2>4. Windowed(c, q, clock) /\ Spread(q)
    <3>1. CASE b.start = 0 \/ clock - b.start >= RateWindow
      BY <1>1, <2>1, <2>2, <3>1, OpensWindow
    <3>2. CASE ~(b.start = 0 \/ clock - b.start >= RateWindow)
      <4>1. b.start # 0 /\ b.count < RateMax
        BY <1>1, <2>1, <2>2, <3>2, RequestsAssumption DEF IsLimited, Windowed
      <4>2. c = [b EXCEPT !.count = @ + 1]
        BY <2>1, <3>2
      <4>3. Windowed([b EXCEPT !.count = @ + 1], q, clock) /\ Spread(q)
        <5> HIDE DEF b
        <5>1. QED
          BY <1>1, <2>1, <2>2, <4>1, FillsWindow
      <4>4. QED
        BY <4>2, <4>3
    <3>3. QED
      BY <3>1, <3>2
  <2>5. c \in [count : 0 .. RateMax, start : Nat] /\ q \in Seq(Nat)
    BY <2>3, <2>4 DEF Windowed, InOrder
  <2>6. /\ buckets' \in [Key -> [count : 0 .. RateMax, start : Nat]] /\ passed' \in [Key -> Seq(Nat)]
        /\ buckets'[k] = c /\ passed'[k] = q
        /\ \A l \in Key \ {k} : buckets'[l] = buckets[l] /\ passed'[l] = passed[l]
    BY <1>1, <2>1, <2>5 DEF RateInv
  <2>7. QED
    BY <1>1, <2>3, <2>4, <2>6 DEF RateInv
<1>4. QED
  BY <1>2, <1>3

\* RateInv is inductive.
LEMMA RateStep == RateInv /\ [Next]_vars => RateInv'
<1> SUFFICES ASSUME RateInv, [Next]_vars PROVE RateInv'
  OBVIOUS
<1>1. CASE Tick
  <2>1. clock' = clock + 1 /\ clock \in Nat \ {0} /\ UNCHANGED <<req, pc, buckets, passed>>
    BY <1>1 DEF Tick, flight, RateInv
  <2>2. \A k \in Key : InOrder(passed[k], clock + 1) /\ Windowed(buckets[k], passed[k], clock + 1)
    BY <2>1, ClockAdvances DEF RateInv
  <2>3. QED
    BY <2>1, <2>2 DEF RateInv
<1>2. CASE RateLimit
  BY <1>2, RateLimitKeeps
<1>3. CASE ~Tick /\ ~RateLimit
  <2>1. UNCHANGED <<clock, buckets, passed>>
    BY <1>3 DEF Next, Arrive, SkipMiddleware, EndOfChain, Unwind, Finish, ResponseTime, Compression,
      SecurityHeaders, Logger, Wraps, Static, BodyParser, Auth, Cors, Dispatch, Configure, vars, Shared, Enters
  <2>2. pc' # "idle" => req' \in Request
    BY <1>3 DEF Next, Arrive, SkipMiddleware, EndOfChain, Unwind, Finish, ResponseTime, Compression,
      SecurityHeaders, Logger, Wraps, Static, BodyParser, Auth, Cors, Dispatch, Configure, vars, flight, Shared,
      Enters, RateInv
  <2>3. QED
    BY <2>1, <2>2 DEF RateInv
<1>4. QED
  BY <1>1, <1>2, <1>3

\* The least-number principle, from the well-foundedness of < on Nat.
LEMMA NatMin ==
  ASSUME NEW T, T \subseteq Nat, T # {}
  PROVE  \E x \in T : \A y \in T : x <= y
<1>1. IsWellFoundedOn({ss \in Nat \X Nat : ss[1] < ss[2]}, Nat)
  BY NatLessThanWellFounded, Zenon DEF OpToRel
<1>2. PICK x \in T : \A y \in T : <<y, x>> \notin {ss \in Nat \X Nat : ss[1] < ss[2]}
  BY <1>1, WFMin, Zenon
<1>3. ASSUME NEW y \in T PROVE x <= y
  <2>1. <<y, x>> \in Nat \X Nat /\ <<y, x>>[1] = y /\ <<y, x>>[2] = x
    OBVIOUS
  <2>2. ~(y < x)
    BY <1>2, <2>1, Zenon
  <2>3. QED
    BY <2>2
<1>4. QED
  BY <1>3

\* However requests and windows meet, at most 2 * max_requests_ - 1 requests of a
\* key pass within one window's time: for every limit and every window.
THEOREM AtMostTwoWindows == Spec => []RateBound
<1>1. Init => RateInv
  <2> SUFFICES ASSUME Init PROVE RateInv
    OBVIOUS
  <2>1. \A k \in Key : buckets[k] = [count |-> 0, start |-> 0] /\ passed[k] = <<>>
    BY DEF Init
  <2>2. InOrder(<<>>, 1) /\ Spread(<<>>) /\ Windowed([count |-> 0, start |-> 0], <<>>, 1)
    BY RequestsAssumption DEF InOrder, Spread, Windowed
  <2>3. QED
    BY <2>1, <2>2, RequestsAssumption DEF Init, RateInv
<1>2. RateInv => RateBound
  <2> SUFFICES ASSUME RateInv, NEW k \in Key, NEW t \in 1 .. MaxTime
               PROVE  Cardinality({i \in DOMAIN passed[k] : passed[k][i] \in t .. t + RateWindow - 1})
                        <= 2 * RateMax - 1
    BY DEF RateBound
  <2> DEFINE T == {i \in DOMAIN passed[k] : passed[k][i] \in t .. t + RateWindow - 1}
  <2>0. RateMax \in Nat /\ RateMax >= 1 /\ RateWindow \in Nat /\ t \in Nat
    BY RequestsAssumption
  <2>1. PICK p : p = passed[k] /\ InOrder(p, clock) /\ Spread(p)
    BY DEF RateInv
  <2>2. T = {i \in 1 .. Len(p) : p[i] \in t .. t + RateWindow - 1} /\ Len(p) \in Nat
    BY <2>1 DEF InOrder
  <2>3. CASE T = {}
    <3>1. Cardinality(T) = 0
      BY <2>3, FS_EmptySet, Zenon
    <3>2. QED
      BY <2>0, <3>1
  <2>4. CASE T # {}
    <3>1. T \subseteq Nat
      BY <2>2
    <3>2. PICK m \in T : \A i \in T : m <= i
      <4> HIDE DEF T
      <4>1. QED
        BY <2>4, <3>1, NatMin, Zenon
    <3>3. \A i \in T : i <= m + 2 * RateMax - 2
      <4> SUFFICES ASSUME NEW i \in T, i > m + 2 * RateMax - 2 PROVE FALSE
        BY <2>0, <2>2, <3>2
      <4>1. /\ i \in 1 .. Len(p) /\ m \in 1 .. Len(p) /\ p[m] >= t /\ p[i] <= t + RateWindow - 1
            /\ p[i] \in Nat /\ p[m] \in Nat
        BY <2>0, <2>2, <3>2 DEF InOrder
      <4> HIDE DEF T
      <4>a. i \in Nat /\ m \in Nat /\ m >= 1 /\ i <= Len(p) /\ Len(p) \in Nat
        BY <2>2, <4>1
      <4>b. m + 2 * RateMax - 1 \in 1 .. Len(p) /\ m + 2 * RateMax - 1 <= i
        BY <2>0, <4>a
      <4>2. PICK j \in 1 .. Len(p) : j = m + 2 * RateMax - 1 /\ j <= i
        BY <4>b
      <4>3. p[m] + RateWindow <= p[j]
        <5>1. m + 2 * RateMax - 1 <= Len(p)
          BY <4>a, <4>2
        <5>2. QED
          BY <2>1, <4>1, <4>2, <5>1 DEF Spread
      <4>4. p[j] <= p[i] /\ p[j] \in Nat
        BY <2>1, <4>1, <4>2, SMTT(30) DEF InOrder
      <4>5. QED
        BY <2>0, <4>1, <4>3, <4>4
    <3>4. PICK n : n = m + 2 * RateMax - 2 /\ n \in Nat /\ m \in Nat /\ m <= n
      BY <2>0, <2>2, <3>2
    <3>5. T \subseteq m .. n
      BY <2>2, <3>2, <3>3, <3>4
    <3>6. IsFiniteSet(m .. n) /\ Cardinality(m .. n) = n - m + 1
      BY <3>4, FS_Interval
    <3>7. Cardinality(T) <= Cardinality(m .. n) /\ Cardinality(T) \in Nat
      BY <3>5, <3>6, FS_Subset, FS_CardinalityType
    <3>8. QED
      BY <2>0, <3>4, <3>6, <3>7
  <2>5. QED
    BY <2>3, <2>4
<1>3. QED
  BY <1>1, <1>2, RateStep, PTL DEF Spec

-----------------------------------------------------------------------------
(* The route table. *)

\* The routes of the three containers.  (That "" is a string is not known to the
\* provers.)
Text == STRING \cup {""}
Entry == [kind : Kind, pattern : Seq(Text), method : Verb \cup {AnyVerb}]
TableShape ==
  /\ \A key \in DOMAIN statics : statics[key] \in Entry
  /\ dynamics \in Seq(Entry) /\ routes \in Seq(Entry)

\* dynamic_routes_ holds the dynamic routes of all_routes_ and no other.
DynamicsAgree ==
  /\ \A i \in 1 .. Len(dynamics) :
       /\ dynamics[i].kind = "dynamic" /\ dynamics[i].pattern \in Pattern
       /\ \E j \in 1 .. Len(routes) : routes[j] = dynamics[i]
  /\ \A j \in 1 .. Len(routes) :
       routes[j].kind = "dynamic" => \E i \in 1 .. Len(dynamics) : dynamics[i] = routes[j]

\* static_routes_ holds a static route of each normalized path that has one.
StaticFor(key, i) == i \in 1 .. Len(routes) /\ routes[i].kind = "static" /\ routes[i].pattern = key
StaticsAgree ==
  /\ \A key \in DOMAIN statics : \E i \in 1 .. Len(routes) : StaticFor(key, i) /\ routes[i] = statics[key]
  /\ \A j \in 1 .. Len(routes) : routes[j].kind = "static" => routes[j].pattern \in DOMAIN statics

\* The order that the sort leaves and resolution relies on.
MostSpecificFirst ==
  \A i, j \in 1 .. Len(dynamics) : i < j => ~Precedes(dynamics[j], dynamics[i])

\* The invariant of ResolvesBest and AllowIsHonest.
RouteInv == TableShape /\ DynamicsAgree /\ StaticsAgree /\ MostSpecificFirst

\* A normalized path is a path.
LEMMA NormalizedIsPath ==
  ASSUME NEW path \in Path
  PROVE  NormalizePath(path) \in Seq(Text)
<1> DEFINE rooted == IF Head(path) = "" THEN path ELSE <<"">> \o path
<1>1. path \in Seq(Text) /\ path # <<>>
  BY RoutingAssumption, SeqMonotonic DEF Text
<1>0. ASSUME NEW S, NEW e \in S PROVE <<e>> \in Seq(S) /\ <<e, e>> \in Seq(S)
  OBVIOUS
<1>a. "" \in Text
  BY DEF Text
<1>2. rooted \in Seq(Text)
  BY <1>0, <1>1, <1>a, ConcatProperties
<1>3. <<"", "">> \in Seq(Text)
  BY <1>0, <1>a
<1> HIDE DEF rooted
<1>4. ASSUME Len(rooted) > 2 PROVE Front(rooted) \in Seq(Text)
  <2>1. rooted # <<>>
    BY <1>2, <1>4
  <2>2. QED
    BY <1>2, <2>1, StackPop
<1>5. \/ NormalizePath(path) = <<"", "">>
      \/ Len(rooted) > 2 /\ NormalizePath(path) = Front(rooted)
      \/ NormalizePath(path) = rooted
  BY DEF NormalizePath, rooted
<1>6. QED
  BY <1>2, <1>3, <1>4, <1>5

\* The sort permutes its argument and leaves no route behind a less specific one.
LEMMA SortPermutes ==
  ASSUME NEW S, NEW list \in Seq(S), NEW s \in Sorted(list)
  PROVE  /\ s \in Seq(S) /\ Len(s) = Len(list)
         /\ \A i \in 1 .. Len(s) : \E j \in 1 .. Len(list) : s[i] = list[j]
         /\ \A j \in 1 .. Len(list) : \E i \in 1 .. Len(s) : s[i] = list[j]
         /\ \A i, j \in 1 .. Len(s) : i < j => ~Precedes(s[j], s[i])
<1>1. PICK p \in Bijection(DOMAIN list, DOMAIN list) : s = [i \in DOMAIN list |-> list[p[i]]]
  BY DEF Sorted
<1>2. /\ p \in [DOMAIN list -> DOMAIN list]
      /\ \A j \in DOMAIN list : \E i \in DOMAIN list : p[i] = j
  BY DEF Bijection, Surjection
<1>3. DOMAIN list = 1 .. Len(list) /\ Len(list) \in Nat
  OBVIOUS
<1>4. s \in Seq(S) /\ Len(s) = Len(list)
  BY <1>1, <1>2, <1>3
<1>5. \A i, j \in DOMAIN list : i < j => ~Precedes(s[j], s[i])
  BY DEF Sorted
<1>6. QED
  BY <1>1, <1>2, <1>3, <1>4, <1>5

\* The counts behind the order are numbers.
LEMMA CountsAreNumbers ==
  ASSUME NEW pattern \in Pattern
  PROVE  CountSegments(pattern) \in Nat /\ ParamCount(pattern) \in Nat /\ Specificity(pattern) \in Nat
<1>1. DOMAIN pattern = 1 .. Len(pattern) /\ Len(pattern) \in Nat
  BY RoutingAssumption
<1>2. IsFiniteSet(DOMAIN pattern)
  BY <1>1, FS_Interval
<1>3. \A T \in SUBSET DOMAIN pattern : Cardinality(T) \in Nat
  BY <1>2, FS_Subset, FS_CardinalityType
<1>4. CountSegments(pattern) \in Nat /\ ParamCount(pattern) \in Nat
  BY <1>3 DEF CountSegments, ParamCount
<1>5. QED
  BY <1>4 DEF Specificity

\* No route is more specific than itself.
LEMMA PrecedesIrreflexive ==
  ASSUME NEW r, r.pattern \in Pattern
  PROVE  ~Precedes(r, r)
<1>1. CountSegments(r.pattern) \in Nat /\ Specificity(r.pattern) \in Nat /\ Rank[r.pattern] \in Nat
  BY CountsAreNumbers, RoutingAssumption
<1>2. QED
  BY <1>1 DEF Precedes

\* A step that leaves the table alone keeps RouteInv.
LEMMA TableUntouched == RouteInv /\ UNCHANGED routeVars => RouteInv'
  BY DEF routeVars, RouteInv, TableShape, DynamicsAgree, StaticsAgree, StaticFor, MostSpecificFirst

\* Registering a static route keeps RouteInv.
LEMMA StaticKeeps ==
  ASSUME RouteInv, NEW path \in Path, NEW method \in Verb \cup {AnyVerb}, AddStaticRoute(path, method)
  PROVE  RouteInv'
<1> USE DEF RouteInv
<1>1. PICK key, route :
        /\ key = NormalizePath(path)
        /\ route = [kind |-> "static", pattern |-> key, method |-> method]
        /\ statics' = [k \in DOMAIN statics \cup {key} |-> IF k = key THEN route ELSE statics[k]]
        /\ routes' = Append(routes, route) /\ dynamics' = dynamics
  BY DEF AddStaticRoute
<1>2. route \in Entry /\ route.kind = "static" /\ route.pattern = key
  BY <1>1, NormalizedIsPath DEF Entry, Kind
<1>3. /\ routes' \in Seq(Entry) /\ Len(routes') = Len(routes) + 1 /\ Len(routes) \in Nat
      /\ routes'[Len(routes) + 1] = route
      /\ \A i \in 1 .. Len(routes) : routes'[i] = routes[i]
  BY <1>1, <1>2, AppendProperties DEF TableShape
<1>4. DOMAIN statics' = DOMAIN statics \cup {key} /\ statics'[key] = route
      /\ \A k \in DOMAIN statics : k # key => statics'[k] = statics[k]
  BY <1>1
<1>5. TableShape'
  BY <1>1, <1>2, <1>3, <1>4 DEF TableShape
<1>6. DynamicsAgree'
  BY <1>1, <1>2, <1>3 DEF DynamicsAgree
<1>7. StaticsAgree'
  <2>1. ASSUME NEW k \in DOMAIN statics'
        PROVE  \E i \in 1 .. Len(routes') : StaticFor(k, i)' /\ routes'[i] = statics'[k]
    <3>1. CASE k = key
      <4>1. PICK n \in 1 .. Len(routes') : n = Len(routes')
        BY <1>3
      <4>2. StaticFor(k, n)'
        BY <1>2, <1>3, <3>1, <4>1 DEF StaticFor
      <4>3. QED
        BY <1>3, <1>4, <3>1, <4>1, <4>2
    <3>2. CASE k # key
      <4>1. PICK i \in 1 .. Len(routes) : StaticFor(k, i) /\ routes[i] = statics[k]
        BY <1>4, <3>2 DEF StaticsAgree
      <4>2. StaticFor(k, i)'
        BY <1>2, <1>3, <3>2, <4>1 DEF StaticFor
      <4>3. QED
        BY <1>3, <1>4, <3>2, <4>1, <4>2
    <3>3. QED
      BY <3>1, <3>2
  <2>2. \A j \in 1 .. Len(routes') : routes'[j].kind = "static" => routes'[j].pattern \in DOMAIN statics'
    BY <1>2, <1>3, <1>4 DEF StaticsAgree
  <2>3. QED
    BY <2>1, <2>2 DEF StaticsAgree
<1>8. QED
  BY <1>1, <1>5, <1>6, <1>7 DEF MostSpecificFirst

\* So does registering a dynamic route; one that does not parse changes nothing.
LEMMA DynamicKeeps ==
  ASSUME RouteInv, NEW pattern \in Pattern, NEW method \in Verb \cup {AnyVerb},
         AddDynamicRoute(pattern, method)
  PROVE  RouteInv'
<1> USE DEF RouteInv
<1>1. CASE UNCHANGED routeVars
  BY <1>1, TableUntouched
<1>2. CASE ~UNCHANGED routeVars
  <2>1. PICK route, list :
          /\ route = [kind |-> "dynamic", pattern |-> pattern, method |-> method]
          /\ list = Append(dynamics, route) /\ dynamics' \in Sorted(list)
          /\ routes' = Append(routes, route) /\ statics' = statics
    BY <1>2 DEF AddDynamicRoute, Resort, routeVars
  <2>a. pattern \in Seq(Text)
    BY RoutingAssumption, SeqMonotonic DEF Text
  <2>2. route \in Entry /\ route.kind = "dynamic" /\ route.pattern = pattern
    BY <2>1, <2>a DEF Entry, Kind
  <2>3. /\ routes' \in Seq(Entry) /\ Len(routes') = Len(routes) + 1 /\ Len(routes) \in Nat
        /\ routes'[Len(routes) + 1] = route
        /\ \A i \in 1 .. Len(routes) : routes'[i] = routes[i]
    BY <2>1, <2>2, AppendProperties DEF TableShape
  <2>4. /\ list \in Seq(Entry) /\ Len(list) = Len(dynamics) + 1 /\ Len(dynamics) \in Nat
        /\ list[Len(dynamics) + 1] = route
        /\ \A i \in 1 .. Len(dynamics) : list[i] = dynamics[i]
    BY <2>1, <2>2, AppendProperties DEF TableShape
  <2>5. /\ dynamics' \in Seq(Entry) /\ Len(dynamics') = Len(list)
        /\ \A i \in 1 .. Len(dynamics') : \E j \in 1 .. Len(list) : dynamics'[i] = list[j]
        /\ \A j \in 1 .. Len(list) : \E i \in 1 .. Len(dynamics') : dynamics'[i] = list[j]
        /\ \A i, j \in 1 .. Len(dynamics') : i < j => ~Precedes(dynamics'[j], dynamics'[i])
    <3>1. list \in Seq(Entry) /\ dynamics' \in Sorted(list)
      BY <2>1, <2>4
    <3>2. QED
      BY <3>1, SortPermutes
  <2>6. DynamicsAgree'
    <3>1. ASSUME NEW i \in 1 .. Len(dynamics')
          PROVE  /\ dynamics'[i].kind = "dynamic" /\ dynamics'[i].pattern \in Pattern
                 /\ \E j \in 1 .. Len(routes') : routes'[j] = dynamics'[i]
      <4>1. PICK j \in 1 .. Len(list) : dynamics'[i] = list[j]
        BY <2>5
      <4>2. CASE j \in 1 .. Len(dynamics)
        <5>1. dynamics'[i] = dynamics[j]
          BY <2>4, <4>1, <4>2
        <5>2. PICK n \in 1 .. Len(routes) : routes[n] = dynamics[j]
          BY <4>2 DEF DynamicsAgree
        <5>3. n \in 1 .. Len(routes') /\ routes'[n] = routes[n]
          BY <2>3
        <5>4. dynamics[j].kind = "dynamic" /\ dynamics[j].pattern \in Pattern
          BY <4>2 DEF DynamicsAgree
        <5>5. QED
          BY <5>1, <5>2, <5>3, <5>4
      <4>3. CASE j = Len(dynamics) + 1
        BY <2>2, <2>3, <2>4, <4>1, <4>3
      <4>4. QED
        BY <2>4, <4>2, <4>3
    <3>2. ASSUME NEW j \in 1 .. Len(routes'), routes'[j].kind = "dynamic"
          PROVE  \E i \in 1 .. Len(dynamics') : dynamics'[i] = routes'[j]
      <4>1. \E n \in 1 .. Len(list) : list[n] = routes'[j]
        BY <2>3, <2>4, <3>2 DEF DynamicsAgree
      <4>2. QED
        BY <2>5, <4>1
    <3>3. QED
      BY <3>1, <3>2 DEF DynamicsAgree
  <2>7. StaticsAgree'
    <3>1. ASSUME NEW key \in DOMAIN statics
          PROVE  \E i \in 1 .. Len(routes') : StaticFor(key, i)' /\ routes'[i] = statics'[key]
      <4>1. PICK i \in 1 .. Len(routes) : StaticFor(key, i) /\ routes[i] = statics[key]
        BY DEF StaticsAgree
      <4>2. QED
        BY <2>1, <2>2, <2>3, <4>1 DEF StaticFor
    <3>2. \A j \in 1 .. Len(routes') : routes'[j].kind = "static" => routes'[j].pattern \in DOMAIN statics'
      BY <2>1, <2>2, <2>3 DEF StaticsAgree
    <3>3. QED
      BY <2>1, <3>1, <3>2 DEF StaticsAgree
  <2>8. QED
    BY <2>1, <2>3, <2>5, <2>6, <2>7 DEF TableShape, MostSpecificFirst
<1>3. QED
  BY <1>1, <1>2

\* A table without routes satisfies RouteInv.
LEMMA EmptyTable == RoutingInit => RouteInv
  BY DEF RoutingInit, RouteInv, TableShape, DynamicsAgree, StaticsAgree, MostSpecificFirst

\* RouteInv is inductive; only Configure touches the table.
LEMMA RouteStep == RouteInv /\ [Next]_vars => RouteInv'
<1> SUFFICES ASSUME RouteInv, [Next]_vars PROVE RouteInv'
  OBVIOUS
<1>1. CASE Configure
  <2>1. CASE Clear
    BY <2>1 DEF Clear, RouteInv, TableShape, DynamicsAgree, StaticsAgree, MostSpecificFirst
  <2>2. QED
    BY <1>1, <2>1, StaticKeeps, DynamicKeeps DEF Configure, RoutingNext
<1>2. CASE UNCHANGED routeVars
  BY <1>2, TableUntouched
<1>3. QED
  BY <1>1, <1>2 DEF Next, Arrive, SkipMiddleware, EndOfChain, Unwind, Finish, ResponseTime, Compression,
    SecurityHeaders, Logger, Wraps, Static, BodyParser, Auth, RateLimit, Cors, Dispatch, Tick, vars, Shared, Enters

\* The invariant holds in every behaviour.
LEMMA RouteAlways == Spec => []RouteInv
  BY EmptyTable, RouteStep, PTL DEF Spec, Init

\* The route consulted when the path has static routes is one of them.
LEMMA CandidateStatic ==
  ASSUME RouteInv, NEW path, NormalizePath(path) \in DOMAIN statics
  PROVE  \E r \in Fits(path) : Candidate(NormalizePath(path)) = {r} /\ r.kind = "static" /\ r \in Entry
<1> DEFINE key == NormalizePath(path)
<1>1. PICK i \in 1 .. Len(routes) : StaticFor(key, i) /\ routes[i] = statics[key]
  BY DEF RouteInv, StaticsAgree
<1>2. DOMAIN routes = 1 .. Len(routes) /\ Len(routes) \in Nat
  BY DEF RouteInv, TableShape
<1>3. statics[key] \in Fits(path) /\ statics[key].kind = "static"
  BY <1>1, <1>2 DEF Fits, Range, StaticFor
<1>4. QED
  BY <1>3 DEF Candidate, RouteInv, TableShape

\* Without one: the first dynamic route that matches.
LEMMA CandidateDynamic ==
  ASSUME RouteInv, NEW path, NormalizePath(path) \notin DOMAIN statics
  PROVE  /\ \A r \in Fits(path) : r.kind # "static"
         /\ Fits(path) = {} => Candidate(NormalizePath(path)) = {}
         /\ Fits(path) # {} => \E r \in Fits(path) : /\ Candidate(NormalizePath(path)) = {r} /\ r \in Entry
                                                     /\ \A s \in Fits(path) : ~Precedes(s, r)
<1> DEFINE key == NormalizePath(path)
           hits == {i \in DOMAIN dynamics : RegexMatches(key, dynamics[i].pattern)}
<1>1. DOMAIN dynamics = 1 .. Len(dynamics) /\ \A i \in DOMAIN dynamics : dynamics[i] \in Entry
  BY DEF RouteInv, TableShape
<1>2. /\ DOMAIN routes = 1 .. Len(routes)
      /\ \A i \in DOMAIN routes : routes[i].kind \in {"static", "dynamic"}
  <2>1. DOMAIN routes = 1 .. Len(routes) /\ \A i \in DOMAIN routes : routes[i] \in Entry
    BY DEF RouteInv, TableShape
  <2>2. \A r \in Entry : r.kind \in {"static", "dynamic"}
    BY DEF Entry, Kind
  <2>3. QED
    BY <2>1, <2>2
<1>3. Candidate(key) = {dynamics[i] : i \in {h \in hits : \A g \in hits : h <= g}}
  BY DEF Candidate
<1>4. ASSUME NEW r \in Fits(path) PROVE r.kind # "static" /\ \E g \in hits : dynamics[g] = r
  <2>1. PICK i \in 1 .. Len(routes) : routes[i] = r
    BY <1>2 DEF Fits, Range
  <2>2. r.kind # "static"
    BY <2>1 DEF Fits, RouteInv, StaticsAgree
  <2>3. r.kind = "dynamic" /\ RegexMatches(key, r.pattern)
    BY <1>2, <2>1, <2>2 DEF Fits
  <2>4. PICK g \in 1 .. Len(dynamics) : dynamics[g] = r
    BY <2>1, <2>3 DEF RouteInv, DynamicsAgree
  <2>5. QED
    BY <1>1, <2>2, <2>3, <2>4
<1>5. ASSUME NEW h \in hits PROVE dynamics[h] \in Fits(path)
  <2>1. dynamics[h].kind = "dynamic" /\ RegexMatches(key, dynamics[h].pattern)
    BY <1>1 DEF RouteInv, DynamicsAgree
  <2>2. PICK j \in 1 .. Len(routes) : routes[j] = dynamics[h]
    BY <1>1 DEF RouteInv, DynamicsAgree
  <2>3. QED
    BY <1>2, <2>1, <2>2 DEF Fits, Range
<1>6. hits \subseteq Nat
  BY <1>1
<1>7. ASSUME Fits(path) = {} PROVE Candidate(key) = {}
  <2>1. hits = {}
    BY <1>5, <1>7
  <2>2. QED
    BY <1>3, <2>1
<1>8. ASSUME Fits(path) # {}
      PROVE  \E r \in Fits(path) : Candidate(key) = {r} /\ r \in Entry /\ \A s \in Fits(path) : ~Precedes(s, r)
  <2>1. hits # {}
    BY <1>4, <1>8
  <2>2. PICK h \in hits : \A g \in hits : h <= g
    <3> HIDE DEF hits
    <3>1. QED
      BY <1>6, <2>1, NatMin, Zenon
  <2>3. {i \in hits : \A g \in hits : i <= g} = {h}
    <3>1. ASSUME NEW i \in hits, \A g \in hits : i <= g PROVE i = h
      <4>1. i <= h /\ h <= i /\ i \in Nat /\ h \in Nat
        BY <1>6, <2>2, <3>1
      <4>2. QED
        BY <4>1
    <3> HIDE DEF hits
    <3>2. QED
      BY <2>2, <3>1
  <2>4. Candidate(key) = {dynamics[h]}
    BY <1>3, <2>3
  <2>5. ASSUME NEW s \in Fits(path) PROVE ~Precedes(s, dynamics[h])
    <3>1. PICK g \in hits : dynamics[g] = s
      BY <1>4
    <3>2. h <= g /\ h \in 1 .. Len(dynamics) /\ g \in 1 .. Len(dynamics)
      BY <1>1, <2>2, <3>1
    <3>3. CASE h < g
      BY <3>1, <3>2, <3>3 DEF RouteInv, MostSpecificFirst
    <3>4. CASE h = g
      <4>1. dynamics[h].pattern \in Pattern
        BY <3>2 DEF RouteInv, DynamicsAgree
      <4>2. QED
        BY <3>1, <3>4, <4>1, PrecedesIrreflexive
    <3>5. QED
      BY <3>2, <3>3, <3>4
  <2>6. QED
    BY <1>1, <1>5, <2>4, <2>5
<1>9. QED
  BY <1>4, <1>7, <1>8

\* Resolution agrees with the documented order for every set of routes: a static
\* route of the path, else a dynamic one than which none is more specific.
THEOREM ResolutionIsBest == Spec => []ResolvesBest
<1>1. RouteInv => ResolvesBest
  <2> SUFFICES ASSUME RouteInv, NEW path \in Path,
                      NEW found, found = Candidate(NormalizePath(path)),
                      NEW statically, statically = {r \in Fits(path) : r.kind = "static"},
                      NEW best, best = {r \in Fits(path) : \A s \in Fits(path) : ~Precedes(s, r)},
                      Fits(path) # {}
               PROVE  Cardinality(found) = 1 /\ found \subseteq IF statically # {} THEN statically ELSE best
    <3>1. ASSUME RouteInv, NEW path \in Path, Fits(path) = {}
          PROVE  Candidate(NormalizePath(path)) = {}
      <4>1. NormalizePath(path) \notin DOMAIN statics
        BY <3>1, CandidateStatic
      <4>2. QED
        BY <3>1, <4>1, CandidateDynamic
    <3>2. QED
      BY <3>1 DEF ResolvesBest
  <2>1. CASE NormalizePath(path) \in DOMAIN statics
    <3>1. PICK r \in Fits(path) : found = {r} /\ r.kind = "static"
      BY <2>1, CandidateStatic
    <3>2. Cardinality(found) = 1
      BY <3>1, FS_Singleton
    <3>3. statically # {} /\ found \subseteq statically
      BY <3>1
    <3>4. QED
      BY <3>2, <3>3
  <2>2. CASE NormalizePath(path) \notin DOMAIN statics
    <3>1. PICK r \in Fits(path) : found = {r} /\ \A s \in Fits(path) : ~Precedes(s, r)
      BY <2>2, CandidateDynamic
    <3>2. Cardinality(found) = 1
      BY <3>1, FS_Singleton
    <3>3. \A s \in Fits(path) : s.kind # "static"
      BY <2>2, CandidateDynamic
    <3>4. QED
      BY <3>1, <3>2, <3>3
  <2>3. QED
    BY <2>1, <2>2
<1>2. QED
  BY <1>1, RouteAlways, PTL

\* A method listed in Allow has a handler, and a path that some route fits is
\* never answered with 404.
THEOREM AllowNamesHandlers == Spec => []AllowIsHonest
<1>1. RouteInv => AllowIsHonest
  <2> SUFFICES ASSUME RouteInv, NEW path \in Path, NEW method \in Verb
               PROVE  /\ \A other \in Resolve(path, method).allowed : Resolve(path, other).route # NoRoute
                      /\ Fits(path) # {} =>
                           \/ Resolve(path, method).route # NoRoute
                           \/ Resolve(path, method).allowed # {}
    BY DEF AllowIsHonest
  <2>1. PICK found : found = Candidate(NormalizePath(path))
    OBVIOUS
  <2>2. \A r \in found : r \in Entry
    BY <2>1, CandidateStatic, CandidateDynamic
  <2>3. Fits(path) # {} => found # {}
    BY <2>1, CandidateStatic, CandidateDynamic
  <2>4. ASSUME NEW verb, NEW r \in found, MatchesMethod(r, verb) PROVE Resolve(path, verb).route # NoRoute
    <3>1. PICK hit : hit = {s \in found : MatchesMethod(s, verb)}
      OBVIOUS
    <3>2. hit # {} /\ Resolve(path, verb).route = CHOOSE s \in hit : TRUE
      BY <2>1, <2>4, <3>1 DEF Resolve
    <3>3. Resolve(path, verb).route \in Entry
      BY <2>2, <3>1, <3>2
    <3>4. QED
      BY <3>3 DEF Entry, Kind, NoRoute
  <2>5. ASSUME NEW verb, NEW r \in found, ~MatchesMethod(r, verb)
        PROVE  r.method \in Resolve(path, verb).allowed
    BY <2>1, <2>5 DEF Resolve, MatchesMethod
  <2>6. ASSUME NEW other \in Resolve(path, method).allowed PROVE Resolve(path, other).route # NoRoute
    <3>1. PICK r \in found : r.method = other
      BY <2>1 DEF Resolve
    <3>2. QED
      BY <2>4, <3>1 DEF MatchesMethod
  <2>7. QED
    BY <2>3, <2>4, <2>5, <2>6
<1>2. QED
  BY <1>1, RouteAlways, PTL
=============================================================================
