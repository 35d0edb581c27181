----------------------------- MODULE HttpClient -----------------------------
(***************************************************************************)
(* HttpClient, RequestBuilder and the coroutine that carries a request     *)
(* out (the C++20 build with TLS).  A builder may be copied; the copies    *)
(* have consumed_ flags of their own but share one RequestSpec, which a    *)
(* transfer reads while it runs.                                           *)
(***************************************************************************)
EXTENDS Naturals

CONSTANTS
  Builder,  \* the RequestBuilder objects; a spec is named after the first that had it
  MaxEdits  \* bound: changes of a spec's headers and body

ASSUME ClientAssumption == MaxEdits \in Nat /\ "none" \notin Builder

VARIABLES
  baseHttps, sslCtx,  \* the client: cfg_.https, and whether ssl_ctx_ is set
  specOf,    \* spec_
  consumed,  \* consumed_
  https,     \* spec: base.https
  content,   \* spec: how often headers and body were changed
  onSuccess, onError,  \* spec: the builder whose call set the callback
  pc,        \* the transfer a builder started
  kind,      \* started by then or by as_awaitable
  failed,    \* ec is set
  started,   \* history: the content when the transfer was started
  sent,      \* history: the content that was written
  calls,     \* history: how often a builder's callbacks were called
  shared     \* history: the specs of which a copy was made

client == <<baseHttps, sslCtx>>
spec == <<https, content, onSuccess, onError>>
vars == <<client, spec, specOf, consumed, pc, kind, failed, started, sent, calls, shared>>

None == "none"
Stage == {"none", "resolve", "connect", "handshake", "write", "read", "over", "posted", "done"}

TypeOK ==
  /\ baseHttps \in BOOLEAN /\ sslCtx \in BOOLEAN
  /\ specOf \in [Builder -> Builder \cup {None}] /\ consumed \in [Builder -> BOOLEAN]
  /\ https \in [Builder -> BOOLEAN] /\ content \in [Builder -> 0 .. MaxEdits]
  /\ onSuccess \in [Builder -> Builder \cup {None}] /\ onError \in [Builder -> Builder \cup {None}]
  /\ pc \in [Builder -> Stage] /\ kind \in [Builder -> {"none", "then", "await"}]
  /\ failed \in [Builder -> BOOLEAN] /\ shared \subseteq Builder
  /\ started \in [Builder -> 0 .. MaxEdits] /\ sent \in [Builder -> (0 .. MaxEdits) \cup {MaxEdits + 1}]
  /\ calls \in [Builder -> [success : Nat, error : Nat]]

Unsent == MaxEdits + 1

Init ==
  /\ baseHttps \in BOOLEAN /\ sslCtx \in BOOLEAN
  /\ specOf = [b \in Builder |-> None] /\ consumed = [b \in Builder |-> FALSE]
  /\ https = [b \in Builder |-> FALSE] /\ content = [b \in Builder |-> 0]
  /\ onSuccess = [b \in Builder |-> None] /\ onError = [b \in Builder |-> None]
  /\ pc = [b \in Builder |-> "none"] /\ kind = [b \in Builder |-> "none"]
  /\ failed = [b \in Builder |-> FALSE] /\ shared = {}
  /\ started = [b \in Builder |-> 0] /\ sent = [b \in Builder |-> Unsent]
  /\ calls = [b \in Builder |-> [success |-> 0, error |-> 0]]

-----------------------------------------------------------------------------
(* The builder. *)

\* An absolute URL has its own scheme, a target the client's.
UsesTls(target) == IF target = "relative" THEN baseHttps ELSE target = "https"

\* get, post, put or delete_.  An invalid URL throws and there is no builder.
Create(b, target) ==
  /\ specOf[b] = None /\ specOf' = [specOf EXCEPT ![b] = b]
  /\ https' = [https EXCEPT ![b] = UsesTls(target)]
  /\ UNCHANGED <<client, consumed, content, onSuccess, onError, pc, kind, failed, started, sent, calls, shared>>

\* The copy constructor: the shared_ptr and the flag are copied.
Copy(b, c) ==
  /\ specOf[b] # None /\ specOf[c] = None
  /\ specOf' = [specOf EXCEPT ![c] = specOf[b]] /\ consumed' = [consumed EXCEPT ![c] = consumed[b]]
  /\ shared' = shared \cup {specOf[b]}
  /\ UNCHANGED <<client, spec, pc, kind, failed, started, sent, calls>>

\* A builder that may still be changed when its request is on its way.
EnsureCreated(b) == specOf[b] # None

\* Every call throws after then or as_awaitable.
EnsureNotConsumed(b) == specOf[b] # None /\ ~consumed[b]

\* header, body and body_json.
Edit(b) ==
  /\ EnsureNotConsumed(b) /\ content[specOf[b]] < MaxEdits
  /\ content' = [content EXCEPT ![specOf[b]] = @ + 1]
  /\ UNCHANGED <<client, https, onSuccess, onError, specOf, consumed, pc, kind, failed, started, sent, calls, shared>>

CatchError(b) ==
  /\ EnsureNotConsumed(b) /\ onError' = [onError EXCEPT ![specOf[b]] = b]
  /\ UNCHANGED <<client, https, content, onSuccess, specOf, consumed, pc, kind, failed, started, sent, calls, shared>>

\* https without a context fails before anything is sent.
Begin(b) ==
  LET s == specOf[b] IN
  /\ consumed' = [consumed EXCEPT ![b] = TRUE] /\ started' = [started EXCEPT ![b] = content[s]]
  /\ IF https[s] /\ ~sslCtx
     THEN pc' = [pc EXCEPT ![b] = "over"] /\ failed' = [failed EXCEPT ![b] = TRUE]
     ELSE pc' = [pc EXCEPT ![b] = "resolve"] /\ UNCHANGED failed

Then(b) ==
  /\ EnsureNotConsumed(b) /\ Begin(b) /\ kind' = [kind EXCEPT ![b] = "then"]
  /\ onSuccess' = [onSuccess EXCEPT ![specOf[b]] = b]
  /\ UNCHANGED <<client, https, content, onError, specOf, sent, calls, shared>>

\* The caller awaits what as_awaitable returns.
AsAwaitable(b) ==
  /\ EnsureNotConsumed(b) /\ Begin(b) /\ kind' = [kind EXCEPT ![b] = "await"]
  /\ UNCHANGED <<client, spec, specOf, sent, calls, shared>>

-----------------------------------------------------------------------------
(* The transfer. *)

\* Each stage ends the transfer if it fails; the last shuts the socket down.
AfterStage(b, ok) ==
  CASE ~ok -> "over"
    [] ok /\ pc[b] = "resolve" -> "connect"
    [] ok /\ pc[b] = "connect" -> IF https[specOf[b]] THEN "handshake" ELSE "write"
    [] ok /\ pc[b] = "handshake" -> "write"
    [] ok /\ pc[b] = "write" -> "read"
    [] OTHER -> "over"

\* A handshake without a deadline, with a peer that is silent.
StagesNoDeadline(b, ok) ==
  /\ pc[b] \in {"resolve", "connect", "write", "read"}
  /\ pc' = [pc EXCEPT ![b] = AfterStage(b, ok)]
  /\ failed' = [failed EXCEPT ![b] = ~ok]
  /\ sent' = IF pc'[b] = "write" THEN [sent EXCEPT ![b] = content[specOf[b]]] ELSE sent
  /\ UNCHANGED <<client, spec, specOf, consumed, kind, started, calls, shared>>

\* co_await of one stage; connecting, the handshake, writing and reading end by
\* the stream's deadline if not before.  The spec is read when writing begins.
Stages(b, ok) ==
  /\ pc[b] \in {"resolve", "connect", "handshake", "write", "read"}
  /\ pc' = [pc EXCEPT ![b] = AfterStage(b, ok)]
  /\ failed' = [failed EXCEPT ![b] = ~ok]
  /\ sent' = IF pc'[b] = "write" THEN [sent EXCEPT ![b] = content[specOf[b]]] ELSE sent
  /\ UNCHANGED <<client, spec, specOf, consumed, kind, started, calls, shared>>

\* One callback for both outcomes where no error handler is set.
CallbackEither(b) == IF onError[specOf[b]] # None /\ failed[b] THEN onError[specOf[b]] ELSE onSuccess[specOf[b]]

Callback(b) == IF failed[b] THEN onError[specOf[b]] ELSE onSuccess[specOf[b]]

\* run_callbacks posts the one callback that fits the outcome, if it is set;
\* transfer_await returns the response or throws.
End(b) ==
  /\ pc[b] = "over"
  /\ pc' = [pc EXCEPT ![b] = IF kind[b] = "then" /\ Callback(b) # None THEN "posted" ELSE "done"]
  /\ UNCHANGED <<client, spec, specOf, consumed, kind, failed, started, sent, calls, shared>>

\* The executor runs what was posted: the spec's callback of that moment.
RunPosted(b) ==
  /\ pc[b] = "posted" /\ pc' = [pc EXCEPT ![b] = "done"]
  /\ calls' = IF failed[b] THEN [calls EXCEPT ![Callback(b)].error = @ + 1]
              ELSE [calls EXCEPT ![Callback(b)].success = @ + 1]
  /\ UNCHANGED <<client, spec, specOf, consumed, kind, failed, started, sent, shared>>

-----------------------------------------------------------------------------
Progress(b) == (\E ok \in BOOLEAN : Stages(b, ok)) \/ End(b) \/ RunPosted(b)

Next ==
  \E b \in Builder :
    \/ \E target \in {"relative", "http", "https"} : Create(b, target)
    \/ \E c \in Builder : Copy(b, c)
    \/ Edit(b) \/ CatchError(b) \/ Then(b) \/ AsAwaitable(b) \/ Progress(b)

\* The executor runs, name resolution ends, and the stream's deadline ends the rest.
Spec == Init /\ [][Next]_vars /\ \A b \in Builder : WF_vars(Progress(b))

-----------------------------------------------------------------------------
(* Properties. *)

\* The request that is written is the one that was started, unless the builder
\* was copied: then the copy still changes it.
SendsWhatWasStarted ==
  \A b \in Builder : sent[b] # Unsent /\ specOf[b] \notin shared => sent[b] = started[b]

\* Of a builder that was not copied, the success callback runs if and only if the
\* response was read, the error callback only for an error, and neither twice.
OneOutcome ==
  \A b \in Builder : specOf[b] # None /\ specOf[b] \notin shared =>
    /\ calls[b].success + calls[b].error <= 1
    /\ calls[b].success = 1 => ~failed[b] /\ sent[b] # Unsent
    /\ calls[b].error = 1 => failed[b] /\ onError[b] # None
    /\ pc[b] = "done" /\ kind[b] = "then" /\ ~failed[b] => calls[b].success = 1
    /\ pc[b] = "done" /\ kind[b] = "then" /\ failed[b] /\ onError[b] # None => calls[b].error = 1

\* A request that was started ends, on whichever stage it fails.
EveryRequestEnds == \A b \in Builder : (pc[b] # "none") ~> (pc[b] = "done")
=============================================================================
