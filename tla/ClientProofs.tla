---------------------------- MODULE ClientProofs ----------------------------
(***************************************************************************)
(* Proofs about the client library: HttpClient with its builders and       *)
(* transfers, for any number of builders, copies and edits, and            *)
(* ConnectionPool, for any connections, hosts and sizes.                   *)
(***************************************************************************)
EXTENDS HttpClient, ConnectionPool, SequenceTheorems, WellFoundedInduction, TLAPS

-----------------------------------------------------------------------------
(* The builders and their specs. *)

\* The shape of the client's state.
ClientShape ==
  /\ specOf \in [Builder -> Builder \cup {None}] /\ content \in [Builder -> 0 .. MaxEdits]
  /\ onSuccess \in [Builder -> Builder \cup {None}] /\ onError \in [Builder -> Builder \cup {None}]
  /\ pc \in [Builder -> Stage] /\ kind \in [Builder -> {"none", "then", "await"}]
  /\ started \in [Builder -> 0 .. MaxEdits] /\ sent \in [Builder -> Nat]
  /\ calls \in [Builder -> [success : Nat, error : Nat]]
  /\ DOMAIN consumed = Builder /\ DOMAIN failed = Builder /\ DOMAIN https = Builder

\* A builder that was created and never copied.
Unshared(b) == specOf[b] # None /\ specOf[b] \notin shared

Zero == [success |-> 0, error |-> 0]

\* A spec that was not copied belongs to one builder, and to none before it is
\* created; a spec's callbacks were set by builders that have it.
Ownership ==
  \A b \in Builder :
    /\ specOf[b] # None => specOf[specOf[b]] # None
    /\ Unshared(b) => specOf[b] = b /\ \A c \in Builder : specOf[c] = b => c = b
    /\ onSuccess[b] # None => specOf[onSuccess[b]] = b
    /\ onError[b] # None => specOf[onError[b]] = b
    /\ consumed[b] \/ pc[b] # "none" \/ sent[b] # Unsent \/ kind[b] # "none" \/ calls[b] # Zero => specOf[b] # None

\* What a transfer relies on while it runs: its spec is frozen.
Transfer ==
  \A b \in Builder :
    /\ pc[b] # "none" => consumed[b] /\ kind[b] # "none"
    /\ pc[b] = "none" => sent[b] = Unsent /\ kind[b] = "none"
    /\ Unshared(b) /\ consumed[b] => pc[b] # "none" /\ content[b] = started[b]
    /\ Unshared(b) /\ sent[b] # Unsent => sent[b] = started[b]
    /\ pc[b] \in {"write", "read"} \/ (pc[b] \in {"over", "posted", "done"} /\ ~failed[b]) => sent[b] # Unsent

\* What has been called of a builder that was not copied.
Outcome(b) ==
  IF pc[b] = "done" /\ kind[b] = "then"
  THEN IF ~failed[b] THEN [success |-> 1, error |-> 0]
       ELSE IF onError[b] # None THEN [success |-> 0, error |-> 1] ELSE Zero
  ELSE Zero

Outcomes ==
  \A b \in Builder : Unshared(b) =>
    /\ kind[b] = "then" => onSuccess[b] = b
    /\ pc[b] = "posted" => kind[b] = "then" /\ (failed[b] => onError[b] # None)
    /\ calls[b] = Outcome(b)

ClientInv == ClientShape /\ Ownership /\ Transfer /\ Outcomes

\* What running a posted callback counts.
LEMMA CallCounts ==
  ASSUME ClientShape, NEW b \in Builder, RunPosted(b)
  PROVE  /\ calls' = [c \in Builder |-> calls'[c]]
         /\ \A c \in Builder : calls'[c] =
              IF c # Callback(b) THEN calls[c]
              ELSE IF failed[b] THEN [success |-> calls[c].success, error |-> calls[c].error + 1]
              ELSE [success |-> calls[c].success + 1, error |-> calls[c].error]
<1> DEFINE x == Callback(b)
<1>1. \A c \in Builder : calls[c] \in [success : Nat, error : Nat]
  BY DEF ClientShape
<1>2. calls' = IF failed[b] THEN [calls EXCEPT ![x].error = @ + 1] ELSE [calls EXCEPT ![x].success = @ + 1]
  BY Zenon DEF RunPosted
<1> HIDE DEF x
<1>3. CASE failed[b]
  <2>1. calls' = [calls EXCEPT ![x].error = @ + 1]
    BY <1>2, <1>3
  <2>2. calls' = [c \in Builder |-> calls'[c]] /\ \A c \in Builder : c # x => calls'[c] = calls[c]
    BY <2>1 DEF ClientShape
  <2>3. x \in Builder => calls'[x] = [calls[x] EXCEPT !.error = @ + 1]
    BY <2>1 DEF ClientShape
  <2>4. x \in Builder => [calls[x] EXCEPT !.error = @ + 1] = [success |-> calls[x].success, error |-> calls[x].error + 1]
    BY <1>1
  <2>5. QED
    BY <1>3, <2>2, <2>3, <2>4, Zenon DEF x
<1>4. CASE ~failed[b]
  <2>1. calls' = [calls EXCEPT ![x].success = @ + 1]
    BY <1>2, <1>4
  <2>2. calls' = [c \in Builder |-> calls'[c]] /\ \A c \in Builder : c # x => calls'[c] = calls[c]
    BY <2>1 DEF ClientShape
  <2>3. x \in Builder => calls'[x] = [calls[x] EXCEPT !.success = @ + 1]
    BY <2>1 DEF ClientShape
  <2>4. x \in Builder => [calls[x] EXCEPT !.success = @ + 1] = [success |-> calls[x].success + 1, error |-> calls[x].error]
    BY <1>1
  <2>5. QED
    BY <1>4, <2>2, <2>3, <2>4, Zenon DEF x
<1>5. QED
  BY <1>3, <1>4

\* Every step keeps the shape.
LEMMA ClientShapeStep == ClientShape /\ Ownership /\ [Next]_vars => ClientShape'
<1> SUFFICES ASSUME ClientShape, Ownership, [Next]_vars PROVE ClientShape'
  OBVIOUS
<1> USE ClientAssumption DEF ClientShape, None, Stage
<1>1. ASSUME NEW b \in Builder, NEW target, Create(b, target) PROVE ClientShape'
  BY <1>1 DEF Create
<1>2. ASSUME NEW b \in Builder, NEW c \in Builder, Copy(b, c) PROVE ClientShape'
  BY <1>2 DEF Copy, spec
<1>3. ASSUME NEW b \in Builder, Edit(b) PROVE ClientShape'
  BY <1>3 DEF Edit, EnsureNotConsumed
<1>4. ASSUME NEW b \in Builder, CatchError(b) PROVE ClientShape'
  BY <1>4 DEF CatchError, EnsureNotConsumed
<1>5. ASSUME NEW b \in Builder, Begin(b), EnsureNotConsumed(b)
      PROVE  /\ pc' \in [Builder -> Stage] /\ started' \in [Builder -> 0 .. MaxEdits]
             /\ DOMAIN consumed' = Builder /\ DOMAIN failed' = Builder
  BY <1>5 DEF Begin, EnsureNotConsumed
<1>6. ASSUME NEW b \in Builder, Then(b) \/ AsAwaitable(b) PROVE ClientShape'
  <2>1. EnsureNotConsumed(b) /\ Begin(b)
    BY <1>6 DEF Then, AsAwaitable
  <2>2. UNCHANGED <<https, content, onError, specOf, sent, calls>>
    <3>1. CASE Then(b)
      BY <3>1 DEF Then
    <3>2. CASE AsAwaitable(b)
      BY <3>2 DEF AsAwaitable, spec
    <3>3. QED
      BY <1>6, <3>1, <3>2
  <2>3. kind' \in [Builder -> {"none", "then", "await"}] /\ onSuccess' \in [Builder -> Builder \cup {None}]
    <3>1. CASE Then(b)
      BY <3>1 DEF Then
    <3>2. CASE AsAwaitable(b)
      BY <3>2 DEF AsAwaitable, spec
    <3>3. QED
      BY <1>6, <3>1, <3>2
  <2>4. QED
    BY <1>5, <2>1, <2>2, <2>3
<1>7. ASSUME NEW b \in Builder, NEW ok \in BOOLEAN, Stages(b, ok) PROVE ClientShape'
  <2>1. AfterStage(b, ok) \in Stage
    BY DEF AfterStage
  <2>2. specOf[b] \in Builder
    BY <1>7 DEF Stages, Ownership
  <2>3. pc' \in [Builder -> Stage] /\ sent' \in [Builder -> Nat] /\ DOMAIN failed' = Builder
    BY <1>7, <2>1, <2>2 DEF Stages
  <2>4. QED
    BY <1>7, <2>3 DEF Stages, spec
<1>8. ASSUME NEW b \in Builder, End(b) PROVE ClientShape'
  BY <1>8 DEF End, spec
<1>9. ASSUME NEW b \in Builder, RunPosted(b) PROVE ClientShape'
  <2>1. calls' \in [Builder -> [success : Nat, error : Nat]]
    <3>1. calls' = [c \in Builder |-> calls'[c]]
      BY <1>9, CallCounts
    <3>2. ASSUME NEW c \in Builder PROVE calls'[c] \in [success : Nat, error : Nat]
      <4>1. calls[c].success + 1 \in Nat /\ calls[c].error + 1 \in Nat
        OBVIOUS
      <4>2. \/ calls'[c] = calls[c]
            \/ calls'[c] = [success |-> calls[c].success, error |-> calls[c].error + 1]
            \/ calls'[c] = [success |-> calls[c].success + 1, error |-> calls[c].error]
        BY <1>9, CallCounts, Zenon
      <4>3. QED
        BY <4>1, <4>2
    <3>3. QED
      BY <3>1, <3>2, Zenon
  <2>2. QED
    BY <1>9, <2>1 DEF RunPosted, spec
<1>10. CASE UNCHANGED vars
  BY <1>10 DEF vars, spec
<1>11. QED
  BY <1>1, <1>2, <1>3, <1>4, <1>6, <1>7, <1>8, <1>9, <1>10 DEF Next, Progress

\* Nobody takes over a spec that was not copied.
LEMMA OwnershipStep == ClientShape /\ Ownership /\ [Next]_vars => Ownership'
<1> SUFFICES ASSUME ClientShape, Ownership, [Next]_vars PROVE Ownership'
  OBVIOUS
<1> USE ClientAssumption DEF ClientShape, None
<1>1. ASSUME UNCHANGED <<specOf, shared, onSuccess, onError>>,
             NEW b \in Builder, specOf[b] # None,
             \A c \in Builder : c # b =>
               /\ consumed'[c] = consumed[c] /\ pc'[c] = pc[c] /\ sent'[c] = sent[c]
               /\ kind'[c] = kind[c] /\ calls'[c] = calls[c]
      PROVE  Ownership'
  BY <1>1 DEF Ownership, Unshared
<1>2. ASSUME NEW b \in Builder, NEW target, Create(b, target) PROVE Ownership'
  BY <1>2 DEF Create, Ownership, Unshared
<1>3. ASSUME NEW b \in Builder, NEW c \in Builder, Copy(b, c) PROVE Ownership'
  BY <1>3 DEF Copy, spec, Ownership, Unshared
<1>4. ASSUME NEW b \in Builder, Edit(b) PROVE Ownership'
  BY <1>1, <1>4 DEF Edit, EnsureNotConsumed
<1>5. ASSUME NEW b \in Builder, CatchError(b) PROVE Ownership'
  BY <1>5 DEF CatchError, EnsureNotConsumed, Ownership, Unshared
<1>6. ASSUME NEW b \in Builder, Then(b) PROVE Ownership'
  BY <1>6 DEF Then, Begin, EnsureNotConsumed, Ownership, Unshared
<1>7. ASSUME NEW b \in Builder, AsAwaitable(b) PROVE Ownership'
  BY <1>1, <1>7 DEF AsAwaitable, Begin, EnsureNotConsumed, spec
<1>8. ASSUME NEW b \in Builder, NEW ok \in BOOLEAN, Stages(b, ok) PROVE Ownership'
  <2>1. specOf[b] # None
    BY <1>8 DEF Stages, Ownership
  <2>2. QED
    BY <1>1, <1>8, <2>1 DEF Stages, spec
<1>9. ASSUME NEW b \in Builder, End(b) PROVE Ownership'
  <2>1. specOf[b] # None
    BY <1>9 DEF End, Ownership
  <2>2. QED
    BY <1>1, <1>9, <2>1 DEF End, spec
<1>10. ASSUME NEW b \in Builder, RunPosted(b) PROVE Ownership'
  <2>1. specOf[b] \in Builder
    BY <1>10 DEF RunPosted, Ownership
  <2>2. \A c \in Builder : c = Callback(b) => specOf[c] # None
    BY <2>1 DEF Callback, Ownership
  <2>3. \A c \in Builder : calls'[c] # calls[c] => c = Callback(b)
    BY <1>10, CallCounts
  <2>4. UNCHANGED <<specOf, shared, onSuccess, onError, consumed, sent, kind>>
    BY <1>10 DEF RunPosted, spec
  <2>5. \A c \in Builder : pc'[c] # "none" => pc[c] # "none"
    BY <1>10 DEF RunPosted
  <2>6. QED
    BY <2>2, <2>3, <2>4, <2>5 DEF Ownership, Unshared
<1>11. CASE UNCHANGED vars
  BY <1>11 DEF vars, spec, Ownership, Unshared
<1>12. QED
  BY <1>2, <1>3, <1>4, <1>5, <1>6, <1>7, <1>8, <1>9, <1>10, <1>11 DEF Next, Progress

\* The spec of a transfer stays as it was when it began.
LEMMA TransferStep == ClientShape /\ Ownership /\ Transfer /\ [Next]_vars => Transfer'
<1> SUFFICES ASSUME ClientShape, Ownership, Transfer, [Next]_vars PROVE Transfer'
  OBVIOUS
<1> USE ClientAssumption DEF ClientShape, None
<1>1. ASSUME NEW b \in Builder, NEW target, Create(b, target) PROVE Transfer'
  BY <1>1 DEF Create, Ownership, Unshared, Transfer, Unsent
<1>2. ASSUME NEW b \in Builder, NEW c \in Builder, Copy(b, c) PROVE Transfer'
  BY <1>2 DEF Copy, spec, Ownership, Unshared, Transfer, Unsent
<1>3. ASSUME NEW b \in Builder, Edit(b) PROVE Transfer'
  BY <1>3 DEF Edit, EnsureNotConsumed, Ownership, Unshared, Transfer, Unsent
<1>4. ASSUME NEW b \in Builder, CatchError(b) PROVE Transfer'
  BY <1>4 DEF CatchError, Unshared, Transfer, Unsent
<1>5. ASSUME NEW b \in Builder, Then(b) \/ AsAwaitable(b) PROVE Transfer'
  <2>1. EnsureNotConsumed(b) /\ Begin(b) /\ UNCHANGED <<content, specOf, sent, shared>>
    BY <1>5 DEF Then, AsAwaitable, spec
  <2>2. kind'[b] # "none" /\ \A c \in Builder : c # b => kind'[c] = kind[c]
    BY <1>5 DEF Then, AsAwaitable
  <2>3. pc'[b] \in {"over", "resolve"} /\ (pc'[b] = "over" => failed'[b]) /\ consumed'[b] /\ started'[b] = content[specOf[b]]
    BY <2>1 DEF Begin
  <2>4. \A c \in Builder : c # b => pc'[c] = pc[c] /\ failed'[c] = failed[c] /\ consumed'[c] = consumed[c] /\ started'[c] = started[c]
    BY <2>1 DEF Begin
  <2>5. QED
    BY <2>1, <2>2, <2>3, <2>4 DEF Ownership, Unshared, Transfer, Unsent, EnsureNotConsumed
<1>6. ASSUME NEW b \in Builder, NEW ok \in BOOLEAN, Stages(b, ok) PROVE Transfer'
  <2>1. UNCHANGED <<content, specOf, consumed, kind, started, shared>>
    BY <1>6 DEF Stages, spec
  <2>2. pc'[b] = AfterStage(b, ok) /\ \A c \in Builder : c # b => pc'[c] = pc[c] /\ failed'[c] = failed[c] /\ sent'[c] = sent[c]
    BY <1>6 DEF Stages
  <2>3. sent'[b] = IF pc'[b] = "write" THEN content[specOf[b]] ELSE sent[b]
    BY <1>6 DEF Stages
  <2>4. specOf[b] \in Builder
    BY <1>6 DEF Stages, Ownership
  <2>5. failed'[b] = ~ok
    BY <1>6 DEF Stages
  <2>6. AfterStage(b, ok) # "none" /\ AfterStage(b, ok) \notin {"posted", "done"}
    BY <1>6 DEF AfterStage
  <2>7. AfterStage(b, ok) = "read" \/ (AfterStage(b, ok) = "over" /\ ok) => pc[b] \in {"write", "read"}
    BY <1>6 DEF AfterStage, Stages
  <2>8. content[specOf[b]] # Unsent
    BY <2>4 DEF Unsent
  <2>9. pc[b] # "none"
    BY <1>6 DEF Stages
  <2>10. sent'[b] = sent[b] \/ (sent'[b] = content[specOf[b]] /\ pc'[b] = "write")
    BY <2>3
  <2>11. Unshared(b) => content[specOf[b]] = started[b] /\ pc[b] # "none"
    BY <2>9 DEF Ownership, Unshared, Transfer
  <2>12. /\ consumed[b] /\ kind[b] # "none" /\ pc'[b] # "none"
         /\ pc'[b] = "read" \/ (pc'[b] = "over" /\ ok) => sent[b] # Unsent
         /\ pc'[b] \notin {"posted", "done"}
    BY <2>2, <2>6, <2>7, <2>9 DEF Transfer
  <2>13. Unshared(b) => specOf[b] = b /\ content[b] = started[b] /\ (sent'[b] # Unsent => sent'[b] = started[b])
    BY <2>10, <2>11 DEF Transfer, Ownership, Unshared
  <2>14. pc'[b] \in {"write", "read"} \/ (pc'[b] = "over" /\ ok) => sent'[b] # Unsent
    BY <2>3, <2>8, <2>10, <2>12
  <2>15. ~failed'[b] => ok
    BY <2>5, Zenon
  <2>16. pc'[b] \in {"write", "read"} \/ (pc'[b] \in {"over", "posted", "done"} /\ ~failed'[b]) => sent'[b] # Unsent
    BY <2>12, <2>14, <2>15
  <2>17. QED
    BY <2>1, <2>2, <2>12, <2>13, <2>16 DEF Unshared, Transfer, Unsent
<1>7. ASSUME NEW b \in Builder, End(b) PROVE Transfer'
  BY <1>7 DEF End, spec, Unshared, Transfer, Unsent
<1>8. ASSUME NEW b \in Builder, RunPosted(b) PROVE Transfer'
  BY <1>8 DEF RunPosted, spec, Unshared, Transfer, Unsent
<1>9. CASE UNCHANGED vars
  BY <1>9 DEF vars, spec, Unshared, Transfer, Unsent
<1>10. QED
  BY <1>1, <1>2, <1>3, <1>4, <1>5, <1>6, <1>7, <1>8, <1>9 DEF Next, Progress

\* A callback that runs is one that its own transfer posted.
LEMMA OutcomesStep == ClientInv /\ [Next]_vars => Outcomes'
<1> SUFFICES ASSUME ClientShape, Ownership, Transfer, Outcomes, [Next]_vars PROVE Outcomes'
  BY DEF ClientInv
<1> USE ClientAssumption DEF ClientShape, None
<1>1. ASSUME NEW c \in Builder, Unshared(c),
             pc'[c] = pc[c], kind'[c] = kind[c], failed'[c] = failed[c], calls'[c] = calls[c],
             onSuccess'[c] = onSuccess[c], onError'[c] = onError[c]
      PROVE  /\ kind'[c] = "then" => onSuccess'[c] = c
             /\ pc'[c] = "posted" => kind'[c] = "then" /\ (failed'[c] => onError'[c] # None)
             /\ calls'[c] = Outcome(c)'
  <2>1. Outcome(c)' = Outcome(c)
    BY <1>1 DEF Outcome
  <2>2. QED
    BY <1>1, <2>1 DEF Outcomes
<1>2. ASSUME NEW b \in Builder, NEW target, Create(b, target) PROVE Outcomes'
  <2>1. UNCHANGED <<pc, kind, failed, calls, onSuccess, onError, shared>>
    BY <1>2 DEF Create
  <2>2. ASSUME NEW c \in Builder, Unshared(c)', c # b PROVE Unshared(c)
    BY <1>2, <2>2 DEF Create, Unshared
  <2>3. kind[b] = "none" /\ pc[b] = "none" /\ calls[b] = Zero
    BY <1>2 DEF Create, Ownership
  <2>4. Outcome(b)' = Zero
    BY <2>1, <2>3 DEF Outcome, Zero
  <2>5. QED
    BY <1>1, <2>1, <2>2, <2>3, <2>4 DEF Outcomes
<1>3. ASSUME NEW b \in Builder, NEW c \in Builder, Copy(b, c) PROVE Outcomes'
  <2>1. UNCHANGED <<pc, kind, failed, calls, onSuccess, onError>>
    BY <1>3 DEF Copy, spec
  <2>2. ASSUME NEW d \in Builder, Unshared(d)' PROVE Unshared(d)
    BY <1>3, <2>2 DEF Copy, Unshared
  <2>3. QED
    BY <1>1, <2>1, <2>2 DEF Outcomes
<1>4. ASSUME NEW b \in Builder, Edit(b) PROVE Outcomes'
  <2>1. UNCHANGED <<pc, kind, failed, calls, onSuccess, onError, specOf, shared>>
    BY <1>4 DEF Edit
  <2>2. QED
    BY <1>1, <2>1 DEF Outcomes, Unshared
<1>5. ASSUME NEW b \in Builder, CatchError(b) PROVE Outcomes'
  <2>1. UNCHANGED <<pc, kind, failed, calls, onSuccess, specOf, shared>>
    BY <1>5 DEF CatchError
  <2>2. \A c \in Builder : Unshared(c) /\ c # b => onError'[c] = onError[c]
    BY <1>5 DEF CatchError, EnsureNotConsumed, Ownership, Unshared
  <2>3. pc[b] = "none"
    BY <1>5, Zenon DEF CatchError, EnsureNotConsumed, Transfer
  <2>4. kind[b] = "none"
    BY <2>3 DEF Transfer
  <2>5. Outcome(b)' = Zero /\ Outcome(b) = Zero
    BY <2>1, <2>3 DEF Outcome, Zero
  <2>6. QED
    BY <1>1, <2>1, <2>2, <2>3, <2>4, <2>5 DEF Outcomes, Unshared
<1>6. ASSUME NEW b \in Builder, Then(b) \/ AsAwaitable(b) PROVE Outcomes'
  <2>1. UNCHANGED <<calls, onError, specOf, shared>> /\ Begin(b) /\ EnsureNotConsumed(b)
    BY <1>6 DEF Then, AsAwaitable, spec
  <2>2. /\ pc'[b] \in {"over", "resolve"}
        /\ \A c \in Builder : c # b => pc'[c] = pc[c] /\ failed'[c] = failed[c]
    BY <2>1 DEF Begin
  <2>3. /\ \A c \in Builder : c # b => kind'[c] = kind[c]
        /\ kind'[b] = "then" => Then(b)
    BY <1>6 DEF Then, AsAwaitable
  <2>4. ASSUME NEW c \in Builder, Unshared(c), c # b PROVE onSuccess'[c] = onSuccess[c]
    <3>1. specOf[b] # c
      BY <2>4 DEF Ownership
    <3>2. QED
      BY <1>6, <3>1 DEF Then, AsAwaitable, spec
  <2>5. Unshared(b) /\ Then(b) => onSuccess'[b] = b
    BY DEF Then, Ownership
  <2>6. pc[b] = "none"
    BY <2>1, Zenon DEF EnsureNotConsumed, Transfer
  <2>7. Outcome(b)' = Zero /\ Outcome(b) = Zero
    BY <2>2, <2>6 DEF Outcome, Zero
  <2>8. QED
    BY <1>1, <2>1, <2>2, <2>3, <2>4, <2>5, <2>7 DEF Outcomes, Unshared
<1>7. ASSUME NEW b \in Builder, NEW ok \in BOOLEAN, Stages(b, ok) PROVE Outcomes'
  <2>1. UNCHANGED <<kind, calls, onSuccess, onError, specOf, shared>>
    BY <1>7 DEF Stages, spec
  <2>2. /\ pc'[b] = AfterStage(b, ok)
        /\ \A c \in Builder : c # b => pc'[c] = pc[c] /\ failed'[c] = failed[c]
    BY <1>7 DEF Stages
  <2>3. AfterStage(b, ok) \notin {"posted", "done"}
    BY <1>7 DEF AfterStage
  <2>4. Outcome(b)' = Zero /\ Outcome(b) = Zero
    BY <1>7, <2>2, <2>3 DEF Stages, Outcome, Zero
  <2>5. QED
    BY <1>1, <2>1, <2>2, <2>3, <2>4 DEF Outcomes, Unshared
<1>8. ASSUME NEW b \in Builder, End(b) PROVE Outcomes'
  <2>1. UNCHANGED <<kind, failed, calls, onSuccess, onError, specOf, shared>>
    BY <1>8 DEF End, spec
  <2>2. /\ pc'[b] = IF kind[b] = "then" /\ Callback(b) # None THEN "posted" ELSE "done"
        /\ \A c \in Builder : c # b => pc'[c] = pc[c]
    BY <1>8 DEF End
  <2>3. ASSUME Unshared(b)
        PROVE  /\ pc'[b] = "posted" => kind[b] = "then" /\ (failed[b] => onError[b] # None)
               /\ pc'[b] = "done" /\ kind[b] = "then" => failed[b] /\ onError[b] = None
    <3>1. specOf[b] = b
      BY <2>3 DEF Ownership
    <3>2. kind[b] = "then" => onSuccess[b] # None
      BY <2>3 DEF Outcomes
    <3>3. QED
      BY <2>2, <3>1, <3>2 DEF Callback
  <2>4. Unshared(b) => Outcome(b)' = Zero
    BY <2>1, <2>2, <2>3 DEF Outcome, Zero
  <2>5. Outcome(b) = Zero
    BY <1>8 DEF End, Outcome, Zero
  <2>6. QED
    BY <1>1, <2>1, <2>2, <2>3, <2>4, <2>5 DEF Outcomes, Unshared
<1>9. ASSUME NEW b \in Builder, RunPosted(b) PROVE Outcomes'
  <2>1. UNCHANGED <<kind, failed, onSuccess, onError, specOf, shared>> /\ pc[b] = "posted"
    BY <1>9 DEF RunPosted, spec
  <2>2. pc'[b] = "done" /\ \A c \in Builder : c # b => pc'[c] = pc[c]
    BY <1>9 DEF RunPosted
  <2>3. specOf[b] \in Builder
    BY <2>1 DEF Ownership
  <2>4. ASSUME NEW c \in Builder, Unshared(c), c # b PROVE calls'[c] = calls[c]
    <3>1. specOf[c] = c /\ specOf[b] # c
      BY <2>4 DEF Ownership
    <3>2. Callback(b) # c
      BY <2>3, <3>1 DEF Callback, Ownership
    <3>3. QED
      BY <1>9, <3>2, CallCounts
  <2>5. ASSUME Unshared(b) PROVE calls'[b] = Outcome(b)'
    <3>1. specOf[b] = b /\ kind[b] = "then" /\ onSuccess[b] = b
      BY <2>1, <2>5 DEF Ownership, Outcomes
    <3>2. failed[b] => onError[b] = b
      BY <2>1, <2>5, <3>1 DEF Ownership, Outcomes
    <3>3. Callback(b) = b
      BY <3>1, <3>2 DEF Callback
    <3>4. calls[b] = [success |-> 0, error |-> 0]
      BY <2>1, <2>5 DEF Outcomes, Outcome, Zero
    <3>5. calls'[b] = IF failed[b] THEN [success |-> 0, error |-> 1] ELSE [success |-> 1, error |-> 0]
      BY <1>9, <3>3, <3>4, CallCounts, SMTT(30)
    <3>6. QED
      BY <2>1, <2>2, <3>1, <3>2, <3>5 DEF Outcome
  <2>6. QED
    BY <1>1, <2>1, <2>2, <2>4, <2>5 DEF Outcomes, Unshared
<1>10. CASE UNCHANGED vars
  BY <1>1, <1>10 DEF vars, spec, Outcomes, Unshared
<1>11. QED
  BY <1>2, <1>3, <1>4, <1>5, <1>6, <1>7, <1>8, <1>9, <1>10 DEF Next, Progress

\* The client's inductive invariant holds throughout.
LEMMA ClientInvCorrect == Spec => []ClientInv
<1>1. Init => ClientInv
  BY ClientAssumption DEF Init, ClientInv, ClientShape, Ownership, Transfer, Outcomes, Outcome, Unshared, Unsent,
    None, Stage, Zero
<1>2. ClientInv /\ [Next]_vars => ClientInv'
  BY ClientShapeStep, OwnershipStep, TransferStep, OutcomesStep DEF ClientInv
<1>3. QED
  BY <1>1, <1>2, PTL DEF Spec

\* What the coroutine writes is the request as it was when then or as_awaitable
\* was called, however long resolving, connecting and the handshake take.
THEOREM RequestIsFrozen == Spec => []SendsWhatWasStarted
<1>1. ClientInv => SendsWhatWasStarted
  BY DEF ClientInv, Ownership, Transfer, Unshared, SendsWhatWasStarted
<1>2. QED
  BY <1>1, ClientInvCorrect, PTL

\* Exactly the callback that fits the outcome runs, at most once, for every
\* interleaving of the builders, the transfers and the executor.
THEOREM CallbackOnce == Spec => []OneOutcome
<1>1. ASSUME ClientInv PROVE OneOutcome
  <2> SUFFICES ASSUME NEW b \in Builder, Unshared(b)
      PROVE /\ calls[b].success + calls[b].error <= 1
            /\ calls[b].success = 1 => ~failed[b] /\ sent[b] # Unsent
            /\ calls[b].error = 1 => failed[b] /\ onError[b] # None
            /\ pc[b] = "done" /\ kind[b] = "then" /\ ~failed[b] => calls[b].success = 1
            /\ pc[b] = "done" /\ kind[b] = "then" /\ failed[b] /\ onError[b] # None => calls[b].error = 1
    BY DEF OneOutcome, Unshared
  <2>1. calls[b] = Outcome(b)
    BY <1>1 DEF ClientInv, Outcomes
  <2>2. pc[b] = "done" /\ ~failed[b] => sent[b] # Unsent
    BY <1>1 DEF ClientInv, Transfer
  <2>3. QED
    BY <2>1, <2>2 DEF Outcome, Zero
<1>2. QED
  BY <1>1, ClientInvCorrect, PTL

-----------------------------------------------------------------------------
(* The connection pool. *)

\* The least-number principle, from the well-foundedness of < on Nat.
LEMMA NatMin ==
  ASSUME NEW T, T \subseteq Nat, T # {}
  PROVE  \E x \in T : \A y \in T : x <= y
<1>1. IsWellFoundedOn({ss \in Nat \X Nat : ss[1] < ss[2]}, Nat)
  BY NatLessThanWellFounded, Zenon DEF OpToRel
<1>2. PICK x \in T : \A y \in T : <<y, x>> \notin {ss \in Nat \X Nat : ss[1] < ss[2]}
  BY <1>1, WFMin, Zenon
<1>3. ASSUME NEW y \in T PROVE x <= y
  <2>1. <<y, x>> \in Nat \X Nat /\ <<y, x>>[1] = y /\ <<y, x>>[2] = x
    OBVIOUS
  <2>2. ~(y < x)
    BY <1>2, <2>1, Zenon
  <2>3. QED
    BY <2>2
<1>4. QED
  BY <1>3

\* The recursion of Fresh has a solution.
LEMMA KeptExists ==
  ASSUME NEW queue, NEW n \in Nat
  PROVE  \E g : g = [i \in 0 .. n |-> IF i = 0 THEN <<>> ELSE Keep(g[i - 1], queue[i])]
<1> DEFINE Good(m) == \E g : g = [i \in 0 .. m |-> IF i = 0 THEN <<>> ELSE Keep(g[i - 1], queue[i])]
           Bad == {m \in Nat : ~Good(m)}
<1>1. SUFFICES ASSUME Bad # {} PROVE FALSE
  OBVIOUS
<1>2. PICK k \in Bad : \A j \in Bad : k <= j
  BY <1>1, NatMin
<1>3. Good(0)
  <2> DEFINE g == [i \in 0 .. 0 |-> <<>>]
  <2>1. g = [i \in 0 .. 0 |-> IF i = 0 THEN <<>> ELSE Keep(g[i - 1], queue[i])]
    OBVIOUS
  <2>2. QED
    BY <2>1
<1>4. k \in Nat /\ k # 0
  BY <1>3
<1>5. k - 1 \in Nat /\ k - 1 \notin Bad
  <2>1. k - 1 \in Nat /\ ~(k <= k - 1)
    BY <1>4
  <2>2. QED
    BY <1>2, <2>1, Zenon
<1>6. PICK g : g = [i \in 0 .. k - 1 |-> IF i = 0 THEN <<>> ELSE Keep(g[i - 1], queue[i])]
  BY <1>5
<1> DEFINE h == [i \in 0 .. k |-> IF i <= k - 1 THEN g[i] ELSE Keep(g[k - 1], queue[k])]
<1>7. h = [i \in 0 .. k |-> IF i = 0 THEN <<>> ELSE Keep(h[i - 1], queue[i])]
  <2> SUFFICES ASSUME NEW i \in 0 .. k PROVE h[i] = IF i = 0 THEN <<>> ELSE Keep(h[i - 1], queue[i])
    OBVIOUS
  <2>1. QED
    BY <1>4, <1>6
<1>8. QED
  BY <1>7

NoRepeat(q) == \A i, j \in 1 .. Len(q) : q[i] = q[j] => i = j

\* Cleaning a queue leaves some of its connections, none of them twice.
LEMMA FreshKeeps ==
  ASSUME NEW queue \in Seq(Conn), NoRepeat(queue)
  PROVE  /\ Fresh(queue) \in Seq(Conn) /\ NoRepeat(Fresh(queue))
         /\ \A i \in 1 .. Len(Fresh(queue)) : \E j \in 1 .. Len(queue) : Fresh(queue)[i] = queue[j]
<1> DEFINE n == Len(queue)
<1>0. n \in Nat
  OBVIOUS
<1>1. PICK g : /\ g = [i \in 0 .. n |-> IF i = 0 THEN <<>> ELSE Keep(g[i - 1], queue[i])]
               /\ Fresh(queue) = g[n]
  BY <1>0, KeptExists, Zenon DEF Fresh
<1> DEFINE Good(i) == /\ g[i] \in Seq(Conn) /\ NoRepeat(g[i])
                      /\ \A m \in 1 .. Len(g[i]) : \E j \in 1 .. i : g[i][m] = queue[j]
           Bad == {i \in 0 .. n : ~Good(i)}
<1>2. SUFFICES ASSUME Bad # {} PROVE FALSE
  <2>1. n \in 0 .. n
    BY <1>0
  <2>2. Good(n)
    BY <2>1
  <2>3. QED
    BY <1>1, <2>2, Zenon
<1>3. PICK k \in Bad : \A j \in Bad : k <= j
  <2>1. Bad \subseteq Nat
    OBVIOUS
  <2>2. QED
    BY <1>2, <2>1, NatMin, Zenon
<1>4. Good(0)
  <2>1. g[0] = <<>>
    BY <1>0, <1>1
  <2>2. QED
    BY <2>1 DEF NoRepeat
<1>5. k \in 1 .. n /\ k - 1 \in 0 .. n /\ k - 1 \notin Bad
  <2>1. k \in 1 .. n /\ k - 1 \in 0 .. n /\ ~(k <= k - 1)
    BY <1>0, <1>4
  <2>2. QED
    BY <1>3, <2>1, Zenon
<1>6. Good(k - 1)
  BY <1>5
<1>7. g[k] = Keep(g[k - 1], queue[k])
  BY <1>0, <1>1, <1>5
<1>8. queue[k] \in Conn
  BY <1>5
<1>9. Good(k)
  <2>1. CASE g[k] = g[k - 1]
    BY <1>5, <1>6, <2>1
  <2>2. CASE g[k] = Append(g[k - 1], queue[k])
    <3> DEFINE q == g[k - 1]
    <3>1. q \in Seq(Conn) /\ Len(q) \in Nat
      BY <1>6
    <3>2. /\ g[k] \in Seq(Conn) /\ Len(g[k]) = Len(q) + 1 /\ g[k][Len(q) + 1] = queue[k]
          /\ \A m \in 1 .. Len(q) : g[k][m] = q[m]
      BY <1>8, <2>2, <3>1
    <3>3. \A m \in 1 .. Len(q) : q[m] # queue[k]
      BY <1>5, <1>6 DEF NoRepeat
    <3> HIDE DEF q
    <3>4. NoRepeat(q)
      BY <1>6 DEF q
    <3>5. \A m \in 1 .. Len(g[k]) : m \in 1 .. Len(q) \/ m = Len(q) + 1
      BY <3>1, <3>2
    <3>6. NoRepeat(g[k])
      BY <3>2, <3>3, <3>4, <3>5, Zenon DEF NoRepeat
    <3>7. ASSUME NEW m \in 1 .. Len(q) PROVE \E j \in 1 .. k : g[k][m] = queue[j]
      <4>1. PICK j \in 1 .. (k - 1) : q[m] = queue[j]
        BY <1>6 DEF q
      <4>2. j \in 1 .. k /\ g[k][m] = q[m]
        BY <1>5, <3>2
      <4>3. QED
        BY <4>1, <4>2
    <3>8. \A m \in 1 .. Len(g[k]) : \E j \in 1 .. k : g[k][m] = queue[j]
      <4>1. k \in 1 .. k
        BY <1>5
      <4>2. QED
        BY <3>2, <3>5, <3>7, <4>1, Zenon
    <3>9. QED
      BY <3>2, <3>6, <3>8
  <2>3. QED
    BY <1>7, <2>1, <2>2 DEF Keep
<1>10. QED
  BY <1>9

\* OneOwner with the shape of the state, and: what was never opened is nobody's.
PoolInv ==
  /\ DOMAIN pools \subseteq Key /\ \A k \in DOMAIN pools : pools[k] \in Seq(Conn)
  /\ users \in [Conn -> Nat] /\ home \in [Conn -> Key \cup {NoKey}]
  /\ \A c \in Conn : home[c] = NoKey => users[c] = 0
  /\ OneOwner

\* Every operation of the pool keeps it.
LEMMA PoolInvStep == PoolInv /\ [PoolNext]_poolVars => PoolInv'
<1> SUFFICES ASSUME PoolInv, [PoolNext]_poolVars PROVE PoolInv'
  OBVIOUS
<1> USE PoolAssumption DEF NoKey
<1>0. /\ DOMAIN pools \subseteq Key /\ users \in [Conn -> Nat] /\ home \in [Conn -> Key \cup {NoKey}]
      /\ \A k \in DOMAIN pools : /\ pools[k] \in Seq(Conn) /\ NoRepeat(pools[k])
                                 /\ \A i \in 1 .. Len(pools[k]) : users[pools[k][i]] = 0 /\ home[pools[k][i]] = k
      /\ \A c \in Conn : users[c] <= 1 /\ (home[c] = NoKey => users[c] = 0)
  BY DEF PoolInv, OneOwner, NoRepeat
<1>1. ASSUME users' \in [Conn -> Nat], home' \in [Conn -> Key \cup {NoKey}], DOMAIN pools' \subseteq Key,
             \A c \in Conn : users'[c] <= 1 /\ (home'[c] = NoKey => users'[c] = 0),
             \A k \in DOMAIN pools' : /\ pools'[k] \in Seq(Conn) /\ NoRepeat(pools'[k])
                                     /\ \A i \in 1 .. Len(pools'[k]) : users'[pools'[k][i]] = 0 /\ home'[pools'[k][i]] = k
      PROVE  PoolInv'
  <2>1. \A k \in DOMAIN pools' : DOMAIN pools'[k] = 1 .. Len(pools'[k])
    BY <1>1
  <2>2. OneOwner'
    <3> SUFFICES ASSUME NEW c \in Conn, NEW k \in DOMAIN pools', NEW i \in 1 .. Len(pools'[k]), pools'[k][i] = c
        PROVE users'[c] = 0 /\ home'[c] = k /\ \A j \in 1 .. Len(pools'[k]) : pools'[k][j] = c => j = i
      BY <1>1, <2>1 DEF OneOwner
    <3>1. users'[pools'[k][i]] = 0 /\ home'[pools'[k][i]] = k /\ NoRepeat(pools'[k])
      BY <1>1, Zenon
    <3>2. QED
      BY <3>1, Zenon DEF NoRepeat
  <2>3. QED
    BY <1>1, <2>2, Zenon DEF PoolInv
<1>2. ASSUME NEW c \in Conn, NEW k \in Key, Open(c, k) PROVE PoolInv'
  <2>1. pools' = pools /\ users' = [users EXCEPT ![c] = 1] /\ home' = [home EXCEPT ![c] = k] /\ home[c] = NoKey
    BY <1>2 DEF Open
  <2>2. \A j \in DOMAIN pools : \A i \in 1 .. Len(pools[j]) : pools[j][i] # c
    BY <1>0, <2>1
  <2>3. QED
    BY <1>0, <1>1, <2>1, <2>2
<1>3. ASSUME UNCHANGED <<pools, users, home>> PROVE PoolInv'
  BY <1>3 DEF PoolInv, OneOwner
<1>4. ASSUME NEW k \in Key, Acquire(k) PROVE PoolInv'
  <2> DEFINE queue == PoolAt(k)
             open == {i \in DOMAIN queue : queue[i] \in alive}
             first == IF open = {} THEN Len(queue) + 1 ELSE CHOOSE i \in open : \A j \in open : i <= j
             rest == SubSeq(queue, first + 1, Len(queue))
  <2>1. queue \in Seq(Conn) /\ NoRepeat(queue) /\ Len(queue) \in Nat
    BY <1>0 DEF PoolAt, NoRepeat
  <2>2. \A i \in 1 .. Len(queue) : users[queue[i]] = 0 /\ home[queue[i]] = k
    BY <1>0 DEF PoolAt
  <2>3. open \subseteq 1 .. Len(queue)
    BY <2>1
  <2>4. IF open = {} THEN first = Len(queue) + 1 ELSE first \in open
    <3>1. CASE open = {}
      BY <3>1
    <3>2. CASE open # {}
      <4>1. \E x \in open : \A y \in open : x <= y
        <5>1. open \subseteq Nat
          BY <2>1, <2>3
        <5> HIDE DEF open
        <5>2. QED
          BY <3>2, <5>1, NatMin, Zenon
      <4>2. QED
        BY <3>2, <4>1, Zenon
    <3>3. QED
      BY <3>1, <3>2
  <2>5. /\ pools' = SetPool(k, rest) /\ home' = home
        /\ IF open = {} THEN users' = users ELSE users' = [users EXCEPT ![queue[first]] = @ + 1]
    BY <1>4 DEF Acquire
  <2> HIDE DEF queue, open, first
  <2>6. first \in 1 .. Len(queue) + 1
    <3>1. first \in 1 .. Len(queue) \/ first = Len(queue) + 1
      BY <2>3, <2>4
    <3>2. QED
      BY <2>1, <3>1
  <2>7. /\ rest \in Seq(Conn) /\ Len(rest) = (IF first + 1 <= Len(queue) THEN Len(queue) - first ELSE 0)
        /\ \A i \in 1 .. Len(rest) : rest[i] = queue[first + i]
    BY <2>1, <2>6
  <2> HIDE DEF rest
  <2>8. \A i \in 1 .. Len(rest) : first + i \in 1 .. Len(queue) /\ first + i # first
    BY <2>1, <2>6, <2>7
  <2>9. NoRepeat(rest)
    <3> SUFFICES ASSUME NEW i \in 1 .. Len(rest), NEW j \in 1 .. Len(rest), rest[i] = rest[j] PROVE i = j
      BY DEF NoRepeat
    <3>1. first + i = first + j
      BY <2>1, <2>7, <2>8 DEF NoRepeat
    <3>2. QED
      BY <2>6, <2>7, <3>1
  <2>10. DOMAIN pools' = DOMAIN pools \cup {k} /\ pools'[k] = rest /\ \A j \in DOMAIN pools : j # k => pools'[j] = pools[j]
    BY <2>5 DEF SetPool
  <2>11. CASE open = {}
    <3>1. users' = users
      BY <2>5, <2>11
    <3>2. \A i \in 1 .. Len(rest) : users[rest[i]] = 0 /\ home[rest[i]] = k
      BY <2>2, <2>7, <2>8
    <3>3. QED
      BY <1>0, <1>1, <2>5, <2>7, <2>9, <2>10, <3>1, <3>2
  <2>12. CASE open # {}
    <3>1. first \in 1 .. Len(queue) /\ users' = [users EXCEPT ![queue[first]] = @ + 1]
      BY <2>3, <2>4, <2>5, <2>12
    <3>2. queue[first] \in Conn /\ users[queue[first]] = 0 /\ home[queue[first]] = k
      BY <2>1, <2>2, <3>1
    <3>3. users' \in [Conn -> Nat] /\ users'[queue[first]] = 1 /\ \A c \in Conn : c # queue[first] => users'[c] = users[c]
      BY <1>0, <3>1, <3>2
    <3>4. \A i \in 1 .. Len(rest) : rest[i] # queue[first] /\ rest[i] \in Conn /\ users[rest[i]] = 0 /\ home[rest[i]] = k
      <4> SUFFICES ASSUME NEW i \in 1 .. Len(rest)
          PROVE rest[i] # queue[first] /\ rest[i] \in Conn /\ users[rest[i]] = 0 /\ home[rest[i]] = k
        OBVIOUS
      <4>1. rest[i] = queue[first + i] /\ first + i \in 1 .. Len(queue) /\ first + i # first
        BY <2>7, <2>8, Zenon
      <4>2. QED
        BY <2>1, <2>2, <3>1, <4>1, ElementOfSeq, Zenon DEF NoRepeat
    <3>5. \A j \in DOMAIN pools : j # k => \A i \in 1 .. Len(pools[j]) : pools[j][i] # queue[first]
      BY <1>0, <3>2
    <3>6. \A c \in Conn : users'[c] <= 1 /\ (home'[c] = NoKey => users'[c] = 0)
      BY <1>0, <2>5, <3>2, <3>3
    <3>7. ASSUME NEW j \in DOMAIN pools'
          PROVE  /\ pools'[j] \in Seq(Conn) /\ NoRepeat(pools'[j])
                 /\ \A i \in 1 .. Len(pools'[j]) : users'[pools'[j][i]] = 0 /\ home'[pools'[j][i]] = j
      <4>1. CASE j = k
        BY <2>5, <2>7, <2>9, <2>10, <3>3, <3>4, <4>1
      <4>2. CASE j # k
        <5>1. j \in DOMAIN pools /\ pools'[j] = pools[j] /\ home' = home
          BY <2>5, <2>10, <4>2
        <5>2. \A i \in 1 .. Len(pools[j]) : pools[j][i] \in Conn /\ pools[j][i] # queue[first]
          BY <1>0, <3>5, <4>2, <5>1
        <5>3. QED
          BY <1>0, <3>3, <5>1, <5>2
      <4>3. QED
        BY <4>1, <4>2
    <3>8. QED
      BY <1>0, <1>1, <2>5, <2>10, <3>3, <3>6, <3>7
  <2>13. QED
    BY <2>11, <2>12
<1>5. ASSUME NEW c \in Conn, Release(c) PROVE PoolInv'
  <2> DEFINE k == home[c]
             keep == c \in alive /\ total < MaxSize
             queue == PoolAt(k)
             new == IF keep THEN Append(queue, c) ELSE queue
  <2>1. users[c] = 1 /\ users' = [users EXCEPT ![c] = @ - 1] /\ home' = home /\ pools' = SetPool(k, new)
    BY <1>0, <1>5 DEF Release
  <2>2. k \in Key
    BY <1>0, <2>1
  <2>3. \A j \in DOMAIN pools : \A i \in 1 .. Len(pools[j]) : pools[j][i] \in Conn /\ pools[j][i] # c
    BY <1>0, <2>1
  <2>4. queue \in Seq(Conn) /\ NoRepeat(queue) /\ Len(queue) \in Nat
    BY <1>0 DEF PoolAt, NoRepeat
  <2>5. \A i \in 1 .. Len(queue) : queue[i] \in Conn /\ queue[i] # c /\ users[queue[i]] = 0 /\ home[queue[i]] = k
    BY <1>0, <2>3 DEF PoolAt
  <2>6. users' \in [Conn -> Nat] /\ users'[c] = 0 /\ \A d \in Conn : d # c => users'[d] = users[d]
    BY <1>0, <2>1
  <2>7. DOMAIN pools' = DOMAIN pools \cup {k} /\ pools'[k] = new /\ \A j \in DOMAIN pools : j # k => pools'[j] = pools[j]
    BY <2>1 DEF SetPool
  <2> HIDE DEF queue, keep
  <2>8. /\ new \in Seq(Conn) /\ NoRepeat(new)
        /\ \A i \in 1 .. Len(new) : new[i] \in Conn /\ (new[i] = c \/ users[new[i]] = 0) /\ home[new[i]] = k
    <3>1. CASE keep
      <4>1. /\ new \in Seq(Conn) /\ Len(new) = Len(queue) + 1 /\ new[Len(queue) + 1] = c
            /\ \A i \in 1 .. Len(queue) : new[i] = queue[i]
        BY <2>4, <3>1
      <4>2. \A i \in 1 .. Len(new) : i \in 1 .. Len(queue) \/ i = Len(queue) + 1
        BY <2>4, <4>1
      <4> HIDE DEF new
      <4>3. NoRepeat(new)
        <5>1. \A i \in 1 .. Len(queue) : new[i] # c
          BY <2>5, <4>1
        <5>2. QED
          BY <2>4, <4>1, <4>2, <5>1, Zenon DEF NoRepeat
      <4>4. QED
        BY <2>5, <4>1, <4>2, <4>3
    <3>2. CASE ~keep
      BY <2>4, <2>5, <3>2
    <3>3. QED
      BY <3>1, <3>2
  <2> HIDE DEF new
  <2>9. ASSUME NEW j \in DOMAIN pools'
        PROVE  /\ pools'[j] \in Seq(Conn) /\ NoRepeat(pools'[j])
               /\ \A i \in 1 .. Len(pools'[j]) : users'[pools'[j][i]] = 0 /\ home'[pools'[j][i]] = j
    <3>1. CASE j = k
      BY <2>1, <2>6, <2>7, <2>8, <3>1
    <3>2. CASE j # k
      BY <1>0, <2>1, <2>3, <2>6, <2>7, <3>2
    <3>3. QED
      BY <3>1, <3>2
  <2>10. QED
    BY <1>0, <1>1, <2>1, <2>2, <2>6, <2>7, <2>9
<1>6. CASE CleanupExpired
  <2>1. UNCHANGED <<users, home>> /\ DOMAIN pools' \subseteq DOMAIN pools /\ \A k \in DOMAIN pools' : pools'[k] = Fresh(pools[k])
    BY <1>6 DEF CleanupExpired
  <2>2. ASSUME NEW k \in DOMAIN pools'
        PROVE  /\ pools'[k] \in Seq(Conn) /\ NoRepeat(pools'[k])
               /\ \A i \in 1 .. Len(pools'[k]) : users'[pools'[k][i]] = 0 /\ home'[pools'[k][i]] = k
    <3>1. k \in DOMAIN pools /\ pools[k] \in Seq(Conn) /\ NoRepeat(pools[k])
      BY <1>0, <2>1
    <3>2. /\ Fresh(pools[k]) \in Seq(Conn) /\ NoRepeat(Fresh(pools[k]))
          /\ \A i \in 1 .. Len(Fresh(pools[k])) : \E j \in 1 .. Len(pools[k]) : Fresh(pools[k])[i] = pools[k][j]
      BY <3>1, FreshKeeps
    <3>3. \A j \in 1 .. Len(pools[k]) : users[pools[k][j]] = 0 /\ home[pools[k][j]] = k
      BY <1>0, <3>1, Zenon
    <3>4. pools'[k] = Fresh(pools[k]) /\ users' = users /\ home' = home
      BY <2>1
    <3>5. \A i \in 1 .. Len(Fresh(pools[k])) : users[Fresh(pools[k])[i]] = 0 /\ home[Fresh(pools[k])[i]] = k
      <4> SUFFICES ASSUME NEW i \in 1 .. Len(Fresh(pools[k]))
          PROVE users[Fresh(pools[k])[i]] = 0 /\ home[Fresh(pools[k])[i]] = k
        OBVIOUS
      <4>1. PICK j \in 1 .. Len(pools[k]) : Fresh(pools[k])[i] = pools[k][j]
        BY <3>2, Zenon
      <4>2. QED
        BY <3>3, <4>1
    <3>6. QED
      BY <3>2, <3>4, <3>5
  <2>3. QED
    BY <1>0, <1>1, <2>1, <2>2
<1>7. CASE ClearPool
  <2>1. UNCHANGED <<users, home>> /\ DOMAIN pools' = {}
    BY <1>7 DEF ClearPool
  <2>2. QED
    BY <1>0, <1>1, <2>1
<1>8. ASSUME NEW c \in Conn, Close(c) \/ GrowStale(c) PROVE PoolInv'
  BY <1>3, <1>8 DEF Close, GrowStale
<1>9. CASE UNCHANGED poolVars
  BY <1>3, <1>9 DEF poolVars
<1>10. QED
  BY <1>2, <1>4, <1>5, <1>6, <1>7, <1>8, <1>9 DEF PoolNext

\* No connection is handed to two users or queued twice, whatever acquire, release,
\* the cleanup timer and clear do in between, for every size of the pool and
\* whether or not the counters have wrapped around.
THEOREM ConnectionHasOneOwner == PoolSpec => []OneOwner
<1>1. PoolInit => PoolInv
  BY DEF PoolInit, PoolInv, OneOwner
<1>2. QED
  BY <1>1, PoolInvStep, PTL DEF PoolSpec, PoolInv
=============================================================================
