------------------------- MODULE ProxyPipelineProofs -------------------------
(* Proofs about ProxyPipeline, for any set of requests and any number of    *)
(* attempts, of chunks and of provider statuses.                            *)
EXTENDS ProxyPipeline, TLAPS

All429(s) == \A i \in 1..Len(s) : s[i] = 429

\* What doUpstream leaves behind when it returns a response.
Final(r) ==
    /\ Len(seen[r]) = retries[r] + 1
    /\ \A i \in 1..retries[r] : seen[r][i] = 429
    /\ sent[r] = retries[r] + 1
    /\ Status(r) = 429 => sent[r] = maxAttempts

\* doUpstream's counters against the history of the provider's answers, at each
\* place of the retry loop and after it.
AttemptsOf(r) ==
    /\ pc[r] \in {"new", "hooks"} =>
          attempt[r] = 0 /\ retries[r] = 0 /\ sent[r] = 0 /\ seen[r] = << >>
    /\ pc[r] = "build" =>
          /\ Len(seen[r]) = attempt[r] /\ All429(seen[r])
          /\ retries[r] = attempt[r] /\ sent[r] = attempt[r]
    /\ pc[r] = "sent" =>
          /\ Len(seen[r]) = attempt[r] /\ All429(seen[r])
          /\ retries[r] = attempt[r] /\ sent[r] = attempt[r] + 1
    /\ pc[r] = "backoff" =>
          /\ Len(seen[r]) = attempt[r] + 1 /\ All429(seen[r])
          /\ retries[r] = attempt[r] + 1 /\ sent[r] = attempt[r] + 1
          /\ attempt[r] < maxAttempts - 1
    /\ pc[r] \in {"response", "reply"} => Final(r)

Attempts == \A r \in Requests : AttemptsOf(r)

\* Before a handler is done only a stream has begun to answer.
AnswerOf(r) ==
    answer[r] # NoStatus =>
        \/ pc[r] = "done"
        \/ pc[r] = "response" /\ Streams(r) /\ answer[r] = 200

Answers == \A r \in Requests : AnswerOf(r)

\* Rows are spawned when the response is complete, not before.
RowsAreLate == \A row \in Spawned : pc[row.id] \in {"reply", "done"}

\* RowIsFaithful is not inductive by itself: a row copies retries, which is the
\* length of the history only because of Attempts; and the history stays as it is
\* only because a request with a row is past its attempts.
IInv ==
    /\ TypeOK
    /\ Attempts
    /\ Answers
    /\ RowsAreLate
    /\ RowIsFaithful
    /\ PostHooksFollowSuccess

\* No request has arrived and nothing is logged.
LEMMA InitIInv == Init => IInv
<1> SUFFICES ASSUME Init PROVE IInv
  OBVIOUS
<1> USE AttemptsAssumption, ChunksAssumption, StatusAssumption DEF Init
<1>1. TypeOK
  <2>1. 0 \in 0..(maxAttempts - 1) /\ 0 \in 0..maxAttempts /\ 0 \in 0..MaxChunks
    OBVIOUS
  <2>2. "new" \in Places /\ << >> \in Seq(UpstreamStatuses)
    BY DEF Places
  <2>3. QED
    BY <2>1, <2>2 DEF TypeOK
<1>2. Attempts /\ Answers
  BY DEF Attempts, AttemptsOf, All429, Answers, AnswerOf, NoStatus
<1>3. Spawned = {}
  BY DEF Spawned
<1>4. RowsAreLate /\ RowIsFaithful /\ PostHooksFollowSuccess
  BY <1>3 DEF RowsAreLate, RowIsFaithful, PostHooksFollowSuccess
<1>5. QED
  BY <1>1, <1>2, <1>4 DEF IInv

\* The status of a complete response is one a provider can answer.
LEMMA StatusType ==
  ASSUME TypeOK, Attempts, NEW r \in Requests, pc[r] \in {"response", "reply"}
  PROVE  Status(r) \in UpstreamStatuses
BY DEF TypeOK, Attempts, AttemptsOf, Final, Status

\* The row a handler logs is well formed.
LEMMA RowType ==
  ASSUME TypeOK, Attempts, NEW r \in Requests, pc[r] = "response",
         SpawnLog(r, Status(r))
  PROVE  logging' \subseteq Rows
<1>1. Status(r) \in UpstreamStatuses
  BY StatusType
<1>2. QED
  BY <1>1 DEF TypeOK, SpawnLog, Rows

\* Every step keeps the variables in their types; the counters stay below
\* maxAttempts because the last attempt never backs off.
LEMMA TypeStep == ASSUME TypeOK, Attempts, [Next]_vars PROVE TypeOK'
<1>a. /\ maxAttempts \in Nat /\ maxAttempts > 0
      /\ \A r \in Requests :
            /\ pc[r] = "build" => sent[r] = attempt[r]
            /\ pc[r] = "sent" => retries[r] = attempt[r]
            /\ pc[r] = "backoff" => attempt[r] < maxAttempts - 1
  BY AttemptsAssumption DEF Attempts, AttemptsOf
<1>b. 404 \in ProxyStatuses /\ 401 \in ProxyStatuses /\ 400 \in ProxyStatuses
  BY DEF ProxyStatuses
<1>c. 403 \in ProxyStatuses /\ 500 \in ProxyStatuses /\ 502 \in ProxyStatuses
  BY DEF ProxyStatuses
<1>d. 200 \in UpstreamStatuses
  BY DEF UpstreamStatuses
<1>e. /\ "hooks" \in Places /\ "build" \in Places /\ "sent" \in Places
      /\ "backoff" \in Places /\ "response" \in Places /\ "reply" \in Places
      /\ "done" \in Places
  BY DEF Places
<1> USE DEF TypeOK, Goto, Answer, reqVars, logVars, postVars
<1>1. ASSUME NEW r \in Requests, Admit(r) PROVE TypeOK'
  <2>1. CASE Goto(r, "new", "hooks") /\ UNCHANGED answer
    BY <1>1, <2>1, <1>b, <1>e DEF Admit
  <2>2. ASSUME NEW status \in {404, 401, 400}, Answer(r, "new", status)
        PROVE  TypeOK'
    BY <1>1, <2>2, <1>b, <1>e, SMTT(20) DEF Admit
  <2>3. QED
    <3> HIDE DEF TypeOK, Goto, Answer
    <3>1. QED
      BY <1>1, <2>1, <2>2 DEF Admit
<1>2. ASSUME NEW r \in Requests, PreRequestHooks(r) PROVE TypeOK'
  <2>1. CASE Answer(r, "hooks", 403) /\ UNCHANGED stream
    BY <1>2, <2>1, <1>c, <1>e, SMTT(20) DEF PreRequestHooks
  <2>2. ASSUME NEW s \in BOOLEAN, stream' = [stream EXCEPT ![r] = s],
               Goto(r, "hooks", "build"), UNCHANGED answer
        PROVE  TypeOK'
    <3>1. stream' \in [Requests -> BOOLEAN]
      BY <2>2
    <3>2. QED
      BY <1>2, <2>2, <3>1, <1>c, <1>e DEF PreRequestHooks
  <2>3. QED
    BY <1>2, <2>1, <2>2, <1>c, <1>e DEF PreRequestHooks
<1>3. ASSUME NEW r \in Requests, BuildFails(r) PROVE TypeOK'
  BY <1>3, <1>c, <1>e DEF BuildFails
<1>4. ASSUME NEW r \in Requests, Send(r) PROVE TypeOK'
  <2>1. CASE Answer(r, "build", 502) /\ UNCHANGED sent
    BY <1>4, <2>1, <1>a, <1>c, <1>e, SMTT(20) DEF Send
  <2>2. CASE /\ Goto(r, "build", "sent")
             /\ sent' = [sent EXCEPT ![r] = @ + 1]
             /\ UNCHANGED answer
    <3>1. sent' \in [Requests -> 0..maxAttempts]
      BY <1>a, <2>2
    <3>2. QED
      BY <1>4, <2>2, <3>1, <1>a, <1>c, <1>e DEF Send
  <2>3. QED
    BY <1>4, <2>1, <2>2, <1>a, <1>c, <1>e DEF Send
<1>5. ASSUME NEW r \in Requests, TransportError(r) PROVE TypeOK'
  BY <1>5, <1>c, <1>e, SMTT(20) DEF TransportError
<1>6. ASSUME NEW r \in Requests, Respond(r) PROVE TypeOK'
  <2>1. PICK status \in UpstreamStatuses :
           /\ seen' = [seen EXCEPT ![r] = Append(@, status)]
           /\ \/ Goto(r, "sent", "response") /\ UNCHANGED retries
              \/ /\ ~LastAttempt(r)
                 /\ Goto(r, "sent", "backoff")
                 /\ retries' = [retries EXCEPT ![r] = @ + 1]
    <3> HIDE DEF TypeOK, Goto, Answer
    <3>1. QED
      BY <1>6 DEF Respond
  <2>2. seen' \in [Requests -> Seq(UpstreamStatuses)]
    BY <2>1
  <2>3. pc' \in [Requests -> Places]
    BY <2>1, <1>e
  <2>4. retries' \in [Requests -> 0..(maxAttempts - 1)]
    <3>1. ~LastAttempt(r) => attempt[r] + 1 \in 0..(maxAttempts - 1)
      BY <1>a DEF LastAttempt
    <3>2. pc[r] = "sent" => retries[r] = attempt[r]
      BY <1>a
    <3>3. CASE UNCHANGED retries
      BY <3>3
    <3>4. CASE /\ ~LastAttempt(r) /\ pc[r] = "sent"
               /\ retries' = [retries EXCEPT ![r] = @ + 1]
      BY <3>1, <3>2, <3>4
    <3>5. QED
      BY <2>1, <3>3, <3>4
  <2>5. QED
    BY <1>6, <2>2, <2>3, <2>4 DEF Respond
<1>7. ASSUME NEW r \in Requests, Retry(r) PROVE TypeOK'
  BY <1>7, <1>a, <1>e, SMTT(20) DEF Retry
<1>8. ASSUME NEW r \in Requests, AbandonBackoff(r) PROVE TypeOK'
  BY <1>8, <1>c, <1>e, SMTT(20) DEF AbandonBackoff
<1>9. ASSUME NEW r \in Requests, BodyFails(r) PROVE TypeOK'
  <2>1. CASE Answer(r, "response", 502)
    BY <1>9, <2>1, <1>c, <1>e, SMTT(20) DEF BodyFails
  <2>2. CASE Answer(r, "response", 500)
    BY <1>9, <2>2, <1>c, <1>e DEF BodyFails
  <2>3. QED
    BY <1>9, <2>1, <2>2, <1>c, <1>e DEF BodyFails
<1>10. ASSUME NEW r \in Requests, LogResponse(r) PROVE TypeOK'
  <2>1. logging' \subseteq Rows
    BY <1>10, RowType, <1>e DEF LogResponse
  <2>2. post' \in [Requests -> {"none", "spawned", "run"}]
    BY <1>10, <1>e DEF LogResponse
  <2>3. QED
    BY <1>10, <2>1, <2>2, <1>e DEF LogResponse
<1>11. ASSUME NEW r \in Requests, Reply(r) PROVE TypeOK'
  BY <1>11, StatusType, <1>e DEF Reply
<1>12. ASSUME NEW r \in Requests, StreamChunk(r) PROVE TypeOK'
  BY <1>12, ChunksAssumption, <1>d DEF StreamChunk
<1>13. ASSUME NEW r \in Requests, StreamEnd(r) PROVE TypeOK'
  <2>1. logging' \subseteq Rows
    BY <1>13, RowType, <1>d, <1>e DEF StreamEnd
  <2>2. post' \in [Requests -> {"none", "spawned", "run"}]
    BY <1>13, <1>d, <1>e DEF StreamEnd
  <2>3. QED
    BY <1>13, <2>1, <2>2, <1>d, <1>e DEF StreamEnd
<1>14. ASSUME NEW r \in Requests, PostRequestHook(r) PROVE TypeOK'
  BY <1>14 DEF PostRequestHook
<1>15. ASSUME NEW r \in Requests, Disconnect(r) PROVE TypeOK'
  BY <1>15 DEF Disconnect
<1>16. ASSUME NEW row \in logging, LogRequest(row) PROVE TypeOK'
  BY <1>16 DEF LogRequest
<1>17. CASE Signal
  BY <1>17 DEF Signal
<1>18. CASE Exit
  BY <1>18 DEF Exit
<1>19. CASE UNCHANGED vars
  BY <1>19 DEF vars
<1>20. QED
  BY <1>1, <1>2, <1>3, <1>4, <1>5, <1>6, <1>7, <1>8, <1>9, <1>10, <1>11,
     <1>12, <1>13, <1>14, <1>15, <1>16, <1>17, <1>18, <1>19
  DEF Next, RequestStep

\* The counters of doUpstream follow the history through every step.
LEMMA AttemptsStep == ASSUME TypeOK, Attempts, [Next]_vars PROVE Attempts'
<1> SUFFICES ASSUME NEW q \in Requests PROVE AttemptsOf(q)'
  BY DEF Attempts
<1>a. /\ pc \in [Requests -> Places] /\ seen \in [Requests -> Seq(UpstreamStatuses)]
      /\ attempt \in [Requests -> Nat] /\ retries \in [Requests -> Nat]
      /\ sent \in [Requests -> Nat] /\ AttemptsOf(q)
  BY DEF TypeOK, Attempts
<1> USE <1>a DEF AttemptsOf, Final, Status, Goto, Answer, reqVars, logVars, postVars
<1>1. ASSUME NEW r \in Requests, Admit(r) PROVE AttemptsOf(q)'
  BY <1>1 DEF Admit
<1>2. ASSUME NEW r \in Requests, PreRequestHooks(r) PROVE AttemptsOf(q)'
  <2>1. /\ pc[r] = "hooks"
        /\ \/ pc' = [pc EXCEPT ![r] = "done"]
           \/ pc' = [pc EXCEPT ![r] = "build"]
        /\ UNCHANGED <<attempt, retries, seen, sent>>
    <3> HIDE DEF AttemptsOf
    <3>1. QED
      BY <1>2 DEF PreRequestHooks
  <2>2. QED
    BY <2>1 DEF All429
<1>3. ASSUME NEW r \in Requests, BuildFails(r) PROVE AttemptsOf(q)'
  BY <1>3 DEF BuildFails
<1>4. ASSUME NEW r \in Requests, Send(r) PROVE AttemptsOf(q)'
  BY <1>4 DEF Send
<1>5. ASSUME NEW r \in Requests, TransportError(r) PROVE AttemptsOf(q)'
  BY <1>5 DEF TransportError
<1>6. ASSUME NEW r \in Requests, Respond(r) PROVE AttemptsOf(q)'
  <2>1. PICK status \in UpstreamStatuses :
           /\ seen' = [seen EXCEPT ![r] = Append(@, status)]
           /\ pc[r] = "sent"
           /\ \/ /\ status # 429 \/ LastAttempt(r)
                 /\ pc' = [pc EXCEPT ![r] = "response"]
                 /\ UNCHANGED retries
              \/ /\ status = 429 /\ ~LastAttempt(r)
                 /\ pc' = [pc EXCEPT ![r] = "backoff"]
                 /\ retries' = [retries EXCEPT ![r] = @ + 1]
           /\ UNCHANGED <<attempt, sent>>
    <3> HIDE DEF AttemptsOf
    <3>1. QED
      BY <1>6 DEF Respond
  <2>2. CASE q # r
    BY <2>1, <2>2
  <2>3. CASE q = r
    <3>1. /\ seen'[q] = Append(seen[q], status)
          /\ Len(seen'[q]) = Len(seen[q]) + 1
          /\ seen'[q][Len(seen[q]) + 1] = status
          /\ \A i \in 1..Len(seen[q]) : seen'[q][i] = seen[q][i]
      BY <2>1, <2>3
    <3>2. attempt[q] \in 0..(maxAttempts - 1) /\ maxAttempts \in Nat
      BY AttemptsAssumption DEF TypeOK
    <3>3. QED
      BY <2>1, <2>3, <3>1, <3>2 DEF All429, LastAttempt
  <2>4. QED
    BY <2>2, <2>3
<1>7. ASSUME NEW r \in Requests, Retry(r) PROVE AttemptsOf(q)'
  BY <1>7 DEF Retry
<1>8. ASSUME NEW r \in Requests, AbandonBackoff(r) PROVE AttemptsOf(q)'
  BY <1>8 DEF AbandonBackoff
<1>9. ASSUME NEW r \in Requests, BodyFails(r) PROVE AttemptsOf(q)'
  BY <1>9 DEF BodyFails
<1>10. ASSUME NEW r \in Requests, LogResponse(r) PROVE AttemptsOf(q)'
  BY <1>10 DEF LogResponse
<1>11. ASSUME NEW r \in Requests, Reply(r) PROVE AttemptsOf(q)'
  BY <1>11 DEF Reply
<1>12. ASSUME NEW r \in Requests, StreamChunk(r) PROVE AttemptsOf(q)'
  BY <1>12 DEF StreamChunk
<1>13. ASSUME NEW r \in Requests, StreamEnd(r) PROVE AttemptsOf(q)'
  BY <1>13 DEF StreamEnd
<1>14. ASSUME NEW r \in Requests, PostRequestHook(r) PROVE AttemptsOf(q)'
  BY <1>14 DEF PostRequestHook
<1>15. ASSUME NEW r \in Requests, Disconnect(r) PROVE AttemptsOf(q)'
  BY <1>15 DEF Disconnect
<1>16. ASSUME NEW row \in logging, LogRequest(row) PROVE AttemptsOf(q)'
  BY <1>16 DEF LogRequest
<1>17. CASE Signal
  BY <1>17 DEF Signal
<1>18. CASE Exit
  BY <1>18 DEF Exit
<1>19. CASE UNCHANGED vars
  BY <1>19 DEF vars
<1>20. QED
  <2> HIDE DEF reqVars, logVars, postVars
  <2>1. QED
    BY <1>1, <1>2, <1>3, <1>4, <1>5, <1>6, <1>7, <1>8, <1>9, <1>10, <1>11,
     <1>12, <1>13, <1>14, <1>15, <1>16, <1>17, <1>18, <1>19
     DEF Next, RequestStep

\* An answer is written at the end, or by the first chunk of a stream.
LEMMA AnswersStep == ASSUME TypeOK, Answers, [Next]_vars PROVE Answers'
<1> SUFFICES ASSUME NEW q \in Requests PROVE AnswerOf(q)'
  BY DEF Answers
<1>a. /\ pc \in [Requests -> Places] /\ seen \in [Requests -> Seq(UpstreamStatuses)]
      /\ sent \in [Requests -> Nat] /\ chunks \in [Requests -> Nat]
      /\ answer \in [Requests -> {NoStatus} \cup ProxyStatuses \cup UpstreamStatuses]
      /\ stream \in [Requests -> BOOLEAN]
      /\ post \in [Requests -> {"none", "spawned", "run"}]
  BY DEF TypeOK
<1>b. AnswerOf(q)
  BY DEF Answers
<1> USE <1>a, <1>b
    DEF AnswerOf, Streams, Status, Goto, Answer, reqVars, logVars, postVars
<1>1. ASSUME NEW r \in Requests, Admit(r) PROVE AnswerOf(q)'
  BY <1>1 DEF Admit
<1>2. ASSUME NEW r \in Requests, PreRequestHooks(r) PROVE AnswerOf(q)'
  BY <1>2 DEF PreRequestHooks
<1>3. ASSUME NEW r \in Requests, BuildFails(r) PROVE AnswerOf(q)'
  BY <1>3 DEF BuildFails
<1>4. ASSUME NEW r \in Requests, Send(r) PROVE AnswerOf(q)'
  BY <1>4 DEF Send
<1>5. ASSUME NEW r \in Requests, TransportError(r) PROVE AnswerOf(q)'
  BY <1>5 DEF TransportError
<1>6. ASSUME NEW r \in Requests, Respond(r) PROVE AnswerOf(q)'
  BY <1>6 DEF Respond
<1>7. ASSUME NEW r \in Requests, Retry(r) PROVE AnswerOf(q)'
  BY <1>7 DEF Retry
<1>8. ASSUME NEW r \in Requests, AbandonBackoff(r) PROVE AnswerOf(q)'
  BY <1>8 DEF AbandonBackoff
<1>9. ASSUME NEW r \in Requests, BodyFails(r) PROVE AnswerOf(q)'
  BY <1>9 DEF BodyFails
<1>10. ASSUME NEW r \in Requests, LogResponse(r) PROVE AnswerOf(q)'
  BY <1>10 DEF LogResponse
<1>11. ASSUME NEW r \in Requests, Reply(r) PROVE AnswerOf(q)'
  BY <1>11 DEF Reply
<1>12. ASSUME NEW r \in Requests, StreamChunk(r) PROVE AnswerOf(q)'
  BY <1>12 DEF StreamChunk
<1>13. ASSUME NEW r \in Requests, StreamEnd(r) PROVE AnswerOf(q)'
  BY <1>13 DEF StreamEnd
<1>14. ASSUME NEW r \in Requests, PostRequestHook(r) PROVE AnswerOf(q)'
  BY <1>14 DEF PostRequestHook
<1>15. ASSUME NEW r \in Requests, Disconnect(r) PROVE AnswerOf(q)'
  BY <1>15 DEF Disconnect
<1>16. ASSUME NEW row \in logging, LogRequest(row) PROVE AnswerOf(q)'
  BY <1>16 DEF LogRequest
<1>17. CASE Signal
  BY <1>17 DEF Signal
<1>18. CASE Exit
  BY <1>18 DEF Exit
<1>19. CASE UNCHANGED vars
  BY <1>19 DEF vars
<1>20. QED
  <2> HIDE DEF reqVars, logVars, postVars
  <2>1. QED
    BY <1>1, <1>2, <1>3, <1>4, <1>5, <1>6, <1>7, <1>8, <1>9, <1>10, <1>11,
     <1>12, <1>13, <1>14, <1>15, <1>16, <1>17, <1>18, <1>19
     DEF Next, RequestStep

\* What a later step can still do to a request whose response is complete.
SettledNext(r) ==
    /\ pc'[r] \in {"reply", "done"}
    /\ pc[r] = "done" => answer'[r] = answer[r]
    /\ answer'[r] \in {answer[r], Status(r)}
    /\ seen'[r] = seen[r] /\ sent'[r] = sent[r] /\ chunks'[r] = chunks[r]
    /\ (post'[r] = "none") <=> (post[r] = "none")

\* Once the row of a request is spawned, its attempts are over.
LEMMA Settled ==
  ASSUME TypeOK, [Next]_vars, NEW q \in Requests, pc[q] \in {"reply", "done"}
  PROVE  SettledNext(q)
<1>a. /\ pc \in [Requests -> Places] /\ seen \in [Requests -> Seq(UpstreamStatuses)]
      /\ sent \in [Requests -> Nat] /\ chunks \in [Requests -> Nat]
      /\ answer \in [Requests -> {NoStatus} \cup ProxyStatuses \cup UpstreamStatuses]
      /\ stream \in [Requests -> BOOLEAN]
      /\ post \in [Requests -> {"none", "spawned", "run"}]
  BY DEF TypeOK
<1> USE <1>a DEF SettledNext, Goto, Answer, reqVars, logVars, postVars
<1>1. ASSUME NEW r \in Requests, Admit(r) PROVE SettledNext(q)
  BY <1>1 DEF Admit
<1>2. ASSUME NEW r \in Requests, PreRequestHooks(r) PROVE SettledNext(q)
  BY <1>2 DEF PreRequestHooks
<1>3. ASSUME NEW r \in Requests, BuildFails(r) PROVE SettledNext(q)
  BY <1>3 DEF BuildFails
<1>4. ASSUME NEW r \in Requests, Send(r) PROVE SettledNext(q)
  BY <1>4 DEF Send
<1>5. ASSUME NEW r \in Requests, TransportError(r) PROVE SettledNext(q)
  BY <1>5 DEF TransportError
<1>6. ASSUME NEW r \in Requests, Respond(r) PROVE SettledNext(q)
  BY <1>6 DEF Respond
<1>7. ASSUME NEW r \in Requests, Retry(r) PROVE SettledNext(q)
  BY <1>7 DEF Retry
<1>8. ASSUME NEW r \in Requests, AbandonBackoff(r) PROVE SettledNext(q)
  BY <1>8 DEF AbandonBackoff
<1>9. ASSUME NEW r \in Requests, BodyFails(r) PROVE SettledNext(q)
  BY <1>9 DEF BodyFails
<1>10. ASSUME NEW r \in Requests, LogResponse(r) PROVE SettledNext(q)
  BY <1>10 DEF LogResponse
<1>11. ASSUME NEW r \in Requests, Reply(r) PROVE SettledNext(q)
  BY <1>11 DEF Reply
<1>12. ASSUME NEW r \in Requests, StreamChunk(r) PROVE SettledNext(q)
  BY <1>12 DEF StreamChunk
<1>13. ASSUME NEW r \in Requests, StreamEnd(r) PROVE SettledNext(q)
  BY <1>13 DEF StreamEnd
<1>14. ASSUME NEW r \in Requests, PostRequestHook(r) PROVE SettledNext(q)
  BY <1>14 DEF PostRequestHook
<1>15. ASSUME NEW r \in Requests, Disconnect(r) PROVE SettledNext(q)
  BY <1>15 DEF Disconnect
<1>16. ASSUME NEW row \in logging, LogRequest(row) PROVE SettledNext(q)
  BY <1>16 DEF LogRequest
<1>17. CASE Signal
  BY <1>17 DEF Signal
<1>18. CASE Exit
  BY <1>18 DEF Exit
<1>19. CASE UNCHANGED vars
  BY <1>19 DEF vars
<1>20. QED
  <2> HIDE DEF reqVars, logVars, postVars
  <2>1. QED
    BY <1>1, <1>2, <1>3, <1>4, <1>5, <1>6, <1>7, <1>8, <1>9, <1>10, <1>11,
     <1>12, <1>13, <1>14, <1>15, <1>16, <1>17, <1>18, <1>19
     DEF Next, RequestStep

\* The row a handler writes for r.
RowOf(r) ==
    [id |-> r, status |-> Status(r), retries |-> retries[r], chunks |-> chunks[r]]

\* A step either spawns no row and starts no post hook ...
SpawnsNothing ==
    /\ Spawned' = Spawned
    /\ \A q \in Requests : (post'[q] = "none") <=> (post[q] = "none")

\* ... or it is the end of a response, which spawns one.
SpawnsFor(r) ==
    /\ pc[r] = "response" /\ pc'[r] \in {"reply", "done"}
    /\ Spawned' = Spawned \cup {RowOf(r)}
    /\ UNCHANGED <<seen, sent, chunks>>
    /\ answer'[r] = answer[r] \/ (Status(r) = 200 /\ answer'[r] = 200)
    /\ (post'[r] = "none") <=> (post[r] = "none" /\ Status(r) # 200)
    /\ \A q \in Requests : q # r => post'[q] = post[q]

\* Rows and post hooks come into being in LogResponse and StreamEnd only.
LEMMA Spawning ==
  ASSUME TypeOK, [Next]_vars
  PROVE  SpawnsNothing \/ \E r \in Requests : SpawnsFor(r)
<1>a. /\ post \in [Requests -> {"none", "spawned", "run"}]
      /\ pc \in [Requests -> Places]
      /\ answer \in [Requests -> {NoStatus} \cup ProxyStatuses \cup UpstreamStatuses]
  BY DEF TypeOK
<1> USE <1>a DEF SpawnsNothing, Spawned, reqVars, logVars, postVars
<1>1. ASSUME NEW r \in Requests, Admit(r) PROVE SpawnsNothing
  BY <1>1 DEF Admit
<1>2. ASSUME NEW r \in Requests, PreRequestHooks(r) PROVE SpawnsNothing
  BY <1>2 DEF PreRequestHooks
<1>3. ASSUME NEW r \in Requests, BuildFails(r) PROVE SpawnsNothing
  BY <1>3 DEF BuildFails
<1>4. ASSUME NEW r \in Requests, Send(r) PROVE SpawnsNothing
  BY <1>4 DEF Send
<1>5. ASSUME NEW r \in Requests, TransportError(r) PROVE SpawnsNothing
  BY <1>5 DEF TransportError
<1>6. ASSUME NEW r \in Requests, Respond(r) PROVE SpawnsNothing
  BY <1>6 DEF Respond
<1>7. ASSUME NEW r \in Requests, Retry(r) PROVE SpawnsNothing
  BY <1>7 DEF Retry
<1>8. ASSUME NEW r \in Requests, AbandonBackoff(r) PROVE SpawnsNothing
  BY <1>8 DEF AbandonBackoff
<1>9. ASSUME NEW r \in Requests, BodyFails(r) PROVE SpawnsNothing
  BY <1>9 DEF BodyFails
<1>10. ASSUME NEW r \in Requests, Reply(r) PROVE SpawnsNothing
  BY <1>10 DEF Reply
<1>11. ASSUME NEW r \in Requests, StreamChunk(r) PROVE SpawnsNothing
  BY <1>11 DEF StreamChunk
<1>12. ASSUME NEW r \in Requests, PostRequestHook(r) PROVE SpawnsNothing
  BY <1>12 DEF PostRequestHook
<1>13. ASSUME NEW r \in Requests, Disconnect(r) PROVE SpawnsNothing
  BY <1>13 DEF Disconnect
<1>14. ASSUME NEW row \in logging, LogRequest(row) PROVE SpawnsNothing
  BY <1>14 DEF LogRequest
<1>15. CASE Signal
  BY <1>15 DEF Signal
<1>16. CASE Exit
  BY <1>16 DEF Exit
<1>17. CASE UNCHANGED vars
  BY <1>17 DEF vars
<1>18. ASSUME NEW r \in Requests, LogResponse(r) PROVE SpawnsFor(r)
  BY <1>18 DEF LogResponse, SpawnsFor, SpawnLog, RowOf, Goto, Answer, Streams
<1>19. ASSUME NEW r \in Requests, StreamEnd(r) PROVE SpawnsFor(r)
  BY <1>19 DEF StreamEnd, SpawnsFor, SpawnLog, RowOf, Goto, Answer, Streams
<1>20. QED
  <2> HIDE DEF SpawnsNothing, Spawned, reqVars, logVars, postVars
  <2>1. QED
    BY <1>1, <1>2, <1>3, <1>4, <1>5, <1>6, <1>7, <1>8, <1>9, <1>10, <1>11,
       <1>12, <1>13, <1>14, <1>15, <1>16, <1>17, <1>18, <1>19
       DEF Next, RequestStep

\* The three facts about rows are kept together: each needs the others.
LEMMA RowsStep == ASSUME IInv, [Next]_vars
  PROVE (RowsAreLate /\ RowIsFaithful /\ PostHooksFollowSuccess)'
<1>a. Spawned \subseteq Rows
  BY DEF IInv, TypeOK, Spawned
<1>b. \A row \in Spawned : row.id \in Requests /\ SettledNext(row.id)
  BY <1>a, Settled DEF IInv, RowsAreLate, Rows
<1>c. \A row \in Spawned : row.status = Status(row.id) /\ Status(row.id)' = Status(row.id)
  BY <1>b DEF IInv, RowIsFaithful, Status, SettledNext
<1>1. CASE SpawnsNothing
  <2>1. RowsAreLate'
    BY <1>1, <1>b DEF SpawnsNothing, RowsAreLate, SettledNext
  <2>2. RowIsFaithful'
    BY <1>1, <1>b, <1>c DEF SpawnsNothing, IInv, RowIsFaithful, SettledNext
  <2>3. PostHooksFollowSuccess'
    BY <1>1 DEF SpawnsNothing, IInv, PostHooksFollowSuccess
  <2>4. QED
    BY <2>1, <2>2, <2>3
<1>2. ASSUME NEW r \in Requests, SpawnsFor(r)
      PROVE  (RowsAreLate /\ RowIsFaithful /\ PostHooksFollowSuccess)'
  <2>1. \A row \in Spawned : row.id # r
    BY <1>2 DEF IInv, RowsAreLate, SpawnsFor
  <2>2. /\ RowOf(r).id = r /\ RowOf(r).status = Status(r)
        /\ RowOf(r).retries = retries[r] /\ RowOf(r).chunks = chunks[r]
    BY DEF RowOf
  <2>3. Final(r) /\ AnswerOf(r)
    BY <1>2 DEF IInv, Attempts, AttemptsOf, Answers, SpawnsFor
  <2>4. RowsAreLate'
    BY <1>2, <1>b, <2>2 DEF SpawnsFor, RowsAreLate, SettledNext
  <2>5. RowIsFaithful'
    <3> SUFFICES ASSUME NEW row \in Spawned' PROVE
          LET q == row.id IN
          /\ Len(seen'[q]) = row.retries + 1
          /\ \A i \in 1..row.retries : seen'[q][i] = 429
          /\ row.status = Status(q)'
          /\ row.status = 429 => sent'[q] = maxAttempts
          /\ row.chunks = chunks'[q]
          /\ answer'[q] \in {NoStatus, row.status}
      BY DEF RowIsFaithful
    <3>1. CASE row \in Spawned
      BY <3>1, <1>b, <1>c DEF IInv, RowIsFaithful, SettledNext
    <3>2. CASE row = RowOf(r)
      BY <3>2, <1>2, <2>2, <2>3 DEF Final, AnswerOf, SpawnsFor, Streams, Status
    <3>3. QED
      BY <1>2, <3>1, <3>2 DEF SpawnsFor
  <2>6. PostHooksFollowSuccess'
    <3>1. post[r] = "none"
      BY <2>1 DEF IInv, PostHooksFollowSuccess
    <3>2. QED
      BY <1>2, <2>1, <2>2, <3>1 DEF IInv, PostHooksFollowSuccess, SpawnsFor
  <2>7. QED
    BY <2>4, <2>5, <2>6
<1>3. QED
  BY <1>1, <1>2, Spawning DEF IInv

\* Every step keeps the invariant.
LEMMA NextIInv == ASSUME IInv, [Next]_vars PROVE IInv'
<1>1. TypeOK' /\ Attempts' /\ Answers'
  BY TypeStep, AttemptsStep, AnswersStep DEF IInv
<1>2. QED
  BY <1>1, RowsStep DEF IInv

\* What an answered request keeps for good.
Kept(r) == answer'[r] = answer[r] /\ sent'[r] = sent[r]

\* A step finds an answered request done, or in the middle of its stream.
LEMMA AnsweredStep ==
  ASSUME IInv, [Next]_vars, NEW q \in Requests, answer[q] # NoStatus
  PROVE  Kept(q)
<1>a. /\ pc \in [Requests -> Places] /\ sent \in [Requests -> 0..maxAttempts]
      /\ answer \in [Requests -> {NoStatus} \cup ProxyStatuses \cup UpstreamStatuses]
      /\ stream \in [Requests -> BOOLEAN]
  BY DEF IInv, TypeOK
<1>b. \/ pc[q] = "done"
      \/ pc[q] = "response" /\ Streams(q) /\ answer[q] = 200
  BY DEF IInv, Answers, AnswerOf
<1> USE <1>a, <1>b DEF Kept, Streams, Goto, Answer, reqVars, logVars, postVars
<1>1. ASSUME NEW r \in Requests, Admit(r) PROVE Kept(q)
  BY <1>1 DEF Admit
<1>2. ASSUME NEW r \in Requests, PreRequestHooks(r) PROVE Kept(q)
  BY <1>2 DEF PreRequestHooks
<1>3. ASSUME NEW r \in Requests, BuildFails(r) PROVE Kept(q)
  BY <1>3 DEF BuildFails
<1>4. ASSUME NEW r \in Requests, Send(r) PROVE Kept(q)
  BY <1>4 DEF Send
<1>5. ASSUME NEW r \in Requests, TransportError(r) PROVE Kept(q)
  BY <1>5 DEF TransportError
<1>6. ASSUME NEW r \in Requests, Respond(r) PROVE Kept(q)
  BY <1>6 DEF Respond
<1>7. ASSUME NEW r \in Requests, Retry(r) PROVE Kept(q)
  BY <1>7 DEF Retry
<1>8. ASSUME NEW r \in Requests, AbandonBackoff(r) PROVE Kept(q)
  BY <1>8 DEF AbandonBackoff
<1>9. ASSUME NEW r \in Requests, BodyFails(r) PROVE Kept(q)
  BY <1>9 DEF BodyFails
<1>10. ASSUME NEW r \in Requests, LogResponse(r) PROVE Kept(q)
  BY <1>10 DEF LogResponse
<1>11. ASSUME NEW r \in Requests, Reply(r) PROVE Kept(q)
  BY <1>11 DEF Reply
<1>12. ASSUME NEW r \in Requests, StreamChunk(r) PROVE Kept(q)
  BY <1>12 DEF StreamChunk
<1>13. ASSUME NEW r \in Requests, StreamEnd(r) PROVE Kept(q)
  BY <1>13 DEF StreamEnd
<1>14. ASSUME NEW r \in Requests, PostRequestHook(r) PROVE Kept(q)
  BY <1>14 DEF PostRequestHook
<1>15. ASSUME NEW r \in Requests, Disconnect(r) PROVE Kept(q)
  BY <1>15 DEF Disconnect
<1>16. ASSUME NEW row \in logging, LogRequest(row) PROVE Kept(q)
  BY <1>16 DEF LogRequest
<1>17. CASE Signal
  BY <1>17 DEF Signal
<1>18. CASE Exit
  BY <1>18 DEF Exit
<1>19. CASE UNCHANGED vars
  BY <1>19 DEF vars
<1>20. QED
  <2> HIDE DEF Kept, reqVars, logVars, postVars
  <2>1. QED
    BY <1>1, <1>2, <1>3, <1>4, <1>5, <1>6, <1>7, <1>8, <1>9, <1>10, <1>11,
       <1>12, <1>13, <1>14, <1>15, <1>16, <1>17, <1>18, <1>19
       DEF Next, RequestStep

\* A handler that is about to reply has spawned its row.
RepliesHaveRows ==
    \A r \in Requests : pc[r] = "reply" => \E row \in Spawned : row.id = r

\* Rows stay spawned, and only LogResponse sends a handler to its reply.
LEMMA RepliesStep ==
  ASSUME IInv, RepliesHaveRows, [Next]_vars
  PROVE  RepliesHaveRows'
<1>a. TypeOK
  BY DEF IInv
<1>b. pc \in [Requests -> Places]
  BY <1>a DEF TypeOK
<1> DEFINE NoNewReply == \A q \in Requests : pc'[q] = "reply" => pc[q] = "reply"
<1>1. Spawned \subseteq Spawned'
  BY <1>a, Spawning DEF SpawnsNothing, SpawnsFor
<1>2. ASSUME NEW r \in Requests, LogResponse(r) PROVE RepliesHaveRows'
  <2>1. RowOf(r) \in Spawned' /\ RowOf(r).id = r
    BY <1>2 DEF LogResponse, SpawnLog, RowOf, Spawned
  <2>2. \A q \in Requests : q # r /\ pc'[q] = "reply" => pc[q] = "reply"
    BY <1>2, <1>b DEF LogResponse, Goto
  <2>3. QED
    BY <1>1, <2>1, <2>2 DEF RepliesHaveRows
<1>3. ASSUME NEW r \in Requests, NEW from \in Places, NEW to \in Places \ {"reply"},
             Goto(r, from, to)
      PROVE  NoNewReply
  BY <1>3, <1>b DEF Goto
<1>4. {"hooks", "build", "sent", "backoff", "response", "reply", "done", "new"} = Places
  BY DEF Places
<1>5. ASSUME UNCHANGED pc PROVE NoNewReply
  BY <1>5
<1>6. ASSUME NEW r \in Requests,
             \/ Admit(r) \/ PreRequestHooks(r) \/ BuildFails(r) \/ Send(r)
             \/ TransportError(r) \/ Respond(r) \/ Retry(r) \/ AbandonBackoff(r)
      PROVE  NoNewReply
  <2>1. CASE Admit(r) \/ PreRequestHooks(r)
    BY <1>3, <1>4, <2>1 DEF Admit, PreRequestHooks, Answer
  <2>2. CASE BuildFails(r) \/ Send(r)
    BY <1>3, <1>4, <2>2 DEF BuildFails, Send, Answer
  <2>3. CASE TransportError(r) \/ Respond(r)
    BY <1>3, <1>4, <2>3 DEF TransportError, Respond, Answer
  <2>4. CASE Retry(r) \/ AbandonBackoff(r)
    BY <1>3, <1>4, <2>4 DEF Retry, AbandonBackoff, Answer
  <2>5. QED
    BY <1>6, <2>1, <2>2, <2>3, <2>4
<1>7. ASSUME NEW r \in Requests,
             \/ BodyFails(r) \/ Reply(r) \/ StreamChunk(r) \/ StreamEnd(r)
             \/ PostRequestHook(r) \/ Disconnect(r)
      PROVE  NoNewReply
  <2>1. CASE BodyFails(r) \/ Reply(r)
    BY <1>3, <1>4, <2>1 DEF BodyFails, Reply, Answer
  <2>2. CASE StreamEnd(r)
    BY <1>3, <1>4, <2>2 DEF StreamEnd, Answer
  <2>3. CASE StreamChunk(r) \/ PostRequestHook(r) \/ Disconnect(r)
    BY <1>5, <2>3 DEF StreamChunk, PostRequestHook, Disconnect, reqVars
  <2>4. QED
    BY <1>7, <2>1, <2>2, <2>3
<1>8. ASSUME NEW row \in logging, LogRequest(row) PROVE NoNewReply
  BY <1>5, <1>8 DEF LogRequest, reqVars
<1>9. ASSUME Signal \/ Exit \/ UNCHANGED vars PROVE NoNewReply
  BY <1>5, <1>9 DEF Signal, Exit, vars, reqVars
<1>10. NoNewReply => RepliesHaveRows'
  BY <1>1 DEF RepliesHaveRows
<1>11. QED
  <2> HIDE DEF NoNewReply
  <2>1. QED
    BY <1>2, <1>6, <1>7, <1>8, <1>9, <1>10 DEF Next, RequestStep

\* A row is the only one of its request: its columns are the request's own.
LEMMA RowsAreUnique ==
  ASSUME IInv, NEW v \in Spawned, NEW w \in Spawned, v.id = w.id
  PROVE  v = w
<1>1. v \in Rows /\ w \in Rows
  BY DEF IInv, TypeOK, Spawned
<1>2. v.status = w.status /\ v.chunks = w.chunks
  BY DEF IInv, RowIsFaithful
<1>3. v.retries + 1 = w.retries + 1
  BY DEF IInv, RowIsFaithful
<1>4. v.retries \in Nat /\ w.retries \in Nat
  BY <1>1, AttemptsAssumption DEF Rows
<1>5. v.retries = w.retries
  BY <1>3, <1>4
<1>6. QED
  BY <1>1, <1>2, <1>5 DEF Rows

\* A verdict once known stays, and a request without a row has none.
LEMMA VerdictKept ==
  ASSUME IInv, [Next]_vars, Spawned' = Spawned
  PROVE  Verdict' = Verdict
<1>1. \A row \in Spawned : row.id \in Requests /\ SettledNext(row.id)
  BY Settled DEF IInv, RowsAreLate, TypeOK, Spawned, Rows
<1>2. \A row \in Spawned : Status(row.id)' = Status(row.id)
  BY <1>1 DEF SettledNext, Status
<1>3. QED
  BY <1>2 DEF Verdict

\* The end of a response decides its request.
LEMMA VerdictSpawned ==
  ASSUME IInv, NEW r \in Requests, SpawnsFor(r)
  PROVE  Verdict[r] = NoStatus /\ Verdict' = [Verdict EXCEPT ![r] = Status(r)]
<1>1. \A row \in Spawned : row.id # r
  BY DEF IInv, RowsAreLate, SpawnsFor
<1>2. RowOf(r).id = r /\ Spawned' = Spawned \cup {RowOf(r)}
  BY DEF RowOf, SpawnsFor
<1>3. \A q \in Requests : Status(q)' = Status(q)
  BY DEF SpawnsFor, Status
<1>4. QED
  BY <1>1, <1>2, <1>3 DEF Verdict

\* Before its response is complete a request has no verdict and, unless its stream
\* has begun, no answer.
LEMMA Unanswered ==
  ASSUME IInv, NEW r \in Requests, pc[r] \notin {"reply", "done"}
  PROVE  /\ Verdict[r] = NoStatus
         /\ ~(pc[r] = "response" /\ Streams(r)) => answer[r] = NoStatus
         /\ answer[r] \in {NoStatus, 200}
<1>1. Verdict[r] = NoStatus
  BY DEF IInv, RowsAreLate, Verdict
<1>2. QED
  BY <1>1 DEF IInv, Answers, AnswerOf

LedgerVars == <<answer, Verdict, requests, Observed, Running>>

\* The stuttering steps of the ledger.
LEMMA LedgerStutter ==
  ASSUME LedgerVars' = LedgerVars PROVE UNCHANGED Ledger!vars
BY DEF LedgerVars, Ledger!vars

\* What the refusals have in common.
LEMMA RefuseStep ==
  ASSUME IInv, [Next]_vars, NEW r \in Requests, NEW from \in Places \ {"reply", "done"},
         NEW s \in ProxyStatuses,
         Answer(r, from, s), ~(from = "response" /\ Streams(r)),
         UNCHANGED <<logVars, postVars, server>>
  PROVE  Ledger!Refuse(r)
<1>1. pc[r] = from /\ Running /\ Running' = Running
  BY DEF Answer, Goto, Running
<1>2. Verdict' = Verdict /\ Verdict[r] = NoStatus /\ answer[r] = NoStatus
  BY <1>1, VerdictKept, Unanswered DEF logVars, Spawned
<1>3. Observed' = Observed /\ requests' = requests
  BY DEF postVars, logVars, Observed
<1>4. s \in (ProxyStatuses \cup UpstreamStatuses) \ {200}
  BY DEF ProxyStatuses
<1>5. QED
  BY <1>1, <1>2, <1>3, <1>4 DEF Ledger!Refuse, Ledger!Undecided, Answer

\* What the silent steps have in common.
LEMMA SilentStep ==
  ASSUME IInv, [Next]_vars, UNCHANGED <<answer, logVars, postVars, Running>>
  PROVE  UNCHANGED Ledger!vars
<1>1. Verdict' = Verdict
  BY VerdictKept DEF logVars, Spawned
<1>2. QED
  BY <1>1, LedgerStutter DEF LedgerVars, logVars, postVars, Observed

\* Every step of the pipeline is a step of the ledger, or none.
LEMMA LedgerStep ==
  ASSUME IInv, RepliesHaveRows, [Next]_vars
  PROVE  [Ledger!Next]_(Ledger!vars)
<1>a. /\ pc \in [Requests -> Places] /\ post \in [Requests -> {"none", "spawned", "run"}]
      /\ answer \in [Requests -> {NoStatus} \cup ProxyStatuses \cup UpstreamStatuses]
      /\ logging \subseteq Rows /\ TypeOK
  BY DEF IInv, TypeOK
<1>b. /\ {"new", "hooks", "build", "sent", "backoff", "response"}
            = Places \ {"reply", "done"}
      /\ {400, 401, 403, 404, 500, 502} = ProxyStatuses
  BY DEF Places, ProxyStatuses
<1>c. \A r \in Requests : Ledger!Refuse(r) => Ledger!Next
  BY DEF Ledger!Next
<1>d. UNCHANGED server => UNCHANGED Running
  BY DEF Running
<1>1. ASSUME NEW r \in Requests, Admit(r) \/ PreRequestHooks(r)
      PROVE  [Ledger!Next]_(Ledger!vars)
  <2>1. UNCHANGED <<logVars, postVars, server>>
    BY <1>1 DEF Admit, PreRequestHooks
  <2>2. CASE \E s \in ProxyStatuses : Answer(r, "new", s) \/ Answer(r, "hooks", s)
    BY <1>b, <1>c, <2>1, <2>2, RefuseStep
  <2>3. CASE UNCHANGED answer
    BY <1>d, <2>1, <2>3, SilentStep
  <2>4. QED
    BY <1>1, <1>b, <2>2, <2>3 DEF Admit, PreRequestHooks
<1>2. ASSUME NEW r \in Requests,
             \/ BuildFails(r) \/ Send(r) \/ TransportError(r) \/ Respond(r)
             \/ Retry(r) \/ AbandonBackoff(r) \/ Disconnect(r)
      PROVE  [Ledger!Next]_(Ledger!vars)
  <2>1. UNCHANGED <<logVars, postVars, server>>
    BY <1>2 DEF BuildFails, Send, TransportError, Respond, Retry, AbandonBackoff,
                Disconnect
  <2>2. \/ UNCHANGED answer
        \/ \E s \in ProxyStatuses, from \in {"build", "sent", "backoff"} :
              Answer(r, from, s)
    BY <1>2, <1>b DEF BuildFails, Send, TransportError, Respond, Retry,
                      AbandonBackoff, Disconnect
  <2>3. CASE UNCHANGED answer
    BY <1>d, <2>1, <2>3, SilentStep
  <2>4. CASE \E s \in ProxyStatuses, from \in {"build", "sent", "backoff"} :
              Answer(r, from, s)
    BY <1>b, <1>c, <2>1, <2>4, RefuseStep
  <2>5. QED
    BY <2>2, <2>3, <2>4
<1>3. ASSUME NEW r \in Requests, BodyFails(r) PROVE [Ledger!Next]_(Ledger!vars)
  <2>1. ~Streams(r) /\ UNCHANGED <<logVars, postVars, server>>
    BY <1>3 DEF BodyFails, Streams
  <2>2. \E s \in ProxyStatuses : Answer(r, "response", s)
    BY <1>3, <1>b DEF BodyFails
  <2>3. QED
    BY <1>b, <1>c, <2>1, <2>2, RefuseStep
<1>4. ASSUME NEW r \in Requests, StreamChunk(r) PROVE [Ledger!Next]_(Ledger!vars)
  <2>1. pc[r] = "response" /\ Running /\ UNCHANGED <<logVars, postVars, server>>
    BY <1>4 DEF StreamChunk
  <2>2. Verdict[r] = NoStatus /\ answer[r] \in {NoStatus, 200}
    BY <2>1, Unanswered
  <2>3. CASE answer[r] = NoStatus
    <3>1. Verdict' = Verdict /\ Observed' = Observed /\ Running' = Running
      BY <1>d, <2>1, VerdictKept DEF logVars, postVars, Spawned, Observed
    <3>2. Ledger!BeginStream(r)
      BY <1>4, <2>1, <2>2, <2>3, <3>1
      DEF Ledger!BeginStream, Ledger!Undecided, StreamChunk, logVars
    <3>3. QED
      BY <3>2 DEF Ledger!Next
  <2>4. CASE answer[r] = 200
    <3>1. answer' = answer
      BY <1>4, <1>a, <2>4 DEF StreamChunk
    <3>2. QED
      BY <1>d, <2>1, <3>1, SilentStep
  <2>5. QED
    BY <2>2, <2>3, <2>4
<1>5. ASSUME NEW r \in Requests, LogResponse(r) \/ StreamEnd(r)
      PROVE  [Ledger!Next]_(Ledger!vars)
  <2>1. SpawnsFor(r)
    BY <1>5, <1>a DEF LogResponse, StreamEnd, SpawnsFor, SpawnLog, Spawned, RowOf,
                      Goto, Answer, Streams, reqVars, logVars, postVars
  <2>2. Verdict[r] = NoStatus /\ Verdict' = [Verdict EXCEPT ![r] = Status(r)]
    BY <2>1, VerdictSpawned
  <2>3. post[r] = "none"
    BY <2>1 DEF IInv, PostHooksFollowSuccess, RowsAreLate, SpawnsFor
  <2>4. Observed' = Observed
    BY <1>5, <1>a, <2>3 DEF Observed, LogResponse, StreamEnd
  <2>5. Running /\ Running' = Running /\ requests' = requests
    BY <1>5 DEF LogResponse, StreamEnd, Goto, Answer, Running
  <2>6. Status(r) \in ((ProxyStatuses \cup UpstreamStatuses) \ {200}) \cup {200}
    <3>1. TypeOK /\ Attempts /\ pc[r] = "response"
      BY <2>1 DEF IInv, SpawnsFor
    <3>2. Status(r) \in UpstreamStatuses
      BY <3>1, StatusType
    <3>3. QED
      BY <3>2
  <2>7. /\ answer[r] = NoStatus \/ (answer[r] = 200 /\ Status(r) = 200)
        /\ answer' \in {answer, [answer EXCEPT ![r] = Status(r)]}
    <3>1. pc[r] = "response"
      BY <2>1 DEF SpawnsFor
    <3>2. CASE LogResponse(r)
      BY <3>1, <3>2, Unanswered DEF LogResponse
    <3>3. CASE StreamEnd(r)
      BY <3>1, <3>3, Unanswered DEF StreamEnd, Answer, Streams
    <3>4. QED
      BY <1>5, <3>2, <3>3
  <2>8. Ledger!Relay(r)
    BY <2>2, <2>4, <2>5, <2>6, <2>7 DEF Ledger!Relay, Ledger!Undecided
  <2>9. QED
    BY <2>8 DEF Ledger!Next
<1>6. ASSUME NEW r \in Requests, Reply(r) PROVE [Ledger!Next]_(Ledger!vars)
  <2>1. pc[r] = "reply" /\ Running /\ UNCHANGED <<logVars, postVars, server>>
    BY <1>6 DEF Reply, Answer, Goto
  <2>2. Verdict[r] = Status(r) /\ Status(r) \in UpstreamStatuses
    BY <2>1, StatusType DEF IInv, RepliesHaveRows, Verdict
  <2>3. answer[r] = NoStatus
    BY <2>1 DEF IInv, Answers, AnswerOf
  <2>4. Status(r) # NoStatus
    BY <2>2, StatusAssumption DEF UpstreamStatuses, NoStatus
  <2>5. Verdict' = Verdict /\ Observed' = Observed /\ Running' = Running
    BY <1>d, <2>1, VerdictKept DEF logVars, postVars, Spawned, Observed
  <2>6. Ledger!Reply(r)
    BY <1>6, <2>1, <2>2, <2>3, <2>4, <2>5 DEF Ledger!Reply, Reply, Answer, logVars
  <2>7. QED
    BY <2>6 DEF Ledger!Next
<1>7. ASSUME NEW r \in Requests, PostRequestHook(r)
      PROVE  [Ledger!Next]_(Ledger!vars)
  <2>1. /\ post[r] = "spawned" /\ post' = [post EXCEPT ![r] = "run"]
        /\ Running /\ UNCHANGED <<reqVars, logVars, server>>
    BY <1>7 DEF PostRequestHook
  <2>2. Verdict[r] = 200
    BY <2>1 DEF IInv, PostHooksFollowSuccess, RowIsFaithful, Verdict
  <2>3. Verdict' = Verdict /\ Running' = Running
    BY <1>d, <2>1, VerdictKept DEF logVars, Spawned
  <2>4. r \notin Observed /\ Observed' = Observed \cup {r}
    BY <1>a, <2>1 DEF Observed
  <2>5. Ledger!Observe(r)
    BY <2>1, <2>2, <2>3, <2>4 DEF Ledger!Observe, reqVars, logVars
  <2>6. QED
    BY <2>5 DEF Ledger!Next
<1>8. ASSUME NEW row \in logging, LogRequest(row) PROVE [Ledger!Next]_(Ledger!vars)
  <2>1. /\ Running /\ UNCHANGED <<reqVars, postVars, server>> /\ Spawned' = Spawned
        /\ row \in Spawned /\ row \in Rows /\ row.id \in Requests
    BY <1>8, <1>a DEF LogRequest, Spawned, Rows
  <2>2. Verdict' = Verdict /\ Observed' = Observed /\ Running' = Running
    BY <1>d, <2>1, VerdictKept DEF postVars, Observed
  <2>3. Verdict[row.id] = row.status
    BY <2>1 DEF IInv, RowIsFaithful, Verdict
  <2>4. CASE UNCHANGED requests
    BY <2>1, <2>2, <2>4, LedgerStutter DEF LedgerVars, reqVars
  <2>5. CASE requests' = requests \cup {row}
    <3>1. CASE \A w \in requests : w.id # row.id
      <4>1. Ledger!Record(row.id)
        BY <2>1, <2>2, <2>3, <2>5, <3>1 DEF Ledger!Record, reqVars
      <4>2. QED
        BY <2>1, <4>1 DEF Ledger!Next
    <3>2. ASSUME NEW w \in requests, w.id = row.id
          PROVE  [Ledger!Next]_(Ledger!vars)
      <4>1. w = row
        BY <2>1, <3>2, RowsAreUnique DEF Spawned
      <4>2. requests' = requests
        BY <2>5, <4>1
      <4>3. QED
        BY <2>1, <2>2, <4>2, LedgerStutter DEF LedgerVars, reqVars
    <3>3. QED
      BY <3>1, <3>2
  <2>6. QED
    BY <1>8, <2>4, <2>5 DEF LogRequest
<1>9. CASE Signal
  <2>1. Running' = Running
    BY <1>9 DEF Signal, Running
  <2>2. QED
    BY <1>9, <2>1, SilentStep DEF Signal, reqVars
<1>10. CASE Exit
  <2>1. Running = TRUE /\ Running' = FALSE
    BY <1>10 DEF Exit, Running
  <2>2. UNCHANGED <<answer, requests>> /\ Observed' = Observed /\ Verdict' = Verdict
    BY <1>10, VerdictKept DEF Exit, reqVars, logVars, postVars, Observed, Spawned
  <2>3. Ledger!Stop
    BY <2>1, <2>2 DEF Ledger!Stop
  <2>4. QED
    BY <2>3 DEF Ledger!Next
<1>11. CASE UNCHANGED vars
  BY <1>d, <1>11, SilentStep DEF vars, reqVars
<1>12. QED
  BY <1>1, <1>2, <1>3, <1>4, <1>5, <1>6, <1>7, <1>8, <1>9, <1>10, <1>11
  DEF Next, RequestStep

----------------------------------------------------------------------------
(* Where the expectations of the documentation do hold                      *)

\* A request that was sent and has no row was answered with an error of the proxy's own.
UnloggedAreErrors ==
    \A r \in Requests : pc[r] = "done" /\ sent[r] > 0 =>
        answer[r] \in {500, 502} \/ \E row \in Spawned : row.id = r

\* A post hook that has run had its payload exactly when there is JSON to give it.
PayloadsArrive ==
    \A r \in Requests : post[r] = "run" =>
        stdin[r] = IF PayloadIsJSON(r) THEN "payload" ELSE "empty"

\* Rows stay spawned, and a handler that ends without one ends with an error, or
\* before it has sent anything.
LEMMA UnloggedStep ==
  ASSUME IInv, RepliesHaveRows, UnloggedAreErrors, [Next]_vars
  PROVE  UnloggedAreErrors'
<1>a. /\ pc \in [Requests -> Places] /\ sent \in [Requests -> 0..maxAttempts]
      /\ answer \in [Requests -> {NoStatus} \cup ProxyStatuses \cup UpstreamStatuses]
      /\ TypeOK /\ Attempts
  BY DEF IInv, TypeOK
<1> DEFINE Logged(q) == \E row \in Spawned : row.id = q
           Ended(q) == pc'[q] = "done" /\ sent'[q] > 0 =>
                          answer'[q] \in {500, 502} \/ Logged(q)'
           Same(q) == pc'[q] = pc[q] /\ sent'[q] = sent[q] /\ answer'[q] = answer[q]
<1>1. \A q \in Requests : Logged(q) => Logged(q)'
  BY <1>a, Spawning DEF SpawnsNothing, SpawnsFor
<1>2. ASSUME NEW q \in Requests, Same(q)
      PROVE  Ended(q)
  <2>1. pc[q] = "done" /\ sent[q] > 0 => answer[q] \in {500, 502} \/ Logged(q)
    BY DEF UnloggedAreErrors
  <2> HIDE DEF Logged
  <2>2. QED
    BY <1>1, <1>2, <2>1
<1>3. ASSUME NEW r \in Requests, NEW from \in Places, NEW s \in {500, 502},
             Answer(r, from, s), UNCHANGED sent
      PROVE  \A q \in Requests : Ended(q)
  <2>1. \A q \in Requests : q # r => Same(q)
    BY <1>3, <1>a DEF Answer, Goto
  <2>2. answer'[r] = s
    BY <1>3, <1>a DEF Answer
  <2>3. QED
    BY <1>2, <2>1, <2>2
<1>4. ASSUME NEW r \in Requests, NEW from \in Places, NEW to \in Places \ {"done"},
             Goto(r, from, to), UNCHANGED answer,
             \A q \in Requests : q # r => sent'[q] = sent[q]
      PROVE  \A q \in Requests : Ended(q)
  <2>1. \A q \in Requests : q # r => Same(q)
    BY <1>4, <1>a DEF Goto
  <2>2. pc'[r] # "done"
    BY <1>4, <1>a DEF Goto
  <2>3. QED
    BY <1>2, <2>1, <2>2
<1>5. ASSUME NEW r \in Requests, Admit(r) \/ PreRequestHooks(r)
      PROVE  \A q \in Requests : Ended(q)
  <2>1. sent'[r] = 0 /\ \A q \in Requests : q # r => Same(q)
    BY <1>5, <1>a DEF Admit, PreRequestHooks, Answer, Goto, Attempts, AttemptsOf
  <2>2. QED
    BY <1>2, <2>1
<1>6. {"hooks", "build", "sent", "backoff", "response", "reply", "done", "new"} = Places
  BY DEF Places
<1>7. ASSUME NEW r \in Requests,
             \/ BuildFails(r) \/ Send(r) \/ TransportError(r) \/ Respond(r)
             \/ Retry(r) \/ AbandonBackoff(r) \/ BodyFails(r)
      PROVE  \A q \in Requests : Ended(q)
  <2>1. CASE BuildFails(r)
    BY <1>3, <1>6, <2>1 DEF BuildFails
  <2>2. CASE Send(r)
    <3>1. CASE Answer(r, "build", 502) /\ UNCHANGED sent
      BY <1>3, <1>6, <3>1
    <3>2. CASE /\ Goto(r, "build", "sent") /\ UNCHANGED answer
               /\ sent' = [sent EXCEPT ![r] = @ + 1]
      <4>1. \A q \in Requests : q # r => sent'[q] = sent[q]
        BY <1>a, <3>2
      <4>2. "build" \in Places /\ "sent" \in Places \ {"done"}
        BY <1>6
      <4> QED
        BY <1>4, <3>2, <4>1, <4>2
    <3> QED
      BY <2>2, <3>1, <3>2 DEF Send
  <2>3. CASE TransportError(r)
    BY <1>3, <1>6, <2>3 DEF TransportError
  <2>4. CASE Respond(r)
    <3>1. /\ UNCHANGED <<sent, answer>>
          /\ Goto(r, "sent", "response") \/ Goto(r, "sent", "backoff")
      BY <2>4 DEF Respond
    <3> QED
      BY <1>4, <1>6, <3>1
  <2>5. CASE Retry(r)
    BY <1>4, <1>6, <2>5 DEF Retry
  <2>6. CASE AbandonBackoff(r)
    BY <1>3, <1>6, <2>6 DEF AbandonBackoff
  <2>7. CASE BodyFails(r)
    BY <1>3, <1>6, <2>7 DEF BodyFails
  <2>8. QED
    BY <1>7, <2>1, <2>2, <2>3, <2>4, <2>5, <2>6, <2>7
<1>8. ASSUME NEW r \in Requests, LogResponse(r)
      PROVE  \A q \in Requests : Ended(q)
  BY <1>4, <1>6, <1>8 DEF LogResponse
<1>9. ASSUME NEW r \in Requests, Reply(r)
      PROVE  \A q \in Requests : Ended(q)
  <2>1. Logged(r) /\ \A q \in Requests : q # r => Same(q)
    BY <1>9, <1>a DEF Reply, Answer, Goto, RepliesHaveRows
  <2>2. QED
    BY <1>1, <1>2, <2>1
<1>10. ASSUME NEW r \in Requests, StreamEnd(r)
       PROVE  \A q \in Requests : Ended(q)
  <2>1. \A q \in Requests : q # r => Same(q)
    BY <1>10, <1>a DEF StreamEnd, Answer, Goto
  <2>2. RowOf(r) \in Spawned' /\ RowOf(r).id = r
    BY <1>10 DEF StreamEnd, SpawnLog, RowOf, Spawned
  <2>3. QED
    BY <1>2, <2>1, <2>2
<1>11. ASSUME NEW r \in Requests, StreamChunk(r)
       PROVE  \A q \in Requests : Ended(q)
  <2>1. pc'[r] # "done" /\ \A q \in Requests : q # r => Same(q)
    BY <1>11, <1>a DEF StreamChunk
  <2>2. QED
    BY <1>2, <2>1
<1>12. ASSUME UNCHANGED <<pc, sent, answer>>
       PROVE  \A q \in Requests : Ended(q)
  BY <1>2, <1>12
<1>13. ASSUME NEW r \in Requests, PostRequestHook(r) \/ Disconnect(r)
       PROVE  \A q \in Requests : Ended(q)
  BY <1>12, <1>13 DEF PostRequestHook, Disconnect, reqVars
<1>14. ASSUME NEW row \in logging, LogRequest(row)
       PROVE  \A q \in Requests : Ended(q)
  BY <1>12, <1>14 DEF LogRequest, reqVars
<1>15. ASSUME Signal \/ Exit \/ UNCHANGED vars
       PROVE  \A q \in Requests : Ended(q)
  BY <1>12, <1>15 DEF Signal, Exit, vars, reqVars
<1>16. \A q \in Requests : Ended(q)
  <2> HIDE DEF Ended
  <2>1. QED
    BY <1>5, <1>7, <1>8, <1>9, <1>10, <1>11, <1>13, <1>14, <1>15 DEF Next, RequestStep
<1>17. QED
  BY <1>16 DEF UnloggedAreErrors

\* Chunks and kind of a response are settled before its post hooks are spawned.
LEMMA PayloadStep ==
  ASSUME IInv, PayloadsArrive, [Next]_vars
  PROVE  PayloadsArrive'
<1>a. /\ pc \in [Requests -> Places] /\ stream \in [Requests -> BOOLEAN]
      /\ chunks \in [Requests -> Nat]
      /\ post \in [Requests -> {"none", "spawned", "run"}]
      /\ stdin \in [Requests -> {"none", "payload", "empty"}] /\ TypeOK
  BY DEF IInv, TypeOK
<1> DEFINE Arrives(q) == post'[q] = "run" =>
                            stdin'[q] = IF PayloadIsJSON(q)' THEN "payload" ELSE "empty"
<1>1. ASSUME NEW q \in Requests, post[q] # "none"
      PROVE  pc[q] \in {"reply", "done"}
  BY <1>1 DEF IInv, PostHooksFollowSuccess, RowsAreLate
<1>2. ASSUME NEW q \in Requests, pc[q] \in {"reply", "done"}
      PROVE  stream'[q] = stream[q] /\ chunks'[q] = chunks[q]
  <2>1. chunks'[q] = chunks[q]
    BY <1>2, <1>a, Settled DEF SettledNext
  <2>2. UNCHANGED stream \/ \E r \in Requests : PreRequestHooks(r)
    BY DEF Next, RequestStep, Admit, BuildFails, Send, TransportError, Respond, Retry,
           AbandonBackoff, BodyFails, LogResponse, Reply, StreamChunk, StreamEnd,
           PostRequestHook, Disconnect, LogRequest, Signal, Exit, vars, reqVars
  <2>3. ASSUME NEW r \in Requests, PreRequestHooks(r)
        PROVE  stream'[q] = stream[q]
    BY <1>2, <1>a, <2>3 DEF PreRequestHooks, Answer, Goto
  <2>4. QED
    BY <2>1, <2>2, <2>3
<1>3. ASSUME NEW q \in Requests, post'[q] = post[q], stdin'[q] = stdin[q]
      PROVE  Arrives(q)
  BY <1>1, <1>2, <1>3 DEF PayloadsArrive, PayloadIsJSON
<1>4. \/ UNCHANGED postVars
      \/ \E r \in Requests : LogResponse(r) \/ StreamEnd(r) \/ PostRequestHook(r)
  BY DEF Next, RequestStep, Admit, PreRequestHooks, BuildFails, Send, TransportError,
         Respond, Retry, AbandonBackoff, BodyFails, Reply, StreamChunk, Disconnect,
         LogRequest, Signal, Exit, vars
<1>5. ASSUME UNCHANGED postVars
      PROVE  \A q \in Requests : Arrives(q)
  BY <1>3, <1>5 DEF postVars
<1>6. ASSUME NEW r \in Requests, LogResponse(r) \/ StreamEnd(r)
      PROVE  \A q \in Requests : Arrives(q)
  <2>1. post[r] = "none"
    BY <1>6, <1>1 DEF LogResponse, StreamEnd, Goto, Answer
  <2>2. /\ post'[r] \in {"none", "spawned"} /\ UNCHANGED stdin
        /\ \A q \in Requests : q # r => post'[q] = post[q]
    BY <1>6, <1>a, <2>1 DEF LogResponse, StreamEnd
  <2>3. QED
    BY <1>3, <2>2
<1>7. ASSUME NEW r \in Requests, PostRequestHook(r)
      PROVE  \A q \in Requests : Arrives(q)
  <2>1. \A q \in Requests : q # r => post'[q] = post[q] /\ stdin'[q] = stdin[q]
    BY <1>7, <1>a DEF PostRequestHook
  <2>2. /\ stdin'[r] = IF PayloadIsJSON(r) THEN "payload" ELSE "empty"
        /\ PayloadIsJSON(r)' = PayloadIsJSON(r)
    BY <1>7, <1>a DEF PostRequestHook, PayloadIsJSON, reqVars
  <2>3. QED
    BY <1>3, <2>1, <2>2
<1>8. \A q \in Requests : Arrives(q)
  <2> HIDE DEF Arrives
  <2>1. QED
    BY <1>4, <1>5, <1>6, <1>7
<1>9. QED
  BY <1>8 DEF PayloadsArrive

\* Attempts a handler may still make, three steps each.
AttemptsLeft(r) == 3 * (maxAttempts - 1 - attempt[r])

\* Steps a handler, the provider or a timer still owes a request, at the most.
StepsLeft(r) ==
    IF pc[r] = "new" THEN AttemptsLeft(r) + MaxChunks + 6
    ELSE IF pc[r] = "hooks" THEN AttemptsLeft(r) + MaxChunks + 5
    ELSE IF pc[r] = "build" THEN AttemptsLeft(r) + MaxChunks + 4
    ELSE IF pc[r] = "sent" THEN AttemptsLeft(r) + MaxChunks + 3
    ELSE IF pc[r] = "backoff" THEN AttemptsLeft(r) + MaxChunks + 2
    ELSE IF pc[r] = "response" THEN MaxChunks - chunks[r] + 2
    ELSE IF pc[r] = "reply" THEN 1 ELSE 0

\* What a step does to the counts of the others: nothing.
LEMMA OthersStay ==
  ASSUME TypeOK, NEW r \in Requests, RequestStep(r) \/ Admit(r),
         NEW q \in Requests, q # r
  PROVE  StepsLeft(q)' = StepsLeft(q)
<1>a. /\ pc \in [Requests -> Places] /\ attempt \in [Requests -> 0..(maxAttempts - 1)]
      /\ chunks \in [Requests -> 0..MaxChunks]
  BY DEF TypeOK
<1> SUFFICES pc'[q] = pc[q] /\ attempt'[q] = attempt[q] /\ chunks'[q] = chunks[q]
  BY DEF StepsLeft, AttemptsLeft
<1>1. CASE Admit(r) \/ PreRequestHooks(r) \/ BuildFails(r) \/ Send(r)
  BY <1>1, <1>a DEF Admit, PreRequestHooks, BuildFails, Send, Goto, Answer
<1>2. CASE TransportError(r) \/ Respond(r) \/ Retry(r) \/ AbandonBackoff(r)
  BY <1>2, <1>a DEF TransportError, Respond, Retry, AbandonBackoff, Goto, Answer
<1>3. CASE BodyFails(r) \/ LogResponse(r) \/ Reply(r) \/ StreamChunk(r) \/ StreamEnd(r)
  BY <1>3, <1>a DEF BodyFails, LogResponse, Reply, StreamChunk, StreamEnd, Goto, Answer
<1>4. QED
  BY <1>1, <1>2, <1>3 DEF RequestStep

\* Every step of a handler brings its request nearer to its end.
LEMMA StepFalls ==
  ASSUME IInv, NEW r \in Requests, RequestStep(r) \/ Admit(r)
  PROVE  StepsLeft(r)' < StepsLeft(r)
<1>a. /\ pc \in [Requests -> Places] /\ attempt \in [Requests -> 0..(maxAttempts - 1)]
      /\ chunks \in [Requests -> 0..MaxChunks]
  BY DEF IInv, TypeOK
<1>b. /\ attempt[r] \in 0..(maxAttempts - 1) /\ chunks[r] \in 0..MaxChunks
      /\ maxAttempts \in Nat /\ MaxChunks \in Nat
      /\ AttemptsLeft(r) \in Nat
  BY <1>a, AttemptsAssumption, ChunksAssumption DEF AttemptsLeft
<1>c. ASSUME attempt'[r] = attempt[r]
      PROVE  AttemptsLeft(r)' = AttemptsLeft(r)
  BY <1>c DEF AttemptsLeft
<1>d. ASSUME pc'[r] = "done"
      PROVE  StepsLeft(r)' = 0
  BY <1>d DEF StepsLeft
<1>e. pc[r] # "done" => StepsLeft(r) > 0
  BY <1>a, <1>b DEF StepsLeft, Places
<1>1. ASSUME NEW from \in Places \ {"done"}, NEW s, Answer(r, from, s)
      PROVE  StepsLeft(r)' < StepsLeft(r)
  <2>1. pc[r] # "done" /\ pc'[r] = "done"
    BY <1>1, <1>a DEF Answer, Goto
  <2>2. QED
    BY <2>1, <1>d, <1>e
<1>2. {"new", "hooks", "build", "sent", "backoff", "response", "reply"} \subseteq Places \ {"done"}
  BY DEF Places
<1>3. CASE Admit(r)
  <2>1. CASE Goto(r, "new", "hooks") /\ UNCHANGED attempt
    BY <2>1, <1>a, <1>b, <1>c DEF Goto, StepsLeft
  <2>2. QED
    BY <1>1, <1>2, <1>3, <2>1 DEF Admit
<1>4. CASE PreRequestHooks(r)
  <2>1. CASE Goto(r, "hooks", "build") /\ UNCHANGED attempt
    BY <2>1, <1>a, <1>b, <1>c DEF Goto, StepsLeft
  <2>2. QED
    BY <1>1, <1>2, <1>4, <2>1 DEF PreRequestHooks
<1>5. CASE Send(r)
  <2>1. CASE Goto(r, "build", "sent") /\ UNCHANGED attempt
    BY <2>1, <1>a, <1>b, <1>c DEF Goto, StepsLeft
  <2>2. QED
    BY <1>1, <1>2, <1>5, <2>1 DEF Send
<1>6. CASE BuildFails(r) \/ TransportError(r) \/ AbandonBackoff(r) \/ BodyFails(r) \/ Reply(r)
               \/ StreamEnd(r)
  BY <1>1, <1>2, <1>6 DEF BuildFails, TransportError, AbandonBackoff, BodyFails, Reply, StreamEnd
<1>7. CASE Respond(r)
  <2>1. /\ pc[r] = "sent" /\ pc'[r] \in {"response", "backoff"}
        /\ attempt'[r] = attempt[r] /\ chunks'[r] = chunks[r]
    BY <1>7, <1>a DEF Respond, Goto
  <2>2. QED
    BY <2>1, <1>a, <1>b, <1>c DEF StepsLeft
<1>8. CASE Retry(r)
  <2>1. pc[r] = "backoff" /\ pc'[r] = "build" /\ attempt'[r] = attempt[r] + 1
    BY <1>8, <1>a DEF Retry, Goto
  <2>2. AttemptsLeft(r)' = AttemptsLeft(r) - 3
    BY <2>1, <1>b DEF AttemptsLeft
  <2>3. QED
    BY <2>1, <2>2, <1>b DEF StepsLeft
<1>9. CASE LogResponse(r)
  <2>1. pc[r] = "response" /\ pc'[r] = "reply"
    BY <1>9, <1>a DEF LogResponse, Goto
  <2>2. QED
    BY <2>1, <1>b DEF StepsLeft
<1>10. CASE StreamChunk(r)
  <2>1. /\ pc[r] = "response" /\ pc'[r] = "response"
        /\ chunks'[r] = chunks[r] + 1
    BY <1>10, <1>a DEF StreamChunk
  <2>2. QED
    BY <2>1, <1>b DEF StepsLeft
<1>11. QED
  BY <1>3, <1>4, <1>5, <1>6, <1>7, <1>8, <1>9, <1>10 DEF RequestStep

----------------------------------------------------------------------------
\* The invariant holds throughout every behaviour.
THEOREM Invariance == Spec => []IInv
BY InitIInv, NextIInv, PTL DEF Spec

\* Every variable of the pipeline keeps its type; in particular no request is
\* ever retried more than maxAttempts - 1 times.
THEOREM TypeCorrect == Spec => []TypeOK
<1>1. IInv => TypeOK
  BY DEF IInv
<1>2. QED
  BY Invariance, <1>1, PTL

\* The log row of a request says what happened: the status the client gets, the
\* 429s that were retried, the chunks that were delivered; for any number of
\* concurrent requests and whatever the provider answers.
THEOREM RowsAreFaithful == Spec => []RowIsFaithful
<1>1. IInv => RowIsFaithful
  BY DEF IInv
<1>2. QED
  BY Invariance, <1>1, PTL

\* Post-request hooks are started for the logged successes and nothing else.
THEOREM PostHooksObserveSuccess == Spec => []PostHooksFollowSuccess
<1>1. IInv => PostHooksFollowSuccess
  BY DEF IInv
<1>2. QED
  BY Invariance, <1>1, PTL

\* Once a status has been written the request is not answered or sent again.
THEOREM RequestsAreAnsweredOnce == Spec => AnsweredOnce
<1>1. IInv /\ [Next]_vars =>
        [\A r \in Requests : answer[r] # NoStatus =>
            answer'[r] = answer[r] /\ sent'[r] = sent[r]]_vars
  BY AnsweredStep DEF Kept
<1>2. QED
  BY Invariance, <1>1, PTL DEF Spec, AnsweredOnce

\* The rows of the handlers that are about to reply are there.
THEOREM RepliesAreRelayed == Spec => []RepliesHaveRows
<1>1. Init => RepliesHaveRows
  BY DEF Init, RepliesHaveRows
<1>2. IInv /\ RepliesHaveRows /\ [Next]_vars => RepliesHaveRows'
  BY RepliesStep
<1>3. QED
  BY Invariance, <1>1, <1>2, PTL DEF Spec

\* ProxyPipeline implements RequestLedger: for any number of requests, attempts
\* and chunks, a refused request leaves no trace, and client, log and post hooks
\* are told one verdict, each once, and nothing after the process has gone.
THEOREM PipelineImplementsLedger == Spec => ImplementsLedger
<1>1. Init => Ledger!Init
  BY DEF Init, Ledger!Init, Verdict, Observed, Spawned, Running
<1>2. IInv /\ RepliesHaveRows /\ [Next]_vars => [Ledger!Next]_(Ledger!vars)
  BY LedgerStep
<1>3. QED
  BY Invariance, RepliesAreRelayed, <1>1, <1>2, PTL
  DEF Spec, ImplementsLedger, Ledger!Spec

\* README.md:101 has every request in the log, failed ones too (EveryRequestIsLogged,
\* which the code violates).  What does hold: of the requests that reached the provider
\* only those are missing that the proxy answered with a 500 or 502 of its own.
THEOREM OnlyOwnErrorsAreUnlogged == Spec => []UnloggedAreErrors
<1>1. Init => UnloggedAreErrors
  BY DEF Init, UnloggedAreErrors
<1>2. IInv /\ RepliesHaveRows /\ UnloggedAreErrors /\ [Next]_vars => UnloggedAreErrors'
  BY UnloggedStep
<1>3. QED
  BY Invariance, RepliesAreRelayed, <1>1, <1>2, PTL DEF Spec

\* hooks/types.go:16 promises every post hook its payload (PostHookGetsPayload, which
\* the code violates).  What does hold: a hook is given it after every full response
\* and every stream of at most one chunk, and after no other.
THEOREM PayloadsOfJSONArrive == Spec => []PayloadsArrive
<1>1. Init => PayloadsArrive
  BY DEF Init, PayloadsArrive
<1>2. IInv /\ PayloadsArrive /\ [Next]_vars => PayloadsArrive'
  BY PayloadStep
<1>3. QED
  BY Invariance, <1>1, <1>2, PTL DEF Spec

\* However often the provider answers 429 and however it cuts its stream, no request
\* keeps its handler for good: each step of the handler leaves fewer steps to come,
\* and none of another handler, a client, a goroutine or main leaves more.  This is
\* the part of EveryRequestEnds that needs no fairness.
RunsDown ==
    [][\A r \in Requests :
          /\ StepsLeft(r)' \in 0..StepsLeft(r)
          /\ RequestStep(r) => StepsLeft(r)' < StepsLeft(r)]_vars

THEOREM HandlersRunDown == Spec => RunsDown
<1> DEFINE Counts == \A r \in Requests : StepsLeft(r) \in Nat
<1>1. IInv => Counts
  <2>1. SUFFICES ASSUME IInv, NEW r \in Requests
                 PROVE  StepsLeft(r) \in Nat
    OBVIOUS
  <2>2. attempt \in [Requests -> 0..(maxAttempts - 1)] /\ chunks \in [Requests -> 0..MaxChunks]
    BY <2>1 DEF IInv, TypeOK
  <2>3. /\ AttemptsLeft(r) \in Nat /\ MaxChunks \in Nat /\ MaxChunks - chunks[r] \in Nat
    BY <2>2, AttemptsAssumption, ChunksAssumption DEF AttemptsLeft
  <2>4. QED
    BY <2>3 DEF StepsLeft
<1>2. ASSUME IInv, Counts, Counts', [Next]_vars, NEW q \in Requests
      PROVE  StepsLeft(q)' \in 0..StepsLeft(q)
  <2>1. StepsLeft(q) \in Nat /\ StepsLeft(q)' \in Nat
    BY <1>2
  <2>2. ASSUME UNCHANGED <<pc, attempt, chunks>>
        PROVE  StepsLeft(q)' = StepsLeft(q)
    BY <2>2 DEF StepsLeft, AttemptsLeft
  <2>3. \/ UNCHANGED <<pc, attempt, chunks>>
        \/ \E r \in Requests : RequestStep(r) \/ Admit(r)
    BY <1>2 DEF Next, PostRequestHook, Disconnect, LogRequest, Signal, Exit, vars, reqVars
  <2>4. ASSUME NEW r \in Requests, RequestStep(r) \/ Admit(r)
        PROVE  StepsLeft(q)' <= StepsLeft(q)
    <3>1. CASE q = r
      BY <1>2, <2>1, <2>4, <3>1, StepFalls
    <3>2. CASE q # r
      BY <1>2, <2>1, <2>4, <3>2, OthersStay DEF IInv
    <3>3. QED
      BY <3>1, <3>2
  <2>5. QED
    BY <2>1, <2>2, <2>3, <2>4
<1>3. IInv /\ Counts /\ Counts' /\ [Next]_vars =>
        [\A r \in Requests :
            /\ StepsLeft(r)' \in 0..StepsLeft(r)
            /\ RequestStep(r) => StepsLeft(r)' < StepsLeft(r)]_vars
  BY <1>2, StepFalls
<1>4. QED
  <2> HIDE DEF Counts
  <2>1. QED
    BY Invariance, <1>1, <1>3, PTL DEF Spec, RunsDown
=============================================================================
