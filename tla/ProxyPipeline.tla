---------------------------- MODULE ProxyPipeline ----------------------------
(***************************************************************************)
(* The life of a chat completion in proxy/handler.go: admission, the       *)
(* pre-request gate, the upstream attempts with their back-off on 429, the *)
(* full or streamed answer, the goroutines that write the log row and run  *)
(* the post-request hooks, and the shutdown of main.go that races them.    *)
(*                                                                         *)
(* A request is a goroutine.  Payloads are left out: a status and, for a   *)
(* stream, the number of chunks are all the properties tell apart.  What   *)
(* the gate does inside is HookRunner's subject; here it is its verdict.   *)
(***************************************************************************)
EXTENDS Naturals, Sequences, FiniteSets

CONSTANTS
    Requests,       \* the requests clients send, one goroutine each
    maxAttempts,    \* upstream attempts per request (3 in the code)
    MaxChunks,      \* bound on the chunks of a streamed response
    OtherStatuses   \* statuses a provider answers besides 200 and 429

ASSUME AttemptsAssumption == maxAttempts \in Nat \ {0}
ASSUME ChunksAssumption == MaxChunks \in Nat
ASSUME StatusAssumption ==
    OtherStatuses \subseteq Nat /\ {0, 200, 429} \cap OtherStatuses = {}

VARIABLES
    pc,        \* where each request's goroutine is
    ctx,       \* r.Context(): "live", or "done" once the client went away
    stream,    \* req.Stream after the hooks
    attempt,   \* doUpstream's loop variable
    retries,   \* doUpstream's retries
    seen,      \* history: the statuses the provider answered, in order
    sent,      \* history: requests handed to the provider
    chunks,    \* chunks translated and written to the client (resBuf)
    answer,    \* status the client was answered with, NoStatus before
    logging,   \* rows whose logRequest goroutine has not inserted yet
    requests,  \* the rows of the requests table
    failed,    \* history: rows whose Insert returned an error
    post,      \* post-request hooks of each request: "none", "spawned", "run"
    stdin,     \* whether the post hook was given its payload
    server     \* main: "up", "draining" after the signal, then "exited", or
               \* "aborted" when Shutdown ran into its deadline

reqVars == <<pc, ctx, stream, attempt, retries, seen, sent, chunks, answer>>
logVars == <<logging, requests, failed>>
postVars == <<post, stdin>>
vars == <<reqVars, logVars, postVars, server>>

NoStatus == 0
UpstreamStatuses == {200, 429} \cup OtherStatuses
ProxyStatuses == {400, 401, 403, 404, 500, 502}

\* The columns of a row that the properties read.
Rows == [id : Requests, status : UpstreamStatuses,
         retries : 0..(maxAttempts - 1), chunks : 0..MaxChunks]

Init ==
    /\ pc = [r \in Requests |-> "new"]
    /\ ctx = [r \in Requests |-> "live"]
    /\ stream = [r \in Requests |-> FALSE]
    /\ attempt = [r \in Requests |-> 0]
    /\ retries = [r \in Requests |-> 0]
    /\ seen = [r \in Requests |-> << >>]
    /\ sent = [r \in Requests |-> 0]
    /\ chunks = [r \in Requests |-> 0]
    /\ answer = [r \in Requests |-> NoStatus]
    /\ logging = {} /\ requests = {} /\ failed = {}
    /\ post = [r \in Requests |-> "none"]
    /\ stdin = [r \in Requests |-> "none"]
    /\ server = "up"

----------------------------------------------------------------------------
Running == server \in {"up", "draining"}
Goto(r, from, to) == Running /\ pc[r] = from /\ pc' = [pc EXCEPT ![r] = to]

\* writeError, or the end of a handler that has written its answer.
Answer(r, from, status) ==
    /\ Goto(r, from, "done")
    /\ answer' = [answer EXCEPT ![r] = status]

\* go h.logRequest(...)
SpawnLog(r, status) ==
    logging' = logging \cup
        {[id |-> r, status |-> status, retries |-> retries[r], chunks |-> chunks[r]]}

(* ServeHTTP *)

\* Path and method, proxy key and body are checked; then the alias and the
\* translator are chosen.  Shutdown has closed the listener before.
Admit(r) ==
    /\ server = "up"
    /\ \/ \E status \in {404, 401, 400} : Answer(r, "new", status)
       \/ Goto(r, "new", "hooks") /\ UNCHANGED answer
    /\ UNCHANGED <<ctx, stream, attempt, retries, seen, sent, chunks>>
    /\ UNCHANGED <<logVars, postVars, server>>

\* A mutated form: no return after the 403.
BlockAndGoOn(r) ==
    /\ Goto(r, "hooks", "build")
    /\ \/ answer' = [answer EXCEPT ![r] = 403] /\ UNCHANGED stream
       \/ /\ \E s \in BOOLEAN : stream' = [stream EXCEPT ![r] = s]
          /\ UNCHANGED answer
    /\ UNCHANGED <<ctx, attempt, retries, seen, sent, chunks>>
    /\ UNCHANGED <<logVars, postVars, server>>

\* RunPreRequest: a block ends the request; an error of the runner, or a
\* modification, does not.  The modification is applied before Stream is read.
PreRequestHooks(r) ==
    /\ \/ Answer(r, "hooks", 403) /\ UNCHANGED stream
       \/ /\ Goto(r, "hooks", "build")
          /\ \E s \in BOOLEAN : stream' = [stream EXCEPT ![r] = s]
          /\ UNCHANGED answer
    /\ UNCHANGED <<ctx, attempt, retries, seen, sent, chunks>>
    /\ UNCHANGED <<logVars, postVars, server>>

(* doUpstream *)

\* BuildRequest fails for want of a key or on a bad URL: that depends on the
\* request and the environment only, so it shows at the first attempt.
BuildFails(r) ==
    /\ attempt[r] = 0
    /\ Answer(r, "build", 500)
    /\ UNCHANGED <<ctx, stream, attempt, retries, seen, sent, chunks>>
    /\ UNCHANGED <<logVars, postVars, server>>

\* A mutated form: the error of a context that is over ends nothing.
SendWhileLive(r) ==
    /\ ctx[r] = "live"
    /\ Goto(r, "build", "sent")
    /\ sent' = [sent EXCEPT ![r] = @ + 1]
    /\ UNCHANGED <<ctx, stream, attempt, retries, seen, chunks, answer>>
    /\ UNCHANGED <<logVars, postVars, server>>

\* client.Do hands the request to the provider unless its context is over.
Send(r) ==
    /\ \/ /\ ctx[r] = "live"
          /\ Goto(r, "build", "sent")
          /\ sent' = [sent EXCEPT ![r] = @ + 1]
          /\ UNCHANGED answer
       \/ /\ ctx[r] = "done"
          /\ Answer(r, "build", 502)
          /\ UNCHANGED sent
    /\ UNCHANGED <<ctx, stream, attempt, retries, seen, chunks>>
    /\ UNCHANGED <<logVars, postVars, server>>

\* client.Do fails: connection, client timeout or a cancelled context.
TransportError(r) ==
    /\ Answer(r, "sent", 502)
    /\ UNCHANGED <<ctx, stream, attempt, retries, seen, sent, chunks>>
    /\ UNCHANGED <<logVars, postVars, server>>

\* A mutated form: one attempt too many.
PastLastAttempt(r) == attempt[r] = maxAttempts

LastAttempt(r) == attempt[r] = maxAttempts - 1

\* A mutated form: a retry that is not counted.
RespondUncounted(r) ==
    /\ \E status \in UpstreamStatuses :
          /\ seen' = [seen EXCEPT ![r] = Append(@, status)]
          /\ IF status # 429 \/ LastAttempt(r) THEN Goto(r, "sent", "response")
                                               ELSE Goto(r, "sent", "backoff")
    /\ UNCHANGED <<ctx, stream, attempt, retries, sent, chunks, answer>>
    /\ UNCHANGED <<logVars, postVars, server>>

\* client.Do returns a response: a 429 is retried except on the last attempt.
Respond(r) ==
    /\ \E status \in UpstreamStatuses :
          /\ seen' = [seen EXCEPT ![r] = Append(@, status)]
          /\ \/ /\ status # 429 \/ LastAttempt(r)
                /\ Goto(r, "sent", "response")
                /\ UNCHANGED retries
             \/ /\ status = 429 /\ ~LastAttempt(r)
                /\ Goto(r, "sent", "backoff")
                /\ retries' = [retries EXCEPT ![r] = @ + 1]
    /\ UNCHANGED <<ctx, stream, attempt, sent, chunks, answer>>
    /\ UNCHANGED <<logVars, postVars, server>>

\* The back-off timer fires; select may pick it also when the context is over.
Retry(r) ==
    /\ Goto(r, "backoff", "build")
    /\ attempt' = [attempt EXCEPT ![r] = @ + 1]
    /\ UNCHANGED <<ctx, stream, retries, seen, sent, chunks, answer>>
    /\ UNCHANGED <<logVars, postVars, server>>

AbandonBackoff(r) ==
    /\ ctx[r] = "done"
    /\ Answer(r, "backoff", 502)
    /\ UNCHANGED <<ctx, stream, attempt, retries, seen, sent, chunks>>
    /\ UNCHANGED <<logVars, postVars, server>>

----------------------------------------------------------------------------
(* handleFull and handleStream *)

Status(r) == seen[r][Len(seen[r])]
Streams(r) == stream[r] /\ Status(r) = 200

\* A mutated form: the row is logged before the body is translated.
BodyFailsAfterLog(r) ==
    /\ pc[r] = "response" /\ ~stream[r]
    /\ \/ Answer(r, "response", 502) /\ UNCHANGED logging
       \/ Status(r) = 200 /\ Answer(r, "response", 500) /\ SpawnLog(r, 200)
    /\ UNCHANGED <<ctx, stream, attempt, retries, seen, sent, chunks>>
    /\ UNCHANGED <<requests, failed, postVars, server>>

\* handleFull: the body cannot be read (502), or a 200 body cannot be translated
\* (500).  handleStream ignores a body it cannot read.
BodyFails(r) ==
    /\ pc[r] = "response" /\ ~stream[r]
    /\ \/ Answer(r, "response", 502)
       \/ Status(r) = 200 /\ Answer(r, "response", 500)
    /\ UNCHANGED <<ctx, stream, attempt, retries, seen, sent, chunks>>
    /\ UNCHANGED <<logVars, postVars, server>>

\* Two mutated forms: post hooks whatever the status, and no row.
LogAndAlwaysPost(r) ==
    /\ pc[r] = "response" /\ ~Streams(r)
    /\ Goto(r, "response", "reply")
    /\ SpawnLog(r, Status(r))
    /\ post' = [post EXCEPT ![r] = "spawned"]
    /\ UNCHANGED <<ctx, stream, attempt, retries, seen, sent, chunks, answer>>
    /\ UNCHANGED <<requests, failed, stdin, server>>

ReplyUnlogged(r) ==
    /\ pc[r] = "response" /\ ~Streams(r)
    /\ Goto(r, "response", "reply")
    /\ UNCHANGED <<ctx, stream, attempt, retries, seen, sent, chunks, answer>>
    /\ UNCHANGED <<logVars, postVars, server>>

\* Body in hand: log the row in the background, and for a 200 start the post
\* hooks; the answer is written after both.
LogResponse(r) ==
    /\ pc[r] = "response" /\ ~Streams(r)
    /\ Goto(r, "response", "reply")
    /\ SpawnLog(r, Status(r))
    /\ post' = IF Status(r) = 200 THEN [post EXCEPT ![r] = "spawned"] ELSE post
    /\ UNCHANGED <<ctx, stream, attempt, retries, seen, sent, chunks, answer>>
    /\ UNCHANGED <<requests, failed, stdin, server>>

Reply(r) ==
    /\ pc[r] = "reply"
    /\ Answer(r, "reply", Status(r))
    /\ UNCHANGED <<ctx, stream, attempt, retries, seen, sent, chunks>>
    /\ UNCHANGED <<logVars, postVars, server>>

\* One scanned line that translates to a chunk and is not the last; lines that
\* are skipped or fail to translate change nothing.
StreamChunk(r) ==
    /\ Running /\ pc[r] = "response" /\ Streams(r)
    /\ chunks[r] < MaxChunks
    /\ chunks' = [chunks EXCEPT ![r] = @ + 1]
    /\ answer' = [answer EXCEPT ![r] = 200]
    /\ UNCHANGED <<pc, ctx, stream, attempt, retries, seen, sent>>
    /\ UNCHANGED <<logVars, postVars, server>>

\* isDone, the end of the body or a scan error: in each case [DONE] is written,
\* the row is logged with the upstream status and the post hooks start.
StreamEnd(r) ==
    /\ pc[r] = "response" /\ Streams(r)
    /\ Answer(r, "response", 200)
    /\ SpawnLog(r, Status(r))
    /\ post' = [post EXCEPT ![r] = "spawned"]
    /\ UNCHANGED <<ctx, stream, attempt, retries, seen, sent, chunks>>
    /\ UNCHANGED <<requests, failed, stdin, server>>

----------------------------------------------------------------------------
(* Background goroutines, clients and main *)

\* logRequest: Insert succeeds, or its error is only printed.
LogRequest(row) ==
    /\ Running
    /\ logging' = logging \ {row}
    /\ \/ requests' = requests \cup {row} /\ UNCHANGED failed
       \/ failed' = failed \cup {row} /\ UNCHANGED requests
    /\ UNCHANGED <<reqVars, postVars, server>>

\* A streamed response reaches RunPostRequestAsync as its chunks one after the
\* other, which is JSON only for a single chunk (and null for none); json.Marshal
\* of the payload fails otherwise and the hook is run on an empty stdin.
PayloadIsJSON(r) == stream[r] => chunks[r] <= 1

PostRequestHook(r) ==
    /\ Running /\ post[r] = "spawned"
    /\ post' = [post EXCEPT ![r] = "run"]
    /\ stdin' = [stdin EXCEPT ![r] = IF PayloadIsJSON(r) THEN "payload" ELSE "empty"]
    /\ UNCHANGED <<reqVars, logVars, server>>

Disconnect(r) ==
    /\ Running /\ pc[r] \notin {"new", "done"} /\ ctx[r] = "live"
    /\ ctx' = [ctx EXCEPT ![r] = "done"]
    /\ UNCHANGED <<pc, stream, attempt, retries, seen, sent, chunks, answer>>
    /\ UNCHANGED <<logVars, postVars, server>>

\* SIGINT or SIGTERM: srv.Shutdown closes the listener.
Signal ==
    /\ server = "up"
    /\ server' = "draining"
    /\ UNCHANGED <<reqVars, logVars, postVars>>

\* Shutdown returns when every handler has, or with an error after ten seconds;
\* main returns and takes the log and post-hook goroutines with it.
Exit ==
    /\ server = "draining"
    /\ \/ /\ \A r \in Requests : pc[r] \in {"new", "done"}
          /\ server' = "exited"
       \/ server' = "aborted"
    /\ UNCHANGED <<reqVars, logVars, postVars>>

----------------------------------------------------------------------------
\* A step that the request's own goroutine, the provider or a timer owes it.
RequestStep(r) ==
    \/ PreRequestHooks(r)
    \/ BuildFails(r) \/ Send(r) \/ TransportError(r) \/ Respond(r) \/ Retry(r)
    \/ AbandonBackoff(r)
    \/ BodyFails(r) \/ LogResponse(r) \/ Reply(r) \/ StreamChunk(r) \/ StreamEnd(r)

Next ==
    \/ \E r \in Requests :
          Admit(r) \/ RequestStep(r) \/ PostRequestHook(r) \/ Disconnect(r)
    \/ \E row \in logging : LogRequest(row)
    \/ Signal
    \/ Exit
    \/ ~Running /\ UNCHANGED vars

Spec == Init /\ [][Next]_vars

\* Handlers run on; the provider answers or the client's ten minutes pass, the
\* back-off timer fires, hooks end (see HookRunner for those that do not).
\* Arrivals, disconnects and the signal are not forced.
Fairness ==
    /\ \A r \in Requests : WF_vars(RequestStep(r))
    /\ \A r \in Requests :
          WF_vars(\E row \in logging : row.id = r /\ LogRequest(row))
    /\ \A r \in Requests : WF_vars(PostRequestHook(r))
    /\ WF_vars(Exit)

FairSpec == Spec /\ Fairness

----------------------------------------------------------------------------
Places == {"new", "hooks", "build", "sent", "backoff", "response", "reply", "done"}

TypeOK ==
    /\ pc \in [Requests -> Places]
    /\ ctx \in [Requests -> {"live", "done"}]
    /\ stream \in [Requests -> BOOLEAN]
    /\ attempt \in [Requests -> 0..(maxAttempts - 1)]
    /\ retries \in [Requests -> 0..(maxAttempts - 1)]
    /\ seen \in [Requests -> Seq(UpstreamStatuses)]
    /\ sent \in [Requests -> 0..maxAttempts]
    /\ chunks \in [Requests -> 0..MaxChunks]
    /\ answer \in [Requests -> {NoStatus} \cup ProxyStatuses \cup UpstreamStatuses]
    /\ logging \subseteq Rows /\ requests \subseteq Rows /\ failed \subseteq Rows
    /\ post \in [Requests -> {"none", "spawned", "run"}]
    /\ stdin \in [Requests -> {"none", "payload", "empty"}]
    /\ server \in {"up", "draining", "exited", "aborted"}

\* Every row a logRequest goroutine was ever started for.
Spawned == logging \cup requests \cup failed

\* The dashboard tells the truth about a request: its row carries the status the
\* provider answered last and the client gets, the number of 429s that were
\* retried before it, and the whole streamed answer; a 429 is passed on only
\* after the last attempt (doUpstream, handleFull and handleStream).
RowIsFaithful ==
    \A row \in Spawned : LET r == row.id IN
        /\ Len(seen[r]) = row.retries + 1
        /\ \A i \in 1..row.retries : seen[r][i] = 429
        /\ row.status = Status(r)
        /\ row.status = 429 => sent[r] = maxAttempts
        /\ row.chunks = chunks[r]
        /\ answer[r] \in {NoStatus, row.status}

\* Nothing happens behind an answer: once a status is written the request is
\* neither answered again nor sent (again) to the provider.  A rejection, a block
\* or an error that did not return at once would break this.
AnsweredOnce ==
    [][\A r \in Requests : answer[r] # NoStatus =>
          answer'[r] = answer[r] /\ sent'[r] = sent[r]]_vars

\* Post-request hooks observe exactly the successful responses that are logged.
PostHooksFollowSuccess ==
    \A r \in Requests :
        post[r] # "none" <=> \E row \in Spawned : row.id = r /\ row.status = 200

\* The pipeline as a ledger: the verdict on a request is the status of the row that
\* was spawned for it.
Verdict == [r \in Requests |->
    IF \E row \in Spawned : row.id = r THEN Status(r) ELSE NoStatus]

Observed == {r \in Requests : post[r] = "run"}

Ledger == INSTANCE RequestLedger WITH
    Statuses <- (ProxyStatuses \cup UpstreamStatuses) \ {200},
    verdict <- Verdict,
    log <- requests,
    observed <- Observed,
    stopped <- ~Running

\* However the handlers, the goroutines they leave behind, the clients and the
\* shutdown interleave, answer, row and post hooks go by one verdict: nothing that
\* was refused is logged or observed, nothing is logged twice, and nothing happens
\* after the process has gone.
ImplementsLedger == Ledger!Spec

\* A client that stays is answered, whatever the provider does, unless the
\* server stops first.
EveryRequestEnds ==
    \A r \in Requests : pc[r] = "hooks" ~> (pc[r] = "done" \/ ~Running)

\* An answer relayed from the provider, or a stream that has begun, is followed by
\* its row, unless the insert fails or the server stops: the goroutine that logs
\* it outlives the handler.
RelayedAnswerIsLogged ==
    \A r \in Requests :
        (pc[r] = "reply" \/ (pc[r] = "response" /\ answer[r] = 200))
            ~> (~Running \/ \E row \in requests \cup failed : row.id = r)

----------------------------------------------------------------------------
(* Expectations of the documentation that the code does not meet           *)

\* README.md:101: "Click any request -- including failed ones -- to see the exact
\* JSON the proxy sent upstream".  A transport error, an unreadable body or a
\* translation error ends the request without a row.
EveryRequestIsLogged ==
    \A r \in Requests :
        pc[r] = "done" /\ sent[r] > 0 => \E row \in Spawned : row.id = r

\* hooks/types.go:16: "PostRequestPayload is sent on stdin to every post-request
\* hook".
PostHookGetsPayload == \A r \in Requests : post[r] = "run" => stdin[r] = "payload"
=============================================================================
