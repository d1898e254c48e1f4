------------------------------ MODULE Exchange ------------------------------
(***************************************************************************)
(* What one chat completion says to its provider and hears from it, in     *)
(* proxy/handler.go: the choice of the translator, the request after the   *)
(* hooks, the attempts of doUpstream with their waits, and the answer,     *)
(* full or line by line, as the client sees it and as the log keeps it.    *)
(*                                                                         *)
(* ProxyPipeline has many requests without their contents; here there is   *)
(* one, since exchanges share nothing, with what it carries.               *)
(***************************************************************************)
EXTENDS Translators

CONSTANTS
    Calls,          \* X-Provider header ("" for none) and request of a client
    Aliases,        \* targets of the aliases: model, provider and URL
    Edits,          \* hook modifications: the fields that decode, and their values
    Environments,   \* sets of API keys the environment may hold
    OtherStatuses,  \* statuses a provider answers besides 200 and 429
    RetryAfters,    \* seconds in Retry-After, 0 when there are none
    Usages,         \* token counts a line of a provider carries
    maxAttempts,    \* upstream attempts (3 in the code)
    MaxLines,       \* bound on the lines of a stream
    Second, baseRetryWait, maxRetryWait,
    Half            \* a time.Duration is in -Half..Half-1 (2^63 in the code)

Headers == Providers \cup {""}

ASSUME CallsAssumption ==
    Calls \subseteq [header : Headers, req : ChatRequests]
ASSUME AliasAssumption ==
    Aliases \subseteq [model : Models, provider : Headers, url : Bases]
ASSUME EditsAssumption ==
    Edits \subseteq [fields : SUBSET {"model", "messages", "maxTokens", "stream", "n"},
                     to : ChatRequests]
ASSUME StatusAssumption == OtherStatuses \subseteq Nat \ {0, 200, 429}
ASSUME UsagesAssumption == Usages \subseteq TokenCounts
ASSUME AttemptsAssumption == maxAttempts \in Nat \ {0} /\ MaxLines \in Nat
ASSUME WaitsAssumption ==
    /\ RetryAfters \subseteq Nat
    /\ Second \in Nat \ {0} /\ baseRetryWait \in Nat /\ maxRetryWait \in Nat /\ Half \in Nat
    /\ maxRetryWait < Half
    /\ \A attempt \in 1..maxAttempts : attempt * baseRetryWait < Half

VARIABLES
    pc,           \* where the handler is
    environment,  \* API keys that are set; they do not change
    req,          \* the ChatRequest
    provider,     \* the X-Provider header, then the provider chosen
    base,         \* aliasURL
    reqBody,      \* m.reqBody, what the log and the hooks have of the request
    wires,        \* history: the requests put on the wire, one per attempt
    meta,         \* the upstreamMeta of the last one
    retries,      \* attempts that were answered with 429 and retried
    retryAfter,   \* Retry-After of the 429 it is backing off from
    wait,         \* how long it waits
    lines,        \* history: what the provider has written of its answer
    read,         \* lines of it the handler has read
    inputTok, outputTok,
    resBuf,       \* chunks for the log
    client,       \* chunks written to the client
    answer,       \* status it was answered with, 0 before
    errorKey,     \* the key in the text of the error it was answered with, "" for none
    rows          \* the row given to logRequest, if any

choiceVars == <<environment, req, provider, base, reqBody>>
sendVars == <<wires, meta, retries, retryAfter, wait>>
readVars == <<read, inputTok, outputTok, resBuf, client>>
endVars == <<answer, errorKey, rows>>
vars == <<pc, choiceVars, sendVars, lines, readVars, endVars>>

\* The translator; it is chosen before the hooks and not again.
T == Translator(provider)

Init ==
    /\ pc = "new"
    /\ \E c \in Calls : req = c.req /\ provider = c.header
    /\ environment \in Environments
    /\ base = "" /\ reqBody = req
    /\ wires = << >> /\ meta = << >>
    /\ retries = 0 /\ retryAfter = 0 /\ wait = 0
    /\ lines = << >> /\ read = 0 /\ inputTok = 0 /\ outputTok = 0
    /\ resBuf = << >> /\ client = << >>
    /\ answer = 0 /\ errorKey = "" /\ rows = << >>

Goto(from, to) == pc = from /\ pc' = to

WriteError(from, status) == Goto(from, "done") /\ answer' = status /\ UNCHANGED rows

\* The text of the error quotes the URL.
QuotesUrl == errorKey' = UrlKey(T, environment, base)

----------------------------------------------------------------------------
(* ServeHTTP                                                               *)

\* No alias matches, or the lookup fails, or one does and replaces the header.
ChooseProvider ==
    /\ Goto("new", "hooks")
    /\ \/ /\ provider' = IF provider = "" THEN DetectProvider(req.model) ELSE provider
          /\ UNCHANGED <<req, base>>
       \/ \E a \in Aliases :
             /\ req' = [req EXCEPT !.model = a.model]
             /\ provider' = IF a.provider = "" THEN DetectProvider(a.model) ELSE a.provider
             /\ base' = a.url
    /\ UNCHANGED <<environment, reqBody, sendVars, lines, readVars, endVars>>

\* json.Unmarshal into a slice that has elements: what an element does not say is
\* left as the element at its place had it.
MessagesAfter(new, old) ==
    [i \in 1..Len(new) |->
        LET was == IF i <= Len(old) THEN old[i] ELSE [role |-> "", text |-> 0]
        IN  [role |-> IF new[i].role = "" THEN was.role ELSE new[i].role,
             text |-> IF new[i].text = 0 THEN was.text ELSE new[i].text]]

\* json.Unmarshal into req: a field that is not there, or of a wrong type, stays.
Edited(e) ==
    [model |-> IF "model" \in e.fields THEN e.to.model ELSE req.model,
     messages |-> IF "messages" \in e.fields THEN MessagesAfter(e.to.messages, req.messages)
                                             ELSE req.messages,
     maxTokens |-> IF "maxTokens" \in e.fields THEN e.to.maxTokens ELSE req.maxTokens,
     stream |-> IF "stream" \in e.fields THEN e.to.stream ELSE req.stream,
     n |-> IF "n" \in e.fields THEN e.to.n ELSE req.n]

\* A mutated form: the request is marshalled for the log before the hooks.
MarshalThenEdit ==
    \/ /\ WriteError("hooks", 403)
       /\ UNCHANGED <<choiceVars, sendVars, lines, readVars, errorKey>>
    \/ /\ Goto("hooks", "send")
       /\ \/ UNCHANGED req
          \/ \E e \in Edits : req' = Edited(e)
       /\ reqBody' = req
       /\ UNCHANGED <<environment, provider, base, sendVars, lines, readVars, endVars>>

\* A hook blocks, or edits the request, or leaves it.
RunHooks ==
    \/ /\ WriteError("hooks", 403)
       /\ UNCHANGED <<choiceVars, sendVars, lines, readVars, errorKey>>
    \/ /\ Goto("hooks", "send")
       /\ \/ UNCHANGED req
          \/ \E e \in Edits : req' = Edited(e)
       /\ reqBody' = req'
       /\ UNCHANGED <<environment, provider, base, sendVars, lines, readVars, endVars>>

----------------------------------------------------------------------------
(* doUpstream                                                              *)

\* One attempt: the request is built, captured and handed to the client.
Send ==
    /\ UNCHANGED <<choiceVars, retries, retryAfter, wait, lines, readVars>>
    /\ \/ /\ BuildFails(T, environment, base, req.model)
          /\ WriteError("send", 500) /\ QuotesUrl
          /\ UNCHANGED <<wires, meta>>
       \/ /\ ~BuildFails(T, environment, base, req.model)
          /\ Goto("send", "sent")
          /\ LET wire == BuildRequest(T, environment, base, req) IN
                /\ wires' = Append(wires, wire)
                /\ meta' = <<Capture(wire)>>
          /\ UNCHANGED endVars

\* client.Do fails, with the URL in its error, or the client leaves while the handler
\* waits: ctx.Err().
GiveUp ==
    /\ \/ WriteError("sent", 502) /\ QuotesUrl
       \/ WriteError("backoff", 502) /\ UNCHANGED errorKey
    /\ UNCHANGED <<choiceVars, sendVars, lines, readVars>>

\* An int64 product.
Wrap(x) == ((x + Half) % (2 * Half)) - Half

Capped(d) == IF d > maxRetryWait THEN maxRetryWait ELSE d

\* A mutated form: a Retry-After is taken as it is.
RetryWaitUncapped(seconds, attempt) ==
    IF seconds > 0 THEN Wrap(seconds * Second) ELSE Capped(Wrap((attempt + 1) * baseRetryWait))

RetryWait(seconds, attempt) ==
    Capped(Wrap(IF seconds > 0 THEN seconds * Second ELSE (attempt + 1) * baseRetryWait))

\* A mutated form: one attempt too many.
PastLastAttempt == retries = maxAttempts

LastAttempt == retries = maxAttempts - 1

BackOff ==
    /\ ~LastAttempt
    /\ Goto("sent", "backoff")
    /\ \E seconds \in RetryAfters :
          retryAfter' = seconds /\ wait' = RetryWait(seconds, retries)
    /\ retries' = retries + 1
    /\ UNCHANGED <<choiceVars, wires, meta, lines, readVars, endVars>>

\* time.After: at once, when the wait is not positive.  Nobody remembers the wait.
Retry ==
    /\ Goto("backoff", "send")
    /\ retryAfter' = 0 /\ wait' = 0
    /\ UNCHANGED <<choiceVars, wires, meta, retries, lines, readVars, endVars>>

----------------------------------------------------------------------------
(* handleFull, and what handleStream has in common with it                 *)

\* go h.logRequest(...).  response is a stream's (another body is kept whole); the
\* post-request hooks are the subject of ProxyPipeline.
LogRow(status, in, out) ==
    rows' = <<[provider |-> provider, model |-> req.model, request |-> reqBody,
               status |-> status, retries |-> retries, in |-> in, out |-> out,
               response |-> resBuf, upstream |-> meta[1]]>>

\* Any status but 200 is logged and passed on; 429 gets here on the last attempt.
RelayFailure ==
    /\ Goto("sent", "done")
    /\ \E status \in OtherStatuses \cup (IF LastAttempt THEN {429} ELSE {}) :
          answer' = status /\ LogRow(status, 0, 0)
    /\ UNCHANGED <<choiceVars, sendVars, lines, readVars, errorKey>>

\* Lines, or bodies, of some kinds, with the counts a provider has.
Carrying(kinds, usages, finishes, choices) ==
    [kind : kinds, usage : usages, finish : finishes, choice : choices]

\* A full body cannot be read, or it is there and is translated or not.
RelayBody ==
    /\ ~req.stream
    /\ UNCHANGED <<choiceVars, sendVars, read, inputTok, outputTok, resBuf, client, errorKey>>
    /\ \/ WriteError("sent", 502) /\ UNCHANGED lines
       \/ \E body \in Carrying({"body", "usage", "garbage"}, Usages, {""}, {0}) :
             /\ lines' = <<body>>
             /\ \/ /\ ~Translates(T, body)
                   /\ WriteError("sent", 500)
                \/ /\ Translates(T, body)
                   /\ Goto("sent", "done")
                   /\ answer' = 200
                   /\ LogRow(200, body.usage.in, body.usage.out)

----------------------------------------------------------------------------
(* handleStream                                                            *)

StartStream ==
    /\ req.stream
    /\ Goto("sent", "stream")
    /\ answer' = 200
    /\ UNCHANGED <<choiceVars, sendVars, lines, readVars, errorKey, rows>>

\* A line after which a choice has no text, and of Anthropic and Gemini no usage
\* either, is to come.
Ends(l) == IF T = "anthropic" THEN l.kind = "delta" ELSE l.kind = "part" /\ l.finish # ""

HasEnded(choice) == \E i \in 1..Len(lines) : Ends(lines[i]) /\ lines[i].choice = choice

Reported == {u \in Usages : u.in > 0 /\ u.out > 0}

\* The providers, as far as the translators rely on them: what they may write next.
AnthropicNext ==
    IF HasEnded(0) THEN {Line("stop")}
    ELSE IF \E i \in 1..Len(lines) : lines[i].kind = "start"
         THEN {Line("text")} \cup Carrying({"delta"}, Reported, {""}, {0})
         ELSE Carrying({"start"}, Usages, {""}, {0})

GeminiNext ==
    IF HasEnded(0) THEN {}
    ELSE Carrying({"part", "usage"}, Usages, {""}, {0})
             \cup Carrying({"part"}, Reported, {"STOP", "MAX_TOKENS", "SAFETY"}, {0})

OpenChoices == {c \in 0..(IF req.n > 1 THEN req.n - 1 ELSE 0) : ~HasEnded(c)}

OpenAINext ==
    IF OpenChoices = {} THEN Carrying({"usage"}, Reported, {""}, {0}) \cup {Line("end")}
    ELSE Carrying({"part"}, {NoTokens}, {"", "stop", "length"}, OpenChoices)

NextLines == IF T = "anthropic" THEN AnthropicNext
             ELSE IF T = "gemini" THEN GeminiNext ELSE OpenAINext

\* The provider writes a line, perhaps one that says nothing (an empty one, an event
\* name, a ping) or is no JSON; nothing follows its last.
Write ==
    /\ pc = "stream" /\ Len(lines) < MaxLines
    /\ \A i \in 1..Len(lines) : lines[i].kind \notin {"stop", "end"}
    /\ \E l \in NextLines \cup {Line("other"), Line("garbage")} : lines' = Append(lines, l)
    /\ UNCHANGED <<pc, choiceVars, sendVars, readVars, endVars>>

\* A mutated form: a line without a count resets it.
CountLast(old, new) == new

Count(old, new) == IF new > 0 THEN new ELSE old

\* A mutated form: the loop is left before the last line is passed on.
BreakBeforeChunk ==
    /\ pc = "stream" /\ read < Len(lines)
    /\ read' = read + 1
    /\ LET s == TranslateStreamLine(T, lines[read + 1], read + 1) IN
          /\ inputTok' = Count(inputTok, s.in)
          /\ outputTok' = Count(outputTok, s.out)
          /\ resBuf' = IF s.done THEN resBuf ELSE resBuf \o s.chunk
          /\ client' = IF s.done THEN client ELSE client \o s.chunk
          /\ pc' = IF s.done THEN "close" ELSE "stream"
    /\ UNCHANGED <<choiceVars, sendVars, lines, endVars>>

\* The loop body of handleStream.
ReadLine ==
    /\ pc = "stream" /\ read < Len(lines)
    /\ read' = read + 1
    /\ LET s == TranslateStreamLine(T, lines[read + 1], read + 1) IN
          /\ inputTok' = Count(inputTok, s.in)
          /\ outputTok' = Count(outputTok, s.out)
          /\ resBuf' = resBuf \o s.chunk
          /\ client' = client \o s.chunk
          /\ pc' = IF s.done THEN "close" ELSE "stream"
    /\ UNCHANGED <<choiceVars, sendVars, lines, endVars>>

\* The body ends or breaks off, or a line is too long: the same for the loop.
EndOfBody ==
    /\ Goto("stream", "close")
    /\ UNCHANGED <<choiceVars, sendVars, lines, readVars, endVars>>

CloseStream ==
    /\ Goto("close", "done")
    /\ client' = Append(client, DoneMark)
    /\ LogRow(200, inputTok, outputTok)
    /\ UNCHANGED <<choiceVars, sendVars, lines, read, inputTok, outputTok, resBuf, answer,
                   errorKey>>

----------------------------------------------------------------------------
Next ==
    \/ ChooseProvider \/ RunHooks \/ Send \/ GiveUp \/ BackOff \/ Retry
    \/ RelayFailure \/ RelayBody \/ StartStream
    \/ Write \/ ReadLine \/ EndOfBody \/ CloseStream
    \/ pc = "done" /\ UNCHANGED vars

Spec == Init /\ [][Next]_vars

----------------------------------------------------------------------------
Streamed == pc = "done" /\ answer = 200 /\ req.stream

RequestOK ==
    /\ req \in ChatRequests /\ reqBody \in ChatRequests
    /\ provider \in Headers /\ base \in Bases
SendOK ==
    /\ retries \in 0..(maxAttempts - 1) /\ Len(wires) \in 0..maxAttempts
    /\ retryAfter \in Nat /\ wait \in Int
AnswerOK ==
    /\ lines \in Seq(Lines) /\ read \in 0..Len(lines)
    /\ inputTok \in Nat /\ outputTok \in Nat /\ answer \in Nat
TypeOK ==
    /\ pc \in {"new", "hooks", "send", "sent", "backoff", "stream", "close", "done"}
    /\ RequestOK /\ SendOK /\ AnswerOK /\ Len(rows) \in 0..1

ProviderKeys == UNION {KeysOf(t) : t \in Providers}
LoggedKeys == {rows[i].upstream.key : i \in 1..Len(rows)} \cap ProviderKeys

\* README.md:90, as far as the code keeps it: no key is told to the client or logged,
\* but for Gemini's, which is in the URL that errors quote and which is not found, and
\* so not blanked, behind a '?' or a '#' in an endpoint or a model; an error that has a
\* key in it leaves no row.  Every attempt, to an aliased endpoint as well, is made with
\* a key of the provider that is set, or none is, and then only aliased endpoints are
\* asked, with a dummy (README.md:226).
KeysAreKept ==
    /\ T # "gemini" => errorKey = "" /\ LoggedKeys = {}
    /\ UrlForm(T, base, req.model) = "plain" => LoggedKeys = {}
    /\ errorKey # "" => rows = << >> /\ answer \in {500, 502}
    /\ \A i \in 1..Len(wires) :
          \/ wires[i].key \in KeysOf(T) \cap environment
          \/ /\ KeysOf(T) \cap environment = {}
             /\ wires[i].key = "local" /\ wires[i].to = "alias"

\* The log tells what was sent, and so does a reproduced request (README.md:101): the
\* request of the row, put through the translator of its provider, is what every
\* attempt sent, whichever fields of it an alias or part of a modification changed
\* on the way; there was one attempt more than it has retries; and what was captured
\* differs from what was sent in its key at most.
RowTellsWhatWasSent ==
    \A r \in {rows[i] : i \in 1..Len(rows)} :
        LET wire == BuildRequest(Translator(r.provider), environment, base, r.request) IN
        /\ \A i \in 1..Len(wires) : wires[i] = wire
        /\ Len(wires) = r.retries + 1
        /\ [r.upstream EXCEPT !.key = wire.key] = wire /\ r.model = wire.model

\* A count is the last positive one among the first n of some.
IsLastPositive(c, count, n) ==
    \/ c = 0 /\ \A i \in 1..n : count[i] = 0
    \/ \E m \in 1..n : c > 0 /\ count[m] = c /\ \A i \in (m + 1)..n : count[i] = 0

\* Anthropic's input count is that of message_start and its output count that of
\* message_delta; the output count of message_start is provisional.
Ins == [i \in 1..Len(lines) |->
            IF T = "anthropic" /\ lines[i].kind # "start" THEN 0 ELSE lines[i].usage.in]
Outs == [i \in 1..Len(lines) |->
            IF T = "anthropic" /\ lines[i].kind # "delta" THEN 0 ELSE lines[i].usage.out]

FinishSeen(choice) == \E k \in 1..Len(client) :
    client[k].choice = choice /\ client[k].finish \notin {"", "[DONE]"}

\* Tokens are what cost is made of: the row of a stream of Anthropic or Gemini has the
\* counts its provider reported last, however the counts are spread over the lines
\* and wherever the stream broke off, and once the client has seen the end of the
\* answer no count is missed.
UsageIsLogged ==
    Streamed /\ T # "openai" =>
        LET n == IF FinishSeen(0) THEN Len(lines) ELSE read
        IN  IsLastPositive(rows[1].in, Ins, n) /\ IsLastPositive(rows[1].out, Outs, n)

ChunkOf(i) == TranslateStreamLine(T, lines[i], i).chunk

\* The client gets the chunk of every line that has one, once, in order and with
\* its finish reason; a choice it sees the end of is whole; [DONE] comes last and
\* once, also after a stream that broke off; and the log keeps what the client got.
ClientSeesTheAnswer ==
    /\ client = IF Streamed THEN Append(resBuf, DoneMark) ELSE resBuf
    /\ \A i \in 1..Len(rows) : rows[i].response = resBuf
    /\ \A k \in 1..Len(resBuf) : ChunkOf(resBuf[k].line) = <<resBuf[k]>>
    /\ \A j, k \in 1..Len(resBuf) : j < k => resBuf[j].line < resBuf[k].line
    /\ {resBuf[k].line : k \in 1..Len(resBuf)} = {i \in 1..read : ChunkOf(i) # << >>}
    /\ \A i \in (read + 1)..Len(lines) : \A c \in 0..(req.n + 1) :
          ChunkOf(i) # << >> /\ ChunkOf(i)[1].choice = c => ~FinishSeen(c)

\* handler.go:454: a Retry-After is waited for, up to the cap, and the waits without
\* one grow; a header whose nanoseconds overflow is waited for as the product
\* wrapped, perhaps not at all, but never for longer than the cap.
WaitsAreBounded ==
    pc = "backoff" =>
        LET asked == IF retryAfter > 0 THEN retryAfter * Second ELSE retries * baseRetryWait
        IN  /\ wait <= maxRetryWait
            /\ asked < Half => wait = asked \/ (wait = maxRetryWait /\ asked > maxRetryWait)

\* The provider gets the conversation the client, or the hooks, asked for: every
\* message in its order, the last system message as the prompt where the provider
\* has one, no message twice.
ConversationIsKept ==
    \A w \in {wires[i].conversation : i \in 1..Len(wires)} :
        LET asked == req.messages
            System == {i \in 1..Len(asked) : T # "openai" /\ asked[i].role = "system"}
            Others == (1..Len(asked)) \ System
            Place(i) == Cardinality({j \in Others : j <= i})
        IN  /\ w.system = IF System = {} THEN 0 ELSE asked[Max(System)].text
            /\ Len(w.messages) = Cardinality(Others)
            /\ \A i \in Others : w.messages[Place(i)].text = asked[i].text
            /\ \A i \in Others : w.messages[Place(i)].role =
                  IF T # "gemini" THEN asked[i].role
                  ELSE IF asked[i].role = "assistant" THEN "model" ELSE "user"

----------------------------------------------------------------------------
(* Expectations of the documentation that the code does not meet           *)

\* README.md:5: "Every request is logged with cost", which is made of tokens: a stream
\* whose end the client has seen and whose provider has reported the output tokens
\* is logged with some.
ReportedStreamIsCosted ==
    Streamed /\ FinishSeen(0) /\ (\E i \in 1..Len(lines) : Outs[i] > 0) => rows[1].out > 0
=============================================================================
