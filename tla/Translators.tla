----------------------------- MODULE Translators -----------------------------
(***************************************************************************)
(* The translators of proxy/openai.go, openai_passthrough.go, anthropic.go *)
(* and gemini.go: which provider a request goes to, the upstream request   *)
(* it becomes, what is made of the provider's answer, and how the handler  *)
(* redacts a request and waits between attempts.                           *)
(*                                                                         *)
(* A model is what DetectProvider and a URL read of its name, an endpoint  *)
(* what a URL reads of it, an API key the name of its environment          *)
(* variable, a text a number, 0 the empty one.                             *)
(***************************************************************************)
EXTENDS Integers, Sequences, FiniteSetsExt

\* What a URL makes of a name in it: part of the path; one that has a '?' or a '#'
\* and so begins the query or the fragment; or no URL at all (a control character).
Forms == {"plain", "marked", "malformed"}
Models == [prefix : {"gpt", "o1", "o3", "claude-", "gemini-", "other"}, form : Forms]
Bases == {""} \cup Forms
Providers == {"openai", "anthropic", "gemini", "unknown"}
Roles == {"", "system", "user", "assistant", "tool"}
Messages == [role : Roles, text : Nat]
ChatRequests == [model : Models, messages : Seq(Messages), maxTokens : Nat,
                 stream : BOOLEAN, n : Nat]

DetectProvider(model) ==
    CASE model.prefix = "claude-" -> "anthropic"
      [] model.prefix = "gemini-" -> "gemini"
      [] OTHER -> "openai"

\* The switch over the provider: the passthrough serves whatever else there is.
Translator(provider) ==
    IF provider \in {"anthropic", "gemini"} THEN provider ELSE "openai"

----------------------------------------------------------------------------
(* BuildRequest                                                            *)

KeysOf(t) ==
    IF t = "openai" THEN {"OPENAI_API_KEY"}
    ELSE IF t = "anthropic" THEN {"ANTHROPIC_API_KEY"}
    ELSE {"GEMINI_API_KEY", "GOOGLE_API_KEY"}

\* The key sent to a provider: its own, else a dummy where an alias names the
\* endpoint, else none, and BuildRequest fails.
ApiKey(t, environment, base) ==
    LET keys == KeysOf(t) \cap environment
    IN  IF "GEMINI_API_KEY" \in keys THEN "GEMINI_API_KEY"
        ELSE IF keys = {} THEN IF base = "" THEN "" ELSE "local"
        ELSE CHOOSE k \in keys : TRUE

\* Where the key goes.
KeyPlace(t) ==
    IF t = "openai" THEN "Authorization" ELSE IF t = "anthropic" THEN "x-api-key" ELSE "key="

\* Gemini knows two roles.
RoleFor(t, role) ==
    IF t # "gemini" THEN role ELSE IF role = "assistant" THEN "model" ELSE "user"

Renamed(t, m) == [role |-> RoleFor(t, m.role), text |-> m.text]

\* A mutated form: the system prompt is left where it was as well.
AddTwice(t, c, m) ==
    [system |-> IF m.role = "system" THEN m.text ELSE c.system,
     messages |-> Append(c.messages, Renamed(t, m))]

\* The body of the loop over the messages: a system message is the prompt, another follows.
Add(t, c, m) ==
    IF m.role = "system"
    THEN [system |-> m.text, messages |-> c.messages]
    ELSE [system |-> c.system, messages |-> Append(c.messages, Renamed(t, m))]

\* The conversation after the first i of the messages.
ConversationAfter(t, messages) ==
    LET after[i \in 0..Len(messages)] ==
            IF i = 0 THEN [system |-> 0, messages |-> << >>]
                     ELSE Add(t, after[i - 1], messages[i])
    IN  after

\* OpenAI gets the messages as they are.
Conversation(t, messages) ==
    IF t = "openai" THEN [system |-> 0, messages |-> messages]
                    ELSE ConversationAfter(t, messages)[Len(messages)]

\* The URL has the endpoint in it, and Gemini's the model as well, unescaped; of two
\* such names the worse one tells.
UrlForm(t, base, model) ==
    LET names == {base} \cup (IF t = "gemini" THEN {model.form} ELSE {})
    IN  IF "malformed" \in names THEN "malformed"
        ELSE IF "marked" \in names THEN "marked" ELSE "plain"

\* The upstream request; n is for OpenAI only and Anthropic insists on a limit, 4096.
BuildRequest(t, environment, base, req) ==
    [to |-> IF base = "" THEN t ELSE "alias",
     url |-> UrlForm(t, base, req.model),
     place |-> KeyPlace(t),
     key |-> ApiKey(t, environment, base),
     model |-> req.model,
     stream |-> req.stream,
     maxTokens |-> IF t = "anthropic" /\ req.maxTokens = 0 THEN 4096 ELSE req.maxTokens,
     n |-> IF t = "openai" THEN req.n ELSE 0,
     conversation |-> Conversation(t, req.messages)]

\* No key, or no URL.
BuildFails(t, environment, base, model) ==
    ApiKey(t, environment, base) = "" \/ UrlForm(t, base, model) = "malformed"

\* The key in the URL, which errors of http.NewRequest and client.Do quote.
UrlKey(t, environment, base) ==
    IF KeyPlace(t) = "key=" THEN ApiKey(t, environment, base) ELSE ""

\* A mutated form: the headers are searched for the bearer token only.
RedactsBearer(wire) ==
    wire.place = "Authorization" \/ (wire.place = "key=" /\ wire.url = "plain")

\* redactHeaders blanks every header with a key; redactURL only a key that is the
\* parameter "key" of the query, which "?key=" is not behind another '?' or a '#'.
Redacts(wire) == wire.place # "key=" \/ wire.url = "plain"

\* captureUpstreamMeta.
Capture(wire) == [wire EXCEPT !.key = IF Redacts(wire) THEN "REDACTED" ELSE @]

----------------------------------------------------------------------------
(* Answers                                                                 *)

\* A line of a stream, or the body of a full answer.  Of a "part" (a chunk of OpenAI,
\* candidates of Gemini) finish is the finish reason; "usage" has no choices.
LineKinds == {"start", "text", "delta", "stop", "part", "usage", "end",
              "other", "garbage", "body"}
FinishReasons == {"", "stop", "length", "STOP", "MAX_TOKENS", "SAFETY"}
TokenCounts == [in : Nat, out : Nat]
NoTokens == [in |-> 0, out |-> 0]
Lines == [kind : LineKinds, usage : TokenCounts, finish : FinishReasons, choice : Nat]
Line(kind) == [kind |-> kind, usage |-> NoTokens, finish |-> "", choice |-> 0]

\* A chunk for the client: the line it translates, whose text is its own.
Chunk(i, finish, choice) == [line |-> i, finish |-> finish, choice |-> choice]
DoneMark == Chunk(0, "[DONE]", 0)

\* Gemini's finish reasons as the stream passes them on.
GeminiFinish(finish) ==
    IF finish = "STOP" THEN "stop" ELSE IF finish = "MAX_TOKENS" THEN "max_tokens" ELSE ""

\* content_block_delta has text, message_delta the end of the answer.
AnthropicLine(l, i) ==
    [chunk |-> IF l.kind \in {"start", "text", "delta"}
               THEN <<Chunk(i, IF l.kind = "delta" THEN "stop" ELSE "", 0)>> ELSE << >>,
     in |-> IF l.kind = "start" THEN l.usage.in ELSE 0,
     out |-> IF l.kind = "delta" THEN l.usage.out ELSE 0,
     done |-> l.kind \in {"stop", "end"}]

\* Every line of Gemini has counts, and the first of its candidates is taken.
GeminiLine(l, i) ==
    [chunk |-> IF l.kind = "part" THEN <<Chunk(i, GeminiFinish(l.finish), 0)>> ELSE << >>,
     in |-> IF l.kind \in {"part", "usage"} THEN l.usage.in ELSE 0,
     out |-> IF l.kind \in {"part", "usage"} THEN l.usage.out ELSE 0,
     done |-> l.kind = "end" \/ (l.kind = "part" /\ GeminiFinish(l.finish) # "")]

\* No counts are taken from OpenAI; the finish reason is that of whichever choice the
\* chunk is of.
OpenAILine(l, i) ==
    [chunk |-> IF l.kind = "part" THEN <<Chunk(i, l.finish, l.choice)>> ELSE << >>,
     in |-> 0, out |-> 0,
     done |-> l.kind = "end" \/ (l.kind = "part" /\ l.finish = "stop")]

\* What becomes of the i-th line: at most a chunk, token counts, the end.  A line
\* that does not parse is an error, which skips it.
TranslateStreamLine(t, l, i) ==
    IF t = "anthropic" THEN AnthropicLine(l, i)
    ELSE IF t = "gemini" THEN GeminiLine(l, i) ELSE OpenAILine(l, i)

\* A full answer translates, unless it does not parse or has no candidates.
Translates(t, body) == body.kind = "body" \/ (body.kind = "usage" /\ t # "gemini")
=============================================================================
