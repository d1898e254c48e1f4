--------------------------- MODULE ExchangeProofs ---------------------------
(***************************************************************************)
(* Proofs about Exchange: for every set of calls, aliases, edits, keys and *)
(* providers' answers, however long, the row tells what was sent and what  *)
(* was reported, the client sees the answer and the waits keep their cap.  *)
(***************************************************************************)
EXTENDS Exchange, Induction

W == BuildRequest(T, environment, base, req)
Fails == BuildFails(T, environment, base, req.model)
QuotedKey == UrlKey(T, environment, base)

\* Where doUpstream has got to: the requests on the wire are all the one built from
\* the request as it is now, one more than the retries once one is answered.
Attempts ==
    /\ wires \in Seq({W})
    /\ wires # << >> => ~Fails
    /\ pc \in {"new", "hooks"} => wires = << >> /\ retries = 0
    /\ pc \in {"send", "backoff"} => Len(wires) = retries
    /\ pc \in {"sent", "stream", "close"} =>
          Len(wires) = retries + 1 /\ meta = <<Capture(W)>>
    /\ pc = "done" => Len(wires) \in {retries, retries + 1}
    /\ pc \in {"send", "sent", "backoff", "stream", "close"} => reqBody = req

\* Nothing of an answer is there before the provider is asked.
Untouched ==
    pc \in {"new", "hooks", "send", "sent", "backoff"} =>
        /\ answer = 0 /\ lines = << >> /\ read = 0
        /\ inputTok = 0 /\ outputTok = 0
        /\ resBuf = << >> /\ client = << >>

\* The row is made of the state at the end.
RowIsMade ==
    /\ pc # "done" => rows = << >>
    /\ pc \in {"stream", "close"} => answer = 200 /\ req.stream
    /\ rows # << >> =>
          /\ Len(rows) = 1 /\ Len(wires) = retries + 1 /\ reqBody = req
          /\ rows[1].provider = provider /\ rows[1].model = req.model
          /\ rows[1].request = reqBody /\ rows[1].retries = retries
          /\ rows[1].response = resBuf /\ rows[1].upstream = Capture(W)
    /\ Streamed =>
          /\ rows # << >> /\ rows[1].in = inputTok /\ rows[1].out = outputTok

\* The wait is the one of the last answer.
BacksOff ==
    pc = "backoff" => retries > 0 /\ wait = RetryWait(retryAfter, retries - 1)

\* A key is told to the client in the URL that an error quotes, which leaves no row.
OwnError == pc = "done" /\ rows = << >> /\ answer \in {500, 502}
TellsKey == errorKey # "" => OwnError /\ errorKey = QuotedKey

Inv == TypeOK /\ Attempts /\ Untouched /\ RowIsMade /\ BacksOff /\ TellsKey

----------------------------------------------------------------------------
(* Requests, lines and waits                                               *)

\* Merging a modification into a request makes a request.
LEMMA EditedIsRequest ==
    ASSUME req \in ChatRequests, NEW e \in Edits
    PROVE  Edited(e) \in ChatRequests
  <1>1. e.to \in ChatRequests
    BY EditsAssumption
  <1>2. MessagesAfter(e.to.messages, req.messages) \in Seq(Messages)
    <2> DEFINE new == e.to.messages
               old == req.messages
    <2>1. new \in Seq(Messages) /\ old \in Seq(Messages)
      BY <1>1 DEF ChatRequests
    <2>2. Len(new) \in Nat
      BY <2>1
    <2>3. ASSUME NEW i \in 1..Len(new)
          PROVE  MessagesAfter(new, old)[i] \in Messages
      <3>1. new[i] \in Messages /\ (i <= Len(old) => old[i] \in Messages)
        BY <2>1, <2>2
      <3> QED
        BY <3>1 DEF MessagesAfter, Messages, Roles
    <2> DEFINE merged == MessagesAfter(new, old)
    <2>4. merged \in [1..Len(new) -> Messages]
      BY <2>3 DEF MessagesAfter
    <2>5. \A n \in Nat : \A f \in [1..n -> Messages] : f \in Seq(Messages)
      OBVIOUS
    <2> HIDE DEF new, merged
    <2>6. merged \in Seq(Messages)
      BY <2>2, <2>4, <2>5
    <2> QED
      BY <2>6 DEF merged, new
  <1> QED
    BY <1>1, <1>2 DEF Edited, ChatRequests

\* Counting from a sum that does not overflow gives it back.
LEMMA WrapOfSmall ==
    ASSUME NEW x \in Nat, x < Half
    PROVE  Wrap(x) = x
  <1>1. Half \in Nat /\ x + Half \in 0..(2 * Half - 1) /\ 2 * Half > 0
    BY WaitsAssumption
  <1>2. \A a \in Nat, b \in Nat : a < b => a % b = a
    OBVIOUS
  <1>3. (x + Half) % (2 * Half) = x + Half
    BY <1>1, <1>2
  <1> QED
    BY <1>1, <1>3 DEF Wrap

\* A wait is a number, whatever overflows.
LEMMA WrapIsInt ==
    ASSUME NEW x \in Nat
    PROVE  Wrap(x) \in Int
  <1>1. Half \in Nat /\ x + Half \in Nat /\ 2 * Half \in Nat /\ 2 * Half > 0
    BY WaitsAssumption
  <1>2. (x + Half) % (2 * Half) \in Int
    BY <1>1
  <1> QED
    BY <1>1, <1>2 DEF Wrap

\* The translator is one of three.
LEMMA ThreeTranslators == T \in {"openai", "anthropic", "gemini"}
  BY DEF T, Translator

\* What a provider writes next: a line; after the end of a choice nothing of it, and
\* of Anthropic and Gemini no counts.
LEMMA NextLine ==
    ASSUME TypeOK, NEW l \in NextLines \cup {Line("other"), Line("garbage")}
    PROVE  /\ l \in Lines
           /\ T = "anthropic" =>
                /\ l.choice = 0 /\ l.kind \in {"start", "text", "delta", "stop", "other", "garbage"}
                /\ HasEnded(0) => l.kind \in {"stop", "other", "garbage"}
           /\ T = "gemini" =>
                /\ l.choice = 0 /\ l.kind \in {"part", "usage", "other", "garbage"}
                /\ l.kind \in {"other", "garbage"} => l.usage.in = 0 /\ l.usage.out = 0
                /\ HasEnded(0) => l.kind \in {"other", "garbage"}
           /\ T = "openai" =>
                /\ l.kind \in {"part", "usage", "end", "other", "garbage"}
                /\ l.kind = "part" => ~HasEnded(l.choice)
  <1>1. ASSUME NEW k \in LineKinds
        PROVE  Line(k) \in Lines /\ Line(k).kind = k /\ Line(k).choice = 0
               /\ Line(k).usage.in = 0 /\ Line(k).usage.out = 0
    BY <1>1 DEF Line, Lines, FinishReasons, TokenCounts, NoTokens
  <1>2. /\ {"start"} \subseteq LineKinds /\ {"delta"} \subseteq LineKinds
        /\ {"part"} \subseteq LineKinds /\ {"usage"} \subseteq LineKinds
        /\ {"part", "usage"} \subseteq LineKinds
        /\ {"text", "stop", "end", "other", "garbage"} \subseteq LineKinds
    BY DEF LineKinds
  <1>3. /\ Usages \subseteq TokenCounts /\ Reported \subseteq TokenCounts
        /\ {NoTokens} \subseteq TokenCounts
        /\ {""} \subseteq FinishReasons /\ {0} \subseteq Nat
        /\ {"STOP", "MAX_TOKENS", "SAFETY"} \subseteq FinishReasons
        /\ {"", "stop", "length"} \subseteq FinishReasons
    BY UsagesAssumption DEF Reported, FinishReasons, NoTokens, TokenCounts
  <1>4. CASE l \in {Line("other"), Line("garbage")}
    BY <1>1, <1>2, <1>4
  <1>5. CASE l \in NextLines /\ T = "anthropic"
    <2>1. l \in AnthropicNext
      BY <1>5 DEF NextLines
    <2>2. CASE l = Line("stop") \/ (~HasEnded(0) /\ l = Line("text"))
      BY <1>1, <1>2, <1>5, <2>2
    <2>3. CASE ~HasEnded(0) /\ l \in Carrying({"delta"}, Reported, {""}, {0})
      <3>1. l \in Lines /\ l.kind \in {"delta"} /\ l.choice \in {0}
        BY <1>2, <1>3, <2>3 DEF Carrying, Lines
      <3> QED
        BY <1>5, <2>3, <3>1
    <2>4. CASE ~HasEnded(0) /\ l \in Carrying({"start"}, Usages, {""}, {0})
      <3>1. l \in Lines /\ l.kind \in {"start"} /\ l.choice \in {0}
        BY <1>2, <1>3, <2>4 DEF Carrying, Lines
      <3> QED
        BY <1>5, <2>4, <3>1
    <2> QED
      BY <2>1, <2>2, <2>3, <2>4 DEF AnthropicNext
  <1>6. CASE l \in NextLines /\ T = "gemini"
    <2>1. l \in GeminiNext
      BY <1>6 DEF NextLines
    <2>2. ~HasEnded(0)
      BY <2>1 DEF GeminiNext
    <2>3. CASE l \in Carrying({"part", "usage"}, Usages, {""}, {0})
      <3>1. l \in Lines /\ l.kind \in {"part", "usage"} /\ l.choice \in {0}
        BY <1>2, <1>3, <2>3 DEF Carrying, Lines
      <3> QED
        BY <1>6, <2>2, <3>1
    <2>4. CASE l \in Carrying({"part"}, Reported, {"STOP", "MAX_TOKENS", "SAFETY"}, {0})
      <3>1. l \in Lines /\ l.kind \in {"part"} /\ l.choice \in {0}
        BY <1>2, <1>3, <2>4 DEF Carrying, Lines
      <3> QED
        BY <1>6, <2>2, <3>1
    <2> QED
      BY <2>1, <2>2, <2>3, <2>4 DEF GeminiNext
  <1>7. CASE l \in NextLines /\ T = "openai"
    <2>1. l \in OpenAINext
      BY <1>7 DEF NextLines
    <2>2. OpenChoices \subseteq Nat
      <3>1. req.n \in Nat
        BY DEF TypeOK, RequestOK, ChatRequests
      <3> QED
        BY <3>1 DEF OpenChoices
    <2>3. CASE l \in Carrying({"usage"}, Reported, {""}, {0})
      <3>1. l \in Lines /\ l.kind \in {"usage"}
        BY <1>2, <1>3, <2>3 DEF Carrying, Lines
      <3> QED
        BY <1>7, <3>1
    <2>4. CASE l = Line("end")
      BY <1>1, <1>2, <1>7, <2>4
    <2>5. CASE l \in Carrying({"part"}, {NoTokens}, {"", "stop", "length"}, OpenChoices)
      <3>1. l \in Lines /\ l.kind \in {"part"} /\ l.choice \in OpenChoices
        BY <1>2, <1>3, <2>2, <2>5 DEF Carrying, Lines
      <3> QED
        BY <1>7, <3>1 DEF OpenChoices
    <2> QED
      BY <2>1, <2>3, <2>4, <2>5 DEF OpenAINext
  <1> QED
    BY <1>4, <1>5, <1>6, <1>7, ThreeTranslators

\* The finish reasons the client may get.
PassedOn == FinishReasons \cup {"max_tokens"}

\* What becomes of a line: at most one chunk, of that line, two counts and a flag.
OneLine(s, i) ==
    /\ s.in \in Nat /\ s.out \in Nat /\ s.done \in BOOLEAN
    /\ \/ s.chunk = << >>
       \/ \E f \in PassedOn, c \in Nat : s.chunk = <<Chunk(i, f, c)>>

LEMMA TranslatedLine ==
    ASSUME NEW l \in Lines, NEW i \in Nat
    PROVE  OneLine(TranslateStreamLine(T, l, i), i)
  <1>1. l.usage.in \in Nat /\ l.usage.out \in Nat /\ l.choice \in Nat /\ l.finish \in PassedOn
    BY DEF Lines, PassedOn, TokenCounts
  <1>2. {"stop", "", "max_tokens"} \subseteq PassedOn /\ 0 \in Nat
    BY DEF PassedOn, FinishReasons
  <1>3. OneLine(AnthropicLine(l, i), i)
    <2>1. /\ AnthropicLine(l, i).in \in Nat /\ AnthropicLine(l, i).out \in Nat
          /\ AnthropicLine(l, i).done \in BOOLEAN
      BY <1>1 DEF AnthropicLine
    <2>2. AnthropicLine(l, i).chunk \in {<< >>, <<Chunk(i, "stop", 0)>>, <<Chunk(i, "", 0)>>}
      <3>1. CASE l.kind = "delta"
        BY <3>1 DEF AnthropicLine
      <3>2. CASE l.kind # "delta"
        BY <3>2 DEF AnthropicLine
      <3> QED
        BY <3>1, <3>2
    <2> QED
      BY <1>2, <2>1, <2>2 DEF OneLine
  <1>4. OneLine(GeminiLine(l, i), i)
    <2>1. /\ GeminiLine(l, i).in \in Nat /\ GeminiLine(l, i).out \in Nat
          /\ GeminiLine(l, i).done \in BOOLEAN
      BY <1>1 DEF GeminiLine
    <2>2. GeminiLine(l, i).chunk \in {<< >>, <<Chunk(i, GeminiFinish(l.finish), 0)>>}
      BY DEF GeminiLine
    <2>3. GeminiFinish(l.finish) \in PassedOn
      BY <1>2 DEF GeminiFinish
    <2> QED
      BY <1>2, <2>1, <2>2, <2>3 DEF OneLine
  <1>5. OneLine(OpenAILine(l, i), i)
    <2>1. /\ OpenAILine(l, i).in \in Nat /\ OpenAILine(l, i).out \in Nat
          /\ OpenAILine(l, i).done \in BOOLEAN
      BY DEF OpenAILine
    <2>2. OpenAILine(l, i).chunk \in {<< >>, <<Chunk(i, l.finish, l.choice)>>}
      BY DEF OpenAILine
    <2> QED
      BY <1>1, <2>1, <2>2 DEF OneLine
  <1> QED
    BY <1>3, <1>4, <1>5 DEF TranslateStreamLine
----------------------------------------------------------------------------
(* The invariant                                                           *)

\* Every wait is a number.
LEMMA RetryWaitIsInt ==
    ASSUME NEW seconds \in Nat, NEW attempt \in Nat
    PROVE  RetryWait(seconds, attempt) \in Int
  <1>1. /\ Second \in Nat /\ baseRetryWait \in Nat /\ maxRetryWait \in Int
    BY WaitsAssumption
  <1>2. \A a, b \in Nat : a * b \in Nat
    OBVIOUS
  <1>3. seconds * Second \in Nat /\ (attempt + 1) * baseRetryWait \in Nat
    BY <1>1, <1>2
  <1>4. Wrap(seconds * Second) \in Int /\ Wrap((attempt + 1) * baseRetryWait) \in Int
    BY <1>3, WrapIsInt
  <1> QED
    BY <1>1, <1>4 DEF RetryWait, Capped

\* The states the program starts in satisfy it.
LEMMA InvInit == Init => Inv
  <1> SUFFICES ASSUME Init
               PROVE  Inv
    OBVIOUS
  <1>1. RequestOK
    <2>1. PICK c \in Calls : req = c.req /\ provider = c.header
      BY DEF Init
    <2>2. c.req \in ChatRequests /\ c.header \in Headers
      BY CallsAssumption
    <2>3. reqBody = req /\ base = "" /\ "" \in Bases
      BY DEF Init, Bases
    <2> QED
      BY <2>1, <2>2, <2>3 DEF RequestOK
  <1>2. SendOK
    <2>1. retries = 0 /\ wires = << >> /\ retryAfter = 0 /\ wait = 0
      BY DEF Init
    <2> QED
      BY <2>1, AttemptsAssumption DEF SendOK
  <1>3. AnswerOK
    <2>1. lines = << >> /\ read = 0 /\ inputTok = 0 /\ outputTok = 0 /\ answer = 0
      BY DEF Init
    <2> QED
      BY <2>1 DEF AnswerOK
  <1>4. TypeOK
    <2>1. pc = "new" /\ rows = << >>
      BY DEF Init
    <2> QED
      BY <1>1, <1>2, <1>3, <2>1 DEF TypeOK
  <1>5. Attempts
    <2>1. pc = "new" /\ wires = << >> /\ retries = 0
      BY DEF Init
    <2> QED
      BY <2>1 DEF Attempts
  <1>6. Untouched
    BY DEF Init, Untouched
  <1>7. RowIsMade /\ BacksOff /\ TellsKey
    BY DEF Init, RowIsMade, BacksOff, Streamed, TellsKey
  <1> QED
    BY <1>4, <1>5, <1>6, <1>7 DEF Inv

\* The parts of the types that depend on what an action leaves alone.
LEMMA PartsStay ==
    /\ RequestOK /\ UNCHANGED choiceVars => RequestOK'
    /\ SendOK /\ UNCHANGED sendVars => SendOK'
    /\ AnswerOK /\ UNCHANGED <<lines, read, inputTok, outputTok, answer>> => AnswerOK'
  <1>1. RequestOK /\ UNCHANGED choiceVars => RequestOK'
    BY DEF RequestOK, choiceVars
  <1>2. SendOK /\ UNCHANGED sendVars => SendOK'
    BY DEF SendOK, sendVars
  <1>3. AnswerOK /\ UNCHANGED <<lines, read, inputTok, outputTok, answer>> => AnswerOK'
    BY DEF AnswerOK
  <1> QED
    BY <1>1, <1>2, <1>3

\* An answer given on the way is a status.
LEMMA StatusIsOK ==
    ASSUME AnswerOK, answer' \in Nat, UNCHANGED <<lines, read, inputTok, outputTok>>
    PROVE  AnswerOK'
  BY DEF AnswerOK

\* The body of a full answer is a line.
LEMMA BodyIsLine ==
    ASSUME NEW answered
    PROVE  answered \in Carrying({"body", "usage", "garbage"}, Usages, {""}, {0})
             => answered \in Lines
  <1>1. /\ {"body", "usage", "garbage"} \in SUBSET LineKinds
        /\ {""} \in SUBSET FinishReasons /\ {0} \in SUBSET Nat
    BY DEF LineKinds, FinishReasons
  <1>2. HAVE answered \in Carrying({"body", "usage", "garbage"}, Usages, {""}, {0})
  <1> QED
    BY <1>1, <1>2, UsagesAssumption DEF Carrying, Lines

\* What an action does to the types.
LEMMA TypeNext == Inv /\ [Next]_vars => TypeOK'
  <1> SUFFICES ASSUME TypeOK, Attempts, Untouched, [Next]_vars
               PROVE  TypeOK'
    BY DEF Inv
  <1>a. RequestOK /\ SendOK /\ AnswerOK /\ Len(rows) \in 0..1
    BY DEF TypeOK
  <1>1. CASE UNCHANGED vars
    <2>1. RequestOK' /\ SendOK' /\ AnswerOK'
      BY <1>1, <1>a, PartsStay DEF vars, readVars, endVars
    <2> QED
      BY <1>1, <2>1 DEF vars, endVars, TypeOK
  <1>2. CASE ChooseProvider
    <2>1. ASSUME NEW m \in Models
          PROVE  DetectProvider(m) \in Headers
      BY DEF DetectProvider, Headers, Providers
    <2>2. req.model \in Models /\ "" \in Bases
      BY <1>a DEF RequestOK, ChatRequests, Bases
    <2>3. ASSUME UNCHANGED <<req, base>>,
                 provider' = IF provider = "" THEN DetectProvider(req.model) ELSE provider
          PROVE  RequestOK'
      <3>1. provider' \in Headers
        BY <1>a, <2>1, <2>2, <2>3 DEF RequestOK
      <3>2. req' = req /\ base' = base /\ reqBody' = reqBody
        BY <1>2, <2>3 DEF ChooseProvider
      <3> QED
        BY <1>a, <3>1, <3>2 DEF RequestOK
    <2>4. ASSUME NEW a \in Aliases,
                 req' = [req EXCEPT !.model = a.model],
                 provider' = IF a.provider = "" THEN DetectProvider(a.model) ELSE a.provider,
                 base' = a.url
          PROVE  RequestOK'
      <3>1. a.model \in Models /\ a.provider \in Headers /\ a.url \in Bases
        BY AliasAssumption
      <3>2. req' \in ChatRequests
        BY <1>a, <2>4, <3>1 DEF RequestOK, ChatRequests
      <3>3. provider' \in Headers /\ base' \in Bases
        BY <2>1, <2>4, <3>1
      <3>4. reqBody' = reqBody
        BY <1>2 DEF ChooseProvider
      <3> QED
        BY <1>a, <3>2, <3>3, <3>4 DEF RequestOK
    <2>5. RequestOK'
      BY <1>2, <2>3, <2>4 DEF ChooseProvider
    <2>6. SendOK' /\ AnswerOK'
      BY <1>2, <1>a, PartsStay DEF ChooseProvider, readVars, endVars
    <2> QED
      BY <1>2, <2>5, <2>6 DEF ChooseProvider, Goto, endVars, TypeOK
  <1>3. CASE RunHooks
    <2>1. CASE /\ WriteError("hooks", 403)
               /\ UNCHANGED <<choiceVars, sendVars, lines, readVars, errorKey>>
      <3>1. RequestOK' /\ SendOK' /\ AnswerOK'
        BY <1>a, <2>1, PartsStay, StatusIsOK DEF WriteError, readVars
      <3> QED
        BY <2>1, <3>1 DEF WriteError, Goto, TypeOK
    <2>2. CASE /\ Goto("hooks", "send") /\ reqBody' = req'
               /\ req' = req \/ \E e \in Edits : req' = Edited(e)
               /\ UNCHANGED <<environment, provider, base, sendVars, lines, readVars, endVars>>
      <3>1. req' \in ChatRequests
        BY <1>a, <2>2, EditedIsRequest DEF RequestOK
      <3>2. RequestOK'
        BY <1>a, <2>2, <3>1 DEF RequestOK
      <3>3. SendOK' /\ AnswerOK'
        BY <1>a, <2>2, PartsStay DEF readVars, endVars
      <3> QED
        BY <2>2, <3>2, <3>3 DEF Goto, endVars, TypeOK
    <2> QED
      BY <1>3, <2>1, <2>2 DEF RunHooks
  <1>4. CASE Send
    <2>1. CASE WriteError("send", 500) /\ UNCHANGED <<wires, meta>>
      <3>1. RequestOK' /\ SendOK' /\ AnswerOK'
        BY <1>4, <1>a, <2>1, PartsStay, StatusIsOK DEF Send, WriteError, sendVars, readVars
      <3> QED
        BY <2>1, <3>1 DEF WriteError, Goto, TypeOK
    <2>2. CASE Goto("send", "sent") /\ wires' = Append(wires, W) /\ UNCHANGED endVars
      <3>1. Len(wires) = retries /\ wires \in Seq({W})
        BY <2>2 DEF Goto, Attempts
      <3>2. Len(wires') = retries + 1
        BY <2>2, <3>1
      <3>3. SendOK'
        BY <1>4, <1>a, <3>2, AttemptsAssumption DEF Send, SendOK
      <3>4. RequestOK' /\ AnswerOK'
        BY <1>4, <1>a, <2>2, PartsStay DEF Send, readVars, endVars
      <3> QED
        BY <2>2, <1>a, <3>3, <3>4 DEF Goto, endVars, TypeOK
    <2> QED
      BY <1>4, <2>1, <2>2 DEF Send, W
  <1>5. CASE GiveUp
    <2>1. RequestOK' /\ SendOK' /\ AnswerOK'
      BY <1>5, <1>a, PartsStay, StatusIsOK DEF GiveUp, WriteError, readVars
    <2> QED
      BY <1>5, <1>a, <2>1 DEF GiveUp, WriteError, Goto, TypeOK
  <1>6. CASE BackOff
    <2>1. PICK seconds \in RetryAfters :
              retryAfter' = seconds /\ wait' = RetryWait(seconds, retries)
      BY <1>6 DEF BackOff
    <2>2. seconds \in Nat /\ retries \in Nat
      BY <1>a, WaitsAssumption, AttemptsAssumption DEF SendOK
    <2>3. wait' \in Int
      BY <2>1, <2>2, RetryWaitIsInt
    <2>4. retries' \in 0..(maxAttempts - 1)
      BY <1>6, <1>a, AttemptsAssumption DEF BackOff, LastAttempt, SendOK
    <2>5. SendOK'
      BY <1>6, <1>a, <2>1, <2>2, <2>3, <2>4 DEF BackOff, SendOK
    <2>6. RequestOK' /\ AnswerOK'
      BY <1>6, <1>a, PartsStay DEF BackOff, readVars, endVars
    <2> QED
      BY <1>6, <1>a, <2>5, <2>6 DEF BackOff, Goto, endVars, TypeOK
  <1>7. CASE Retry
    <2>1. SendOK'
      BY <1>7, <1>a DEF Retry, SendOK
    <2>2. RequestOK' /\ AnswerOK'
      BY <1>7, <1>a, PartsStay DEF Retry, readVars, endVars
    <2> QED
      BY <1>7, <1>a, <2>1, <2>2 DEF Retry, Goto, endVars, TypeOK
  <1>8. CASE RelayFailure
    <2>1. answer' \in Nat
      BY <1>8, StatusAssumption DEF RelayFailure
    <2>2. RequestOK' /\ SendOK' /\ AnswerOK'
      BY <1>8, <1>a, <2>1, PartsStay, StatusIsOK DEF RelayFailure, readVars
    <2>3. Len(rows') = 1 /\ pc' = "done"
      BY <1>8 DEF RelayFailure, LogRow, Goto
    <2> QED
      BY <2>2, <2>3 DEF TypeOK
  <1>9. CASE RelayBody
    <2>1. RequestOK' /\ SendOK'
      BY <1>9, <1>a, PartsStay DEF RelayBody
    <2>2. CASE UNCHANGED lines /\ WriteError("sent", 502)
      <3>1. AnswerOK'
        BY <1>9, <1>a, <2>2, StatusIsOK DEF RelayBody, WriteError
      <3> QED
        BY <1>a, <2>1, <2>2, <3>1 DEF WriteError, Goto, TypeOK
    <2>3. ASSUME NEW answered \in Lines, lines' = <<answered>>,
                 \/ WriteError("sent", 500)
                 \/ Goto("sent", "done") /\ answer' = 200
                       /\ LogRow(200, answered.usage.in, answered.usage.out)
          PROVE  TypeOK'
      <3>1. pc = "sent" /\ pc' = "done" /\ answer' \in {200, 500}
        BY <2>3 DEF WriteError, Goto
      <3>2. Len(rows') \in 0..1
        BY <1>a, <2>3 DEF WriteError, LogRow
      <3>3. read = 0
        BY <3>1 DEF Untouched
      <3>4. lines' \in Seq(Lines) /\ Len(lines') = 1
        BY <2>3
      <3>5. read' = read /\ inputTok' = inputTok /\ outputTok' = outputTok
        BY <1>9 DEF RelayBody
      <3>6. AnswerOK'
        BY <1>a, <3>1, <3>3, <3>4, <3>5 DEF AnswerOK
      <3> QED
        BY <2>1, <3>1, <3>2, <3>6 DEF TypeOK
    <2> QED
      BY <1>9, <2>2, <2>3, BodyIsLine DEF RelayBody
  <1>10. CASE StartStream
    <2>1. RequestOK' /\ SendOK' /\ AnswerOK'
      BY <1>10, <1>a, PartsStay, StatusIsOK DEF StartStream, readVars
    <2> QED
      BY <1>10, <1>a, <2>1 DEF StartStream, Goto, TypeOK
  <1>11. CASE Write
    <2>1. PICK l \in NextLines \cup {Line("other"), Line("garbage")} : lines' = Append(lines, l)
      BY <1>11 DEF Write
    <2>2. l \in Lines
      BY NextLine
    <2>3. AnswerOK'
      BY <1>11, <1>a, <2>1, <2>2 DEF Write, readVars, endVars, AnswerOK
    <2>4. RequestOK' /\ SendOK'
      BY <1>11, <1>a, PartsStay DEF Write
    <2> QED
      BY <1>11, <1>a, <2>3, <2>4 DEF Write, endVars, TypeOK
  <1>12. CASE ReadLine
    <2> DEFINE s == TranslateStreamLine(T, lines[read + 1], read + 1)
    <2>1. lines[read + 1] \in Lines /\ read + 1 \in Nat /\ read' \in 0..Len(lines)
      BY <1>12, <1>a DEF ReadLine, AnswerOK
    <2>2. s.in \in Nat /\ s.out \in Nat
      BY <2>1, TranslatedLine DEF OneLine
    <2>3. /\ inputTok' = Count(inputTok, s.in) /\ outputTok' = Count(outputTok, s.out)
          /\ pc' \in {"close", "stream"}
      BY <1>12 DEF ReadLine
    <2> HIDE DEF s
    <2>4. AnswerOK'
      BY <1>12, <1>a, <2>1, <2>2, <2>3 DEF ReadLine, Count, endVars, AnswerOK
    <2>5. RequestOK' /\ SendOK'
      BY <1>12, <1>a, PartsStay DEF ReadLine
    <2> QED
      BY <1>12, <1>a, <2>3, <2>4, <2>5 DEF ReadLine, endVars, TypeOK
  <1>13. CASE EndOfBody
    <2>1. RequestOK' /\ SendOK' /\ AnswerOK'
      BY <1>13, <1>a, PartsStay DEF EndOfBody, readVars, endVars
    <2> QED
      BY <1>13, <1>a, <2>1 DEF EndOfBody, Goto, endVars, TypeOK
  <1>14. CASE CloseStream
    <2>1. RequestOK' /\ SendOK' /\ AnswerOK'
      BY <1>14, <1>a, PartsStay DEF CloseStream
    <2>2. Len(rows') = 1 /\ pc' = "done"
      BY <1>14 DEF CloseStream, LogRow, Goto
    <2> QED
      BY <2>1, <2>2 DEF TypeOK
  <1> QED
    BY <1>1, <1>2, <1>3, <1>4, <1>5, <1>6, <1>7, <1>8, <1>9, <1>10, <1>11, <1>12, <1>13,
       <1>14 DEF Next

\* What is built stays what it is once the hooks have run.
LEMMA WireStays ==
    UNCHANGED choiceVars => W' = W /\ T' = T /\ Fails' = Fails /\ QuotedKey' = QuotedKey
  BY DEF choiceVars, W, T, Fails, QuotedKey

\* Appending to copies of one thing gives copies of it.
LEMMA OneMore ==
    ASSUME NEW w, NEW s \in Seq({w})
    PROVE  Append(s, w) \in Seq({w}) /\ Len(Append(s, w)) = Len(s) + 1 /\ Append(s, w) # << >>
  <1>1. Append(s, w) \in Seq({w})
    OBVIOUS
  <1>2. Len(Append(s, w)) = Len(s) + 1 /\ Len(s) \in Nat
    OBVIOUS
  <1>3. Append(s, w) # << >>
    BY <1>2
  <1> QED
    BY <1>1, <1>2, <1>3

\* Every attempt sends the same request.
LEMMA AttemptsNext == Inv /\ [Next]_vars => Attempts'
  <1> SUFFICES ASSUME Attempts, [Next]_vars, retries \in Nat
               PROVE  Attempts'
    BY AttemptsAssumption DEF Inv, TypeOK, SendOK
  <1>a. ASSUME UNCHANGED choiceVars, UNCHANGED sendVars,
               \/ pc' = pc
               \/ pc \in {"sent", "stream", "close"} /\ pc' \in {"stream", "close", "done"}
               \/ pc = "backoff" /\ pc' = "done"
        PROVE  Attempts'
    <2>1. W' = W /\ Fails' = Fails
      BY <1>a, WireStays DEF choiceVars
    <2> QED
      BY <1>a, <2>1 DEF Attempts, choiceVars, sendVars
  <1>b. ASSUME wires = << >>, retries = 0, wires' = << >>, retries' = 0,
               \/ pc' \in {"hooks", "done"}
               \/ pc' = "send" /\ reqBody' = req'
        PROVE  Attempts'
    BY <1>b DEF Attempts
  <1>1. CASE UNCHANGED vars
    BY <1>1, <1>a DEF vars
  <1>2. CASE ChooseProvider
    BY <1>2, <1>b DEF ChooseProvider, Goto, Attempts, sendVars
  <1>3. CASE RunHooks
    <2>1. wires = << >> /\ retries = 0
      BY <1>3 DEF RunHooks, WriteError, Goto, Attempts
    <2> QED
      BY <1>3, <2>1, <1>b DEF RunHooks, WriteError, Goto, sendVars
  <1>4. CASE Send
    <2>1. pc = "send" /\ Len(wires) = retries /\ wires \in Seq({W})
      BY <1>4 DEF Send, WriteError, Goto, Attempts
    <2>2. W' = W /\ Fails' = Fails
      BY <1>4, WireStays DEF Send, choiceVars
    <2>3. CASE WriteError("send", 500) /\ UNCHANGED <<wires, meta>>
      BY <1>4, <2>1, <2>2, <2>3 DEF Send, WriteError, Goto, Attempts
    <2>4. CASE /\ ~Fails /\ Goto("send", "sent")
               /\ wires' = Append(wires, W) /\ meta' = <<Capture(W)>>
      <3>1. wires' \in Seq({W}) /\ Len(wires') = retries + 1
        BY <2>1, <2>4, OneMore
      <3> QED
        BY <1>4, <2>2, <2>4, <3>1 DEF Send, Goto, Attempts, choiceVars
    <2> QED
      BY <1>4, <2>3, <2>4 DEF Send, Fails, W
  <1>5. CASE GiveUp
    BY <1>5, <1>a DEF GiveUp, WriteError, Goto
  <1>6. CASE BackOff
    <2>1. W' = W /\ Fails' = Fails
      BY <1>6, WireStays DEF BackOff, choiceVars
    <2> QED
      BY <1>6, <2>1 DEF BackOff, Goto, Attempts, choiceVars
  <1>7. CASE Retry
    <2>1. W' = W /\ Fails' = Fails
      BY <1>7, WireStays DEF Retry, choiceVars
    <2> QED
      BY <1>7, <2>1 DEF Retry, Goto, Attempts, choiceVars
  <1>8. CASE RelayFailure
    BY <1>8, <1>a DEF RelayFailure, Goto
  <1>9. CASE RelayBody
    BY <1>9, <1>a DEF RelayBody, WriteError, Goto
  <1>10. CASE StartStream
    BY <1>10, <1>a DEF StartStream, Goto
  <1>11. CASE Write
    BY <1>11, <1>a DEF Write
  <1>12. CASE ReadLine
    BY <1>12, <1>a DEF ReadLine
  <1>13. CASE EndOfBody
    BY <1>13, <1>a DEF EndOfBody, Goto
  <1>14. CASE CloseStream
    BY <1>14, <1>a DEF CloseStream, Goto
  <1> QED
    BY <1>1, <1>2, <1>3, <1>4, <1>5, <1>6, <1>7, <1>8, <1>9, <1>10, <1>11, <1>12, <1>13,
       <1>14 DEF Next

\* Nothing of the answer moves before the provider is heard.
LEMMA UntouchedNext == Inv /\ [Next]_vars => Untouched'
  <1> SUFFICES ASSUME Untouched, [Next]_vars
               PROVE  Untouched'
    BY DEF Inv
  <1>a. ASSUME pc' \notin {"new", "hooks", "send", "sent", "backoff"}
        PROVE  Untouched'
    BY <1>a DEF Untouched
  <1>b. ASSUME pc \in {"new", "hooks", "send", "sent", "backoff"},
               UNCHANGED <<lines, readVars, answer>>
        PROVE  Untouched'
    BY <1>b DEF Untouched, readVars
  <1>1. CASE UNCHANGED vars
    BY <1>1 DEF vars, readVars, endVars, Untouched
  <1>2. CASE ChooseProvider
    BY <1>2, <1>b DEF ChooseProvider, Goto, endVars
  <1>3. CASE RunHooks
    BY <1>3, <1>a, <1>b DEF RunHooks, WriteError, Goto, endVars
  <1>4. CASE Send
    BY <1>4, <1>a, <1>b DEF Send, WriteError, Goto, endVars
  <1>5. CASE GiveUp
    BY <1>5, <1>a DEF GiveUp, WriteError, Goto
  <1>6. CASE BackOff
    BY <1>6, <1>b DEF BackOff, Goto, endVars
  <1>7. CASE Retry
    BY <1>7, <1>b DEF Retry, Goto, endVars
  <1>8. CASE RelayFailure
    BY <1>8, <1>a DEF RelayFailure, Goto
  <1>9. CASE RelayBody
    BY <1>9, <1>a DEF RelayBody, WriteError, Goto
  <1>10. CASE StartStream
    BY <1>10, <1>a DEF StartStream, Goto
  <1>11. CASE Write
    BY <1>11, <1>a DEF Write
  <1>12. CASE ReadLine
    BY <1>12, <1>a DEF ReadLine
  <1>13. CASE EndOfBody
    BY <1>13, <1>a DEF EndOfBody, Goto
  <1>14. CASE CloseStream
    BY <1>14, <1>a DEF CloseStream, Goto
  <1> QED
    BY <1>1, <1>2, <1>3, <1>4, <1>5, <1>6, <1>7, <1>8, <1>9, <1>10, <1>11, <1>12, <1>13,
       <1>14 DEF Next

\* It waits as long as the last answer says.
LEMMA BacksOffNext == Inv /\ [Next]_vars => BacksOff'
  <1> SUFFICES ASSUME BacksOff, retries \in Nat, [Next]_vars
               PROVE  BacksOff'
    BY AttemptsAssumption DEF Inv, TypeOK, SendOK
  <1>a. ASSUME pc' # "backoff"
        PROVE  BacksOff'
    BY <1>a DEF BacksOff
  <1>1. CASE UNCHANGED vars
    BY <1>1 DEF vars, sendVars, BacksOff
  <1>2. CASE BackOff
    <2>1. PICK seconds \in RetryAfters :
              retryAfter' = seconds /\ wait' = RetryWait(seconds, retries)
      BY <1>2 DEF BackOff
    <2>2. retries' = retries + 1 /\ retries' - 1 = retries
      BY <1>2 DEF BackOff
    <2> QED
      BY <2>1, <2>2 DEF BacksOff
  <1>3. CASE Write
    BY <1>3, <1>a DEF Write
  <1>4. CASE ReadLine
    BY <1>4, <1>a DEF ReadLine
  <1> QED
    BY <1>1, <1>2, <1>3, <1>4, <1>a
       DEF Next, ChooseProvider, RunHooks, Send, GiveUp, Retry, RelayFailure, RelayBody,
           StartStream, EndOfBody, CloseStream, WriteError, Goto

\* A row is made once, of what the exchange has come to.
LEMMA RowIsMadeNext == Inv /\ [Next]_vars => RowIsMade'
  <1> SUFFICES ASSUME RowIsMade, Attempts, Untouched, [Next]_vars
               PROVE  RowIsMade'
    BY DEF Inv
  <1>a. ASSUME pc # "done", pc' # "done", rows' = rows,
               pc' \in {"stream", "close"} => answer' = 200 /\ req'.stream
        PROVE  RowIsMade'
    BY <1>a DEF RowIsMade, Streamed
  <1>b. ASSUME pc # "done", pc' = "done", rows' = rows, answer' # 200
        PROVE  RowIsMade'
    BY <1>b DEF RowIsMade, Streamed
  <1>c. ASSUME NEW status, NEW in, NEW out, LogRow(status, in, out),
               pc \in {"sent", "close"}, pc' = "done",
               UNCHANGED choiceVars, UNCHANGED sendVars, resBuf' = resBuf,
               answer' = 200 /\ req'.stream => in = inputTok' /\ out = outputTok'
        PROVE  RowIsMade'
    <2> DEFINE row == [provider |-> provider, model |-> req.model, request |-> reqBody,
                       status |-> status, retries |-> retries, in |-> in, out |-> out,
                       response |-> resBuf, upstream |-> meta[1]]
    <2>1. rows' = <<row>>
      BY <1>c DEF LogRow
    <2>2. Len(rows') = 1 /\ rows' # << >> /\ rows'[1] = row
      BY <2>1
    <2>3. /\ row.provider = provider /\ row.model = req.model /\ row.request = reqBody
          /\ row.retries = retries /\ row.in = in /\ row.out = out
          /\ row.response = resBuf /\ row.upstream = meta[1]
      OBVIOUS
    <2>4. Len(wires) = retries + 1 /\ meta[1] = Capture(W) /\ reqBody = req
      BY <1>c DEF Attempts
    <2>5. W' = W
      BY <1>c, WireStays
    <2> HIDE DEF row
    <2> QED
      BY <1>c, <2>2, <2>3, <2>4, <2>5 DEF RowIsMade, Streamed, choiceVars, sendVars
  <1>1. CASE UNCHANGED vars
    <2>1. W' = W
      BY <1>1, WireStays DEF vars
    <2> QED
      BY <1>1, <2>1
         DEF vars, choiceVars, sendVars, readVars, endVars, RowIsMade, Streamed
  <1>2. CASE ChooseProvider
    BY <1>2, <1>a DEF ChooseProvider, Goto, endVars
  <1>3. CASE RunHooks
    BY <1>3, <1>a, <1>b DEF RunHooks, WriteError, Goto, endVars
  <1>4. CASE Send
    BY <1>4, <1>a, <1>b DEF Send, WriteError, Goto, endVars
  <1>5. CASE GiveUp
    BY <1>5, <1>b DEF GiveUp, WriteError, Goto
  <1>6. CASE BackOff
    BY <1>6, <1>a DEF BackOff, Goto, endVars
  <1>7. CASE Retry
    BY <1>7, <1>a DEF Retry, Goto, endVars
  <1>8. CASE RelayFailure
    <2>1. PICK status \in OtherStatuses \cup {429} : answer' = status /\ LogRow(status, 0, 0)
      BY <1>8 DEF RelayFailure
    <2>2. answer' # 200
      BY <2>1, StatusAssumption
    <2> QED
      BY <1>8, <2>1, <2>2, <1>c DEF RelayFailure, Goto, readVars
  <1>9. CASE RelayBody
    <2>1. ~req.stream /\ req' = req
      BY <1>9 DEF RelayBody, choiceVars
    <2>2. CASE UNCHANGED lines /\ WriteError("sent", 502)
      BY <2>2, <1>b DEF WriteError, Goto
    <2>3. UNCHANGED choiceVars /\ UNCHANGED sendVars /\ resBuf' = resBuf /\ ~req'.stream
      BY <1>9, <2>1 DEF RelayBody
    <2>4. ASSUME NEW in, NEW out, Goto("sent", "done"), LogRow(200, in, out)
          PROVE  RowIsMade'
      BY <2>3, <2>4, <1>c DEF Goto
    <2>5. ASSUME NEW answered \in Lines, lines' = <<answered>>,
                 \/ WriteError("sent", 500)
                 \/ Goto("sent", "done") /\ answer' = 200
                       /\ LogRow(200, answered.usage.in, answered.usage.out)
          PROVE  RowIsMade'
      <3>1. CASE WriteError("sent", 500)
        BY <3>1, <1>b DEF WriteError, Goto
      <3>2. CASE Goto("sent", "done") /\ LogRow(200, answered.usage.in, answered.usage.out)
        BY <3>2, <2>4
      <3> QED
        BY <2>5, <3>1, <3>2
    <2> QED
      BY <1>9, <2>2, <2>5, BodyIsLine DEF RelayBody
  <1>10. CASE StartStream
    BY <1>10, <1>a DEF StartStream, Goto, choiceVars
  <1>11. CASE Write
    BY <1>11, <1>a DEF Write, RowIsMade, choiceVars, endVars
  <1>12. CASE ReadLine
    BY <1>12, <1>a DEF ReadLine, RowIsMade, choiceVars, endVars
  <1>13. CASE EndOfBody
    BY <1>13, <1>a DEF EndOfBody, RowIsMade, Goto, choiceVars, endVars
  <1>14. CASE CloseStream
    BY <1>14, <1>c DEF CloseStream, Goto
  <1> QED
    BY <1>1, <1>2, <1>3, <1>4, <1>5, <1>6, <1>7, <1>8, <1>9, <1>10, <1>11, <1>12, <1>13,
       <1>14 DEF Next

\* A full answer is unreadable, or a body that is translated or not.
LEMMA BodyIsAnswered ==
    ASSUME RelayBody
    PROVE  \/ WriteError("sent", 502) \/ WriteError("sent", 500)
           \/ \E in, out : Goto("sent", "done") /\ answer' = 200 /\ LogRow(200, in, out)
  <1> DEFINE Is(in, out) == Goto("sent", "done") /\ answer' = 200 /\ LogRow(200, in, out)
             Body == Carrying({"body", "usage", "garbage"}, Usages, {""}, {0})
             Judged(body) == \/ /\ ~Translates(T, body)
                                /\ WriteError("sent", 500)
                             \/ /\ Translates(T, body)
                                /\ Goto("sent", "done")
                                /\ answer' = 200
                                /\ LogRow(200, body.usage.in, body.usage.out)
  <1>1. \/ WriteError("sent", 502) /\ UNCHANGED lines
        \/ \E body \in Body : lines' = <<body>> /\ Judged(body)
    BY Zenon DEF RelayBody
  <1>2. ASSUME NEW body \in Body, Judged(body)
        PROVE  WriteError("sent", 500) \/ Is(body.usage.in, body.usage.out)
    BY <1>2, Zenon
  <1> HIDE DEF Is, Body, Judged
  <1>3. WriteError("sent", 502) \/ WriteError("sent", 500) \/ \E in, out : Is(in, out)
    BY <1>1, <1>2, Zenon
  <1> QED
    BY <1>3, Zenon DEF Is

\* What an action puts into an error is a key in a URL, and then it is done.
LEMMA TellsKeyNext == Inv /\ [Next]_vars => TellsKey'
  <1> SUFFICES ASSUME Inv, TellsKey, [Next]_vars
               PROVE  TellsKey'
    BY DEF Inv
  <1>a. ASSUME pc # "done", errorKey' = errorKey
        PROVE  TellsKey'
    BY <1>a DEF TellsKey, OwnError
  <1>b. ASSUME pc # "done", pc' = "done", rows' = rows, answer' \in {500, 502}, QuotesUrl,
               UNCHANGED choiceVars
        PROVE  TellsKey'
    <2>1. rows = << >>
      BY <1>b DEF Inv, RowIsMade
    <2>2. QuotedKey' = QuotedKey
      BY <1>b, WireStays DEF choiceVars
    <2> QED
      BY <1>b, <2>1, <2>2 DEF TellsKey, OwnError, QuotesUrl, QuotedKey
  <1>1. CASE UNCHANGED vars
    <2>1. QuotedKey' = QuotedKey
      BY <1>1, WireStays DEF vars, choiceVars
    <2>2. errorKey' = errorKey
      BY <1>1 DEF vars, endVars
    <2>3. OwnError' = OwnError
      BY <1>1 DEF vars, endVars, OwnError
    <2> QED
      BY <2>1, <2>2, <2>3 DEF TellsKey
  <1>2. CASE ChooseProvider \/ BackOff \/ Retry \/ EndOfBody
    BY <1>2, <1>a DEF ChooseProvider, BackOff, Retry, EndOfBody, Goto, endVars
  <1>3. CASE RunHooks
    BY <1>3, <1>a DEF RunHooks, WriteError, Goto, endVars
  <1>4. CASE Send
    <2>1. CASE WriteError("send", 500) /\ QuotesUrl
      BY <1>4, <2>1, <1>b DEF Send, WriteError, Goto
    <2>2. CASE Goto("send", "sent") /\ UNCHANGED endVars
      BY <2>2, <1>a DEF Goto, endVars
    <2> QED
      BY <1>4, <2>1, <2>2 DEF Send
  <1>5. CASE GiveUp
    <2>1. CASE WriteError("sent", 502) /\ QuotesUrl
      BY <1>5, <2>1, <1>b DEF GiveUp, WriteError, Goto
    <2>2. CASE WriteError("backoff", 502) /\ UNCHANGED errorKey
      BY <2>2, <1>a DEF WriteError, Goto
    <2> QED
      BY <1>5, <2>1, <2>2 DEF GiveUp
  <1>6. CASE RelayFailure \/ StartStream \/ CloseStream
    BY <1>6, <1>a DEF RelayFailure, StartStream, CloseStream, Goto
  <1>7. CASE RelayBody
    BY <1>7, <1>a DEF RelayBody, WriteError, Goto
  <1>8. CASE Write \/ ReadLine
    BY <1>8, <1>a DEF Write, ReadLine, endVars
  <1> QED
    BY <1>1, <1>2, <1>3, <1>4, <1>5, <1>6, <1>7, <1>8 DEF Next

\* The invariant holds, of every exchange.
THEOREM ExchangeInvariant == Spec => []Inv
  <1>1. Init => Inv
    BY InvInit
  <1>2. Inv /\ [Next]_vars => Inv'
    BY TypeNext, AttemptsNext, UntouchedNext, RowIsMadeNext, BacksOffNext, TellsKeyNext
       DEF Inv
  <1> QED
    BY <1>1, <1>2, PTL DEF Spec

\* TypeOK: requests stay requests however hooks edit them, lines and counts what they
\* are, and there are never more attempts than there may be.
THEOREM ExchangeTypeCorrect == Spec => []TypeOK
  <1>1. Inv => TypeOK
    BY DEF Inv
  <1> QED
    BY <1>1, ExchangeInvariant, PTL

----------------------------------------------------------------------------
(* What is sent and what is logged                                         *)

\* A request that can be built has a key of its provider, or there is none and it goes
\* to an alias with a dummy.
LEMMA KeyOfProvider ==
    ASSUME ~Fails
    PROVE  \/ W.key \in KeysOf(T) \cap environment
           \/ KeysOf(T) \cap environment = {} /\ W.key = "local" /\ W.to = "alias"
  <1> DEFINE keys == KeysOf(T) \cap environment
  <1>1. W.key = ApiKey(T, environment, base) /\ ApiKey(T, environment, base) # ""
    BY DEF W, BuildRequest, Fails, BuildFails
  <1>2. W.to = IF base = "" THEN T ELSE "alias"
    BY DEF W, BuildRequest
  <1>3. CASE keys = {}
    BY <1>1, <1>2, <1>3 DEF ApiKey
  <1>4. CASE keys # {}
    <2>1. (CHOOSE k \in keys : TRUE) \in keys
      BY <1>4
    <2> QED
      BY <1>1, <1>4, <2>1 DEF ApiKey
  <1> QED
    BY <1>3, <1>4

\* Nothing but the key is blanked, and the key where it is found.
LEMMA Captured ==
    /\ [Capture(W) EXCEPT !.key = W.key] = W
    /\ Capture(W).key = IF Redacts(W) THEN "REDACTED" ELSE W.key
  <1>0. W = [to |-> W.to, url |-> W.url, place |-> W.place, key |-> W.key,
             model |-> W.model, stream |-> W.stream, maxTokens |-> W.maxTokens,
             n |-> W.n, conversation |-> W.conversation]
    BY DEF W, BuildRequest
  <1>1. ASSUME NEW key
        PROVE  /\ [[W EXCEPT !.key = key] EXCEPT !.key = W.key] = W
               /\ [W EXCEPT !.key = key].key = key
    BY <1>0
  <1>2. PICK key : key = (IF Redacts(W) THEN "REDACTED" ELSE W.key)
    OBVIOUS
  <1>3. Capture(W) = [W EXCEPT !.key = key]
    BY <1>2 DEF Capture
  <1> QED
    BY <1>1, <1>2, <1>3

\* Gemini's key is in the URL, the other ones are in headers.
LEMMA OnlyGeminiInUrl == T # "gemini" => KeyPlace(T) # "key="
  <1>1. T \in {"openai", "anthropic", "gemini"}
    BY ThreeTranslators
  <1>2. KeyPlace("openai") # "key=" /\ KeyPlace("anthropic") # "key="
    BY DEF KeyPlace
  <1> QED
    BY <1>1, <1>2

\* What stands for no key is none.
LEMMA NoKeys == {"", "local", "REDACTED"} \cap ProviderKeys = {}
  <1>1. \A t \in Providers : {"", "local", "REDACTED"} \cap KeysOf(t) = {}
    BY DEF KeysOf
  <1> QED
    BY <1>1 DEF ProviderKeys

\* KeysAreKept: whichever provider an alias or a hook made it, however it ends.
THEOREM KeysStayOut == Spec => []KeysAreKept
  <1>1. Inv => KeysAreKept
    <2> SUFFICES ASSUME Attempts, RowIsMade, TellsKey
                 PROVE  KeysAreKept
      BY DEF Inv
    <2>1. T # "gemini" => errorKey = ""
      BY OnlyGeminiInUrl DEF TellsKey, QuotedKey, UrlKey
    <2>2. ASSUME T # "gemini" \/ UrlForm(T, base, req.model) = "plain"
          PROVE  LoggedKeys = {}
      <3>1. W.place = KeyPlace(T) /\ W.url = UrlForm(T, base, req.model)
        BY DEF W, BuildRequest
      <3>2. Redacts(W)
        BY <2>2, <3>1, OnlyGeminiInUrl DEF Redacts
      <3>3. ASSUME NEW i \in 1..Len(rows)
            PROVE  rows[i].upstream.key = "REDACTED"
        <4>1. rows # << >>
          BY <3>3
        <4>2. Len(rows) = 1
          BY <4>1 DEF RowIsMade
        <4>3. i = 1
          BY <3>3, <4>2
        <4> QED
          BY <4>1, <4>3, <3>2, Captured DEF RowIsMade
      <3> QED
        BY <3>3, NoKeys DEF LoggedKeys
    <2>3. ASSUME NEW i \in 1..Len(wires)
          PROVE  \/ wires[i].key \in KeysOf(T) \cap environment
                 \/ /\ KeysOf(T) \cap environment = {}
                    /\ wires[i].key = "local" /\ wires[i].to = "alias"
      <3>1. wires[i] = W /\ wires # << >>
        BY <2>3 DEF Attempts
      <3> QED
        BY <3>1, KeyOfProvider DEF Attempts
    <2>4. errorKey # "" => rows = << >> /\ answer \in {500, 502}
      BY DEF TellsKey, OwnError
    <2>5. T # "gemini" => errorKey = "" /\ LoggedKeys = {}
      BY <2>1, <2>2
    <2>6. UrlForm(T, base, req.model) = "plain" => LoggedKeys = {}
      BY <2>2
    <2> QED
      BY <2>3, <2>4, <2>5, <2>6, Zenon DEF KeysAreKept
  <1> QED
    BY <1>1, ExchangeInvariant, PTL

\* RowTellsWhatWasSent: the request of the row, translated again, is what every attempt
\* sent, and there was one attempt more than the row has retries.
THEOREM RowsTellWhatWasSent == Spec => []RowTellsWhatWasSent
  <1>1. Inv => RowTellsWhatWasSent
    <2> SUFFICES ASSUME Attempts, RowIsMade, NEW i \in 1..Len(rows)
                 PROVE  LET wire == BuildRequest(Translator(rows[i].provider), environment,
                                                 base, rows[i].request) IN
                        /\ \A j \in 1..Len(wires) : wires[j] = wire
                        /\ Len(wires) = rows[i].retries + 1
                        /\ [rows[i].upstream EXCEPT !.key = wire.key] = wire
                        /\ rows[i].model = wire.model
      BY DEF Inv, RowTellsWhatWasSent
    <2>0. rows # << >>
      OBVIOUS
    <2>1. i = 1
      <3>1. Len(rows) = 1
        BY <2>0 DEF RowIsMade
      <3> QED
        BY <3>1
    <2>2. /\ rows[i].provider = provider /\ rows[i].request = req
          /\ rows[i].model = req.model /\ rows[i].retries = retries
          /\ rows[i].upstream = Capture(W) /\ Len(wires) = retries + 1
      BY <2>0, <2>1 DEF RowIsMade
    <2>3. BuildRequest(Translator(rows[i].provider), environment, base, rows[i].request) = W
      BY <2>2 DEF W, T
    <2>4. \A j \in 1..Len(wires) : wires[j] = W
      BY DEF Attempts
    <2>5. W.model = req.model
      BY DEF W, BuildRequest
    <2> QED
      BY <2>2, <2>3, <2>4, <2>5, Captured
  <1> QED
    BY <1>1, ExchangeInvariant, PTL

\* WaitsAreBounded: a wait that does not overflow is the one asked for, up to the cap,
\* and no wait is longer than the cap.
THEOREM WaitsStayBounded == Spec => []WaitsAreBounded
  <1>1. Inv => WaitsAreBounded
    <2> SUFFICES ASSUME Inv, pc = "backoff"
                 PROVE  LET asked == IF retryAfter > 0 THEN retryAfter * Second
                                                       ELSE retries * baseRetryWait
                        IN  /\ wait <= maxRetryWait
                            /\ asked < Half =>
                                  wait = asked \/ (wait = maxRetryWait /\ asked > maxRetryWait)
      BY DEF WaitsAreBounded
    <2> DEFINE asked == IF retryAfter > 0 THEN retryAfter * Second ELSE retries * baseRetryWait
    <2>1. /\ Second \in Nat /\ baseRetryWait \in Nat /\ maxRetryWait \in Nat /\ Half \in Nat
          /\ retryAfter \in Nat /\ retries \in Nat
      BY WaitsAssumption, AttemptsAssumption DEF Inv, TypeOK, SendOK
    <2>2. \A a, b \in Nat : a * b \in Nat
      OBVIOUS
    <2>3. asked \in Nat
      BY <2>1, <2>2
    <2>4. wait = RetryWait(retryAfter, retries - 1) /\ retries - 1 + 1 = retries
      BY <2>1 DEF Inv, BacksOff
    <2>5. wait = Capped(Wrap(asked))
      BY <2>4 DEF RetryWait
    <2> HIDE DEF asked
    <2>6. Wrap(asked) \in Int /\ (asked < Half => Wrap(asked) = asked)
      BY <2>3, WrapIsInt, WrapOfSmall
    <2>7. /\ wait <= maxRetryWait
          /\ asked < Half => wait = asked \/ (wait = maxRetryWait /\ asked > maxRetryWait)
      BY <2>1, <2>3, <2>5, <2>6 DEF Capped
    <2> QED
      BY <2>7 DEF asked
  <1> QED
    BY <1>1, ExchangeInvariant, PTL

----------------------------------------------------------------------------
(* What the client sees of a stream                                        *)

Chunks == [line : Nat, finish : PassedOn, choice : Nat]

\* What a chunk says of its line.
Tells(chunk, l, i) ==
    \E f \in PassedOn, c \in Nat :
        /\ chunk = <<Chunk(i, f, c)>>
        /\ f # "" => Ends(l)
        /\ T = "openai" => l.kind = "part" /\ c = l.choice
        /\ T = "anthropic" => c = 0 /\ l.kind \in {"start", "text", "delta"}
        /\ T = "gemini" => c = 0 /\ l.kind = "part"

\* A line has no chunk or one that tells of it.
LEMMA ChunkTells ==
    ASSUME NEW l \in Lines, NEW i \in Nat
    PROVE  \/ TranslateStreamLine(T, l, i).chunk = << >>
           \/ Tells(TranslateStreamLine(T, l, i).chunk, l, i)
  <1>1. /\ l.choice \in Nat /\ l.finish \in PassedOn /\ 0 \in Nat
        /\ "stop" \in PassedOn /\ "" \in PassedOn /\ "max_tokens" \in PassedOn
    BY DEF Lines, PassedOn, FinishReasons
  <1>2. CASE T = "anthropic"
    <2>1. TranslateStreamLine(T, l, i) = AnthropicLine(l, i)
      BY <1>2 DEF TranslateStreamLine
    <2>2. CASE l.kind = "delta"
      <3>1. AnthropicLine(l, i).chunk = <<Chunk(i, "stop", 0)>>
        BY <2>2 DEF AnthropicLine
      <3>2. Ends(l)
        BY <1>2, <2>2 DEF Ends
      <3> QED
        BY <1>1, <1>2, <2>1, <2>2, <3>1, <3>2 DEF Tells
    <2>3. CASE l.kind \in {"start", "text"}
      <3>1. AnthropicLine(l, i).chunk = <<Chunk(i, "", 0)>>
        BY <2>3 DEF AnthropicLine
      <3> QED
        BY <1>1, <1>2, <2>1, <2>3, <3>1 DEF Tells
    <2>4. CASE l.kind \notin {"start", "text", "delta"}
      <3>1. AnthropicLine(l, i).chunk = << >>
        BY <2>4 DEF AnthropicLine
      <3> QED
        BY <2>1, <3>1
    <2> QED
      BY <2>2, <2>3, <2>4
  <1>3. CASE T = "gemini"
    <2>1. TranslateStreamLine(T, l, i) = GeminiLine(l, i)
      BY <1>3 DEF TranslateStreamLine
    <2>2. CASE l.kind = "part"
      <3> DEFINE f == GeminiFinish(l.finish)
      <3>1. GeminiLine(l, i).chunk = <<Chunk(i, f, 0)>>
        BY <2>2 DEF GeminiLine
      <3>2. f \in PassedOn /\ (f # "" => l.finish # "")
        BY <1>1 DEF GeminiFinish
      <3>3. f # "" => Ends(l)
        BY <1>3, <2>2, <3>2 DEF Ends
      <3> HIDE DEF f
      <3> QED
        BY <1>1, <1>3, <2>1, <2>2, <3>1, <3>2, <3>3 DEF Tells
    <2>3. CASE l.kind # "part"
      <3>1. GeminiLine(l, i).chunk = << >>
        BY <2>3 DEF GeminiLine
      <3> QED
        BY <2>1, <3>1
    <2> QED
      BY <2>2, <2>3
  <1>4. CASE T = "openai"
    <2>1. TranslateStreamLine(T, l, i) = OpenAILine(l, i)
      BY <1>4 DEF TranslateStreamLine
    <2>2. CASE l.kind = "part"
      <3>1. OpenAILine(l, i).chunk = <<Chunk(i, l.finish, l.choice)>>
        BY <2>2 DEF OpenAILine
      <3>2. l.finish # "" => Ends(l)
        BY <1>4, <2>2 DEF Ends
      <3> QED
        BY <1>1, <1>4, <2>1, <2>2, <3>1, <3>2 DEF Tells
    <2>3. CASE l.kind # "part"
      <3>1. OpenAILine(l, i).chunk = << >>
        BY <2>3 DEF OpenAILine
      <3> QED
        BY <2>1, <3>1
    <2> QED
      BY <2>2, <2>3
  <1> QED
    BY <1>2, <1>3, <1>4, ThreeTranslators

\* A line of a provider, and one after the line that ends a choice.
Shape(l) ==
    /\ T \in {"anthropic", "gemini"} => l.choice = 0
    /\ T = "gemini" => \/ l.kind \in {"part", "usage"}
                       \/ l.usage.in = 0 /\ l.usage.out = 0
After(end, l) ==
    /\ T = "anthropic" => l.kind \in {"stop", "other", "garbage"}
    /\ T = "gemini" => l.kind \in {"other", "garbage"}
    /\ T = "openai" => (l.kind = "part" => l.choice # end.choice)

\* What the provider has written follows its protocol.
LinesFollow ==
    req.stream =>
        /\ \A i \in 1..Len(lines) : Shape(lines[i])
        /\ \A i, j \in 1..Len(lines) : i < j /\ Ends(lines[i]) => After(lines[i], lines[j])

\* The next line follows the protocol too.
LEMMA LinesFollowNext == Inv /\ LinesFollow /\ [Next]_vars => LinesFollow'
  <1> SUFFICES ASSUME Inv, LinesFollow, [Next]_vars
               PROVE  LinesFollow'
    OBVIOUS
  <1>a. ASSUME lines' = << >>
        PROVE  LinesFollow'
    BY <1>a DEF LinesFollow
  <1>b. ASSUME UNCHANGED <<choiceVars, lines>>
        PROVE  LinesFollow'
    <2>1. T' = T /\ req' = req /\ lines' = lines
      BY <1>b, WireStays DEF choiceVars
    <2> QED
      BY <2>1 DEF LinesFollow, Shape, After, Ends
  <1>1. CASE UNCHANGED vars
    BY <1>1, <1>b DEF vars
  <1>2. CASE ChooseProvider
    BY <1>2, <1>a DEF ChooseProvider, Goto, Inv, Untouched
  <1>3. CASE RunHooks
    BY <1>3, <1>a DEF RunHooks, WriteError, Goto, Inv, Untouched
  <1>4. CASE Send
    BY <1>4, <1>b DEF Send
  <1>5. CASE GiveUp
    BY <1>5, <1>b DEF GiveUp
  <1>6. CASE BackOff
    BY <1>6, <1>b DEF BackOff
  <1>7. CASE Retry
    BY <1>7, <1>b DEF Retry
  <1>8. CASE RelayFailure
    BY <1>8, <1>b DEF RelayFailure
  <1>9. CASE RelayBody
    BY <1>9 DEF RelayBody, choiceVars, LinesFollow
  <1>10. CASE StartStream
    BY <1>10, <1>b DEF StartStream
  <1>11. CASE Write
    <2>1. PICK l \in NextLines \cup {Line("other"), Line("garbage")} : lines' = Append(lines, l)
      BY <1>11 DEF Write
    <2>2. T' = T /\ req' = req /\ req.stream
      BY <1>11, WireStays DEF Write, choiceVars, Inv, RowIsMade
    <2>3. lines \in Seq(Lines) /\ l \in Lines
      BY NextLine DEF Inv, TypeOK, AnswerOK
    <2>4. Shape(l)
      BY NextLine DEF Inv, Shape
    <2>5. \A i \in 1..Len(lines) : Ends(lines[i]) => HasEnded(lines[i].choice)
      BY DEF HasEnded
    <2>6. \A i \in 1..Len(lines) : Ends(lines[i]) => After(lines[i], l)
      <3> SUFFICES ASSUME NEW i \in 1..Len(lines), Ends(lines[i])
                   PROVE  After(lines[i], l)
        OBVIOUS
      <3>1. HasEnded(lines[i].choice) /\ Shape(lines[i])
        BY <2>2, <2>5 DEF LinesFollow
      <3>2. CASE T = "anthropic"
        <4>1. HasEnded(0)
          BY <3>1, <3>2 DEF Shape
        <4> QED
          BY <3>2, <4>1, NextLine DEF Inv, After
      <3>3. CASE T = "gemini"
        <4>1. HasEnded(0)
          BY <3>1, <3>3 DEF Shape
        <4> QED
          BY <3>3, <4>1, NextLine DEF Inv, After
      <3>4. CASE T = "openai"
        BY <3>1, <3>4, NextLine DEF Inv, After
      <3> QED
        BY <3>2, <3>3, <3>4, ThreeTranslators
    <2>7. /\ Len(lines') = Len(lines) + 1 /\ Len(lines) \in Nat
          /\ \A i \in 1..Len(lines) : lines'[i] = lines[i]
          /\ lines'[Len(lines) + 1] = l
      BY <2>1, <2>3
    <2>8. \A i \in 1..Len(lines') : Shape(lines'[i])
      BY <2>2, <2>4, <2>7 DEF LinesFollow
    <2>9. \A i, j \in 1..Len(lines') : i < j /\ Ends(lines'[i]) => After(lines'[i], lines'[j])
      BY <2>2, <2>6, <2>7 DEF LinesFollow
    <2> QED
      BY <2>2, <2>8, <2>9 DEF LinesFollow, Shape, After, Ends
  <1>12. CASE ReadLine
    BY <1>12, <1>b DEF ReadLine
  <1>13. CASE EndOfBody
    BY <1>13, <1>b DEF EndOfBody
  <1>14. CASE CloseStream
    BY <1>14, <1>b DEF CloseStream
  <1> QED
    BY <1>1, <1>2, <1>3, <1>4, <1>5, <1>6, <1>7, <1>8, <1>9, <1>10, <1>11, <1>12, <1>13,
       <1>14 DEF Next

\* What is kept of a stream is, line by line, what its lines become.
ChunksKept ==
    /\ resBuf \in Seq(Chunks)
    /\ read > 0 => req.stream
    /\ client = IF Streamed THEN Append(resBuf, DoneMark) ELSE resBuf
    /\ \A k \in 1..Len(resBuf) :
          resBuf[k].line \in 1..read /\ ChunkOf(resBuf[k].line) = <<resBuf[k]>>
    /\ \A j, k \in 1..Len(resBuf) : j < k => resBuf[j].line < resBuf[k].line
    /\ \A i \in 1..read : ChunkOf(i) # << >> => \E k \in 1..Len(resBuf) : resBuf[k].line = i

\* Reading a line keeps its chunk.
LEMMA ChunksKeptRead == Inv /\ ChunksKept /\ ReadLine => ChunksKept'
  <1> SUFFICES ASSUME Inv, ChunksKept, ReadLine
               PROVE  ChunksKept'
    OBVIOUS
  <1> DEFINE n == read + 1
             chunk == ChunkOf(n)
  <1>1. /\ pc = "stream" /\ pc' \in {"stream", "close"} /\ req.stream
        /\ read < Len(lines) /\ read' = n /\ lines' = lines
        /\ resBuf' = resBuf \o chunk /\ client' = client \o chunk
    BY DEF ReadLine, ChunkOf, Inv, RowIsMade
  <1>2. req' = req /\ (\A i : ChunkOf(i)' = ChunkOf(i))
    BY <1>1, WireStays DEF ReadLine, choiceVars, ChunkOf
  <1>3. client = resBuf /\ client' = resBuf'
    BY <1>1 DEF ChunksKept, Streamed
  <1>4. ~Streamed /\ ~Streamed'
    BY <1>1 DEF Streamed
  <1>5. /\ lines \in Seq(Lines) /\ read \in Nat /\ Len(lines) \in Nat /\ n \in 1..Len(lines)
        /\ resBuf \in Seq(Chunks) /\ Len(resBuf) \in Nat
    BY <1>1 DEF Inv, TypeOK, AnswerOK, ChunksKept
  <1>6. chunk = << >> \/ Tells(chunk, lines[n], n)
    BY <1>5, ChunkTells DEF ChunkOf
  <1>7. CASE chunk = << >>
    <2>1. resBuf' = resBuf
      BY <1>1, <1>5, <1>7
    <2>2. \A i \in 1..n : ChunkOf(i) # << >> => \E k \in 1..Len(resBuf) : resBuf[k].line = i
      BY <1>5, <1>7 DEF ChunksKept
    <2>3. \A k \in 1..Len(resBuf) : resBuf[k].line \in 1..n
      BY <1>5 DEF ChunksKept
    <2> HIDE DEF n, chunk
    <2> QED
      BY <1>1, <1>2, <1>3, <1>4, <1>5, <2>1, <2>2, <2>3 DEF ChunksKept
  <1>8. CASE Tells(chunk, lines[n], n)
    <2>1. PICK f \in PassedOn, c \in Nat : chunk = <<Chunk(n, f, c)>>
      BY <1>8 DEF Tells
    <2> DEFINE x == Chunk(n, f, c)
    <2>2. x \in Chunks /\ x.line = n
      BY <1>5 DEF Chunks, Chunk
    <2> HIDE DEF x, n, chunk
    <2>3. chunk = <<x>>
      BY <2>1 DEF x
    <2>4. /\ resBuf' \in Seq(Chunks) /\ Len(resBuf') = Len(resBuf) + 1
          /\ resBuf'[Len(resBuf) + 1] = x
          /\ \A k \in 1..Len(resBuf) : resBuf'[k] = resBuf[k]
      BY <1>1, <1>5, <2>2, <2>3
    <2>5. \A k \in 1..Len(resBuf) : resBuf[k].line \in 1..read
      BY DEF ChunksKept
    <2>6. ASSUME NEW k \in 1..Len(resBuf')
          PROVE  resBuf'[k].line \in 1..n /\ ChunkOf(resBuf'[k].line) = <<resBuf'[k]>>
      <3>1. CASE k \in 1..Len(resBuf)
        BY <1>5, <2>4, <2>5, <3>1 DEF ChunksKept, n
      <3>2. CASE k = Len(resBuf) + 1
        BY <1>5, <2>2, <2>3, <2>4, <3>2 DEF chunk
      <3> QED
        BY <1>5, <2>4, <3>1, <3>2
    <2>7. ASSUME NEW j \in 1..Len(resBuf'), NEW k \in 1..Len(resBuf'), j < k
          PROVE  resBuf'[j].line < resBuf'[k].line
      <3>1. CASE k \in 1..Len(resBuf)
        <4>1. j \in 1..Len(resBuf)
          BY <1>5, <2>4, <2>7, <3>1
        <4>2. resBuf[j].line < resBuf[k].line
          BY <2>7, <3>1, <4>1 DEF ChunksKept
        <4> QED
          BY <2>4, <3>1, <4>1, <4>2
      <3>2. CASE k = Len(resBuf) + 1
        <4>1. j \in 1..Len(resBuf) /\ resBuf'[j].line \in 1..read
          BY <1>5, <2>4, <2>5, <2>7, <3>2
        <4> QED
          BY <1>5, <2>2, <2>4, <3>2, <4>1 DEF n
      <3> QED
        BY <1>5, <2>4, <3>1, <3>2
    <2>8. ASSUME NEW i \in 1..n, ChunkOf(i) # << >>
          PROVE  \E k \in 1..Len(resBuf') : resBuf'[k].line = i
      <3>1. CASE i \in 1..read
        <4>1. PICK k \in 1..Len(resBuf) : resBuf[k].line = i
          BY <2>8, <3>1 DEF ChunksKept
        <4> QED
          BY <1>5, <2>4, <4>1
      <3>2. CASE i = n
        <4>1. Len(resBuf) + 1 \in 1..Len(resBuf')
          BY <1>5, <2>4
        <4> QED
          BY <2>2, <2>4, <3>2, <4>1
      <3> QED
        BY <1>5, <3>1, <3>2 DEF n
    <2> QED
      BY <1>1, <1>2, <1>3, <1>4, <2>4, <2>6, <2>7, <2>8 DEF ChunksKept
  <1> QED
    BY <1>6, <1>7, <1>8

\* No other action touches what is kept, until [DONE] is written.
LEMMA ChunksKeptNext == Inv /\ ChunksKept /\ [Next]_vars => ChunksKept'
  <1> SUFFICES ASSUME Inv, ChunksKept, [Next]_vars
               PROVE  ChunksKept'
    OBVIOUS
  <1>a. ASSUME resBuf' = << >>, client' = << >>, read' = 0, ~Streamed'
        PROVE  ChunksKept'
    BY <1>a DEF ChunksKept
  <1>b. ASSUME UNCHANGED <<choiceVars, resBuf, read>>,
               \A i \in 1..read : lines'[i] = lines[i],
               client' = IF Streamed' THEN Append(resBuf, DoneMark) ELSE resBuf
        PROVE  ChunksKept'
    <2>1. T' = T /\ req' = req /\ resBuf' = resBuf /\ read' = read
      BY <1>b, WireStays DEF choiceVars
    <2>2. \A i \in 1..read : ChunkOf(i)' = ChunkOf(i)
      BY <1>b, <2>1 DEF ChunkOf
    <2> QED
      BY <1>b, <2>1, <2>2 DEF ChunksKept
  <1>c. pc # "done" => client = resBuf
    BY DEF ChunksKept, Streamed
  <1>d. pc \in {"new", "hooks", "send", "sent", "backoff"} =>
            resBuf = << >> /\ client = << >> /\ read = 0
    BY DEF Inv, Untouched
  <1>1. CASE UNCHANGED vars
    <2>1. Streamed' = Streamed
      BY <1>1 DEF vars, choiceVars, endVars, Streamed
    <2> QED
      BY <1>1, <2>1, <1>b DEF vars, readVars, ChunksKept
  <1>2. CASE ChooseProvider
    BY <1>2, <1>a, <1>d DEF ChooseProvider, Goto, readVars, Streamed
  <1>3. CASE RunHooks
    BY <1>3, <1>a, <1>d DEF RunHooks, WriteError, Goto, readVars, Streamed
  <1>4. CASE Send
    BY <1>4, <1>a, <1>d DEF Send, WriteError, Goto, readVars, Streamed
  <1>5. CASE GiveUp
    BY <1>5, <1>a, <1>d DEF GiveUp, WriteError, Goto, readVars, Streamed
  <1>6. CASE BackOff
    BY <1>6, <1>a, <1>d DEF BackOff, Goto, readVars, Streamed
  <1>7. CASE Retry
    BY <1>7, <1>a, <1>d DEF Retry, Goto, readVars, Streamed
  <1>8. CASE RelayFailure
    BY <1>8, <1>a, <1>d, StatusAssumption DEF RelayFailure, Goto, readVars, Streamed
  <1>9. CASE RelayBody
    <2>1. pc = "sent" /\ ~req.stream /\ req' = req
      BY <1>9 DEF RelayBody, WriteError, Goto, choiceVars
    <2> QED
      BY <1>9, <2>1, <1>a, <1>d DEF RelayBody, Streamed
  <1>10. CASE StartStream
    BY <1>10, <1>a, <1>d DEF StartStream, Goto, readVars, Streamed
  <1>11. CASE Write
    <2>1. PICK l \in NextLines \cup {Line("other"), Line("garbage")} : lines' = Append(lines, l)
      BY <1>11 DEF Write
    <2>2. \A i \in 1..read : lines'[i] = lines[i]
      <3>1. lines \in Seq(Lines) /\ read \in 0..Len(lines) /\ Len(lines) \in Nat
        BY DEF Inv, TypeOK, AnswerOK
      <3> QED
        BY <2>1, <3>1
    <2> QED
      BY <1>11, <2>2, <1>b, <1>c DEF Write, readVars, Streamed
  <1>12. CASE ReadLine
    BY <1>12, ChunksKeptRead
  <1>13. CASE EndOfBody
    BY <1>13, <1>b, <1>c DEF EndOfBody, Goto, readVars, Streamed
  <1>14. CASE CloseStream
    <2>1. answer' = 200 /\ req'.stream /\ pc = "close" /\ pc' = "done"
      BY <1>14 DEF CloseStream, Goto, choiceVars, Inv, RowIsMade
    <2> QED
      BY <1>14, <2>1, <1>b, <1>c DEF CloseStream, Streamed
  <1> QED
    BY <1>1, <1>2, <1>3, <1>4, <1>5, <1>6, <1>7, <1>8, <1>9, <1>10, <1>11, <1>12, <1>13,
       <1>14 DEF Next

----------------------------------------------------------------------------
(* The counts of a stream                                                  *)

\* A count that is not positive changes nothing, a positive one is the last.
LEMMA CountGoesOn ==
    ASSUME NEW c \in Nat, NEW count, NEW n \in Nat, NEW m,
           IsLastPositive(c, count, n), count[n + 1] = m, m \in Nat
    PROVE  IsLastPositive(Count(c, m), count, n + 1)
  <1>1. CASE m > 0
    <2>1. Count(c, m) = m /\ n + 1 \in 1..(n + 1)
      BY <1>1 DEF Count
    <2>2. \A i \in (n + 1 + 1)..(n + 1) : count[i] = 0
      OBVIOUS
    <2> QED
      BY <1>1, <2>1, <2>2 DEF IsLastPositive
  <1>2. CASE m = 0
    <2>1. Count(c, m) = c
      BY <1>2 DEF Count
    <2>2. CASE c = 0 /\ \A i \in 1..n : count[i] = 0
      <3>1. \A i \in 1..(n + 1) : count[i] = 0
        BY <1>2, <2>2
      <3> QED
        BY <2>1, <2>2, <3>1 DEF IsLastPositive
    <2>3. CASE \E k \in 1..n : c > 0 /\ count[k] = c /\ \A i \in (k + 1)..n : count[i] = 0
      <3>1. PICK k \in 1..n : c > 0 /\ count[k] = c /\ \A i \in (k + 1)..n : count[i] = 0
        BY <2>3
      <3>2. k \in 1..(n + 1) /\ \A i \in (k + 1)..(n + 1) : count[i] = 0
        BY <1>2, <3>1
      <3> QED
        BY <2>1, <3>1, <3>2 DEF IsLastPositive
    <2> QED
      BY <2>2, <2>3 DEF IsLastPositive
  <1> QED
    BY <1>1, <1>2

\* What follows without a count does not matter, nor what is not among the first.
LEMMA CountStays ==
    ASSUME NEW c \in Nat, NEW count, NEW other, NEW n \in Nat, NEW m \in Nat, n <= m,
           IsLastPositive(c, count, n), \A i \in 1..n : other[i] = count[i],
           \A i \in (n + 1)..m : other[i] = 0
    PROVE  IsLastPositive(c, other, m)
  <1>1. CASE c = 0 /\ \A i \in 1..n : count[i] = 0
    <2>1. \A i \in 1..m : other[i] = 0
      BY <1>1
    <2> QED
      BY <1>1, <2>1 DEF IsLastPositive
  <1>2. CASE \E k \in 1..n : c > 0 /\ count[k] = c /\ \A i \in (k + 1)..n : count[i] = 0
    <2>1. PICK k \in 1..n : c > 0 /\ count[k] = c /\ \A i \in (k + 1)..n : count[i] = 0
      BY <1>2
    <2>2. k \in 1..m /\ other[k] = c /\ \A i \in (k + 1)..m : other[i] = 0
      BY <2>1
    <2> QED
      BY <2>1, <2>2 DEF IsLastPositive
  <1> QED
    BY <1>1, <1>2 DEF IsLastPositive

\* The counts are the last ones of the lines that were read.
CountsKept ==
    T # "openai" => IsLastPositive(inputTok, Ins, read) /\ IsLastPositive(outputTok, Outs, read)

\* What a line adds is its place in Ins and Outs.
LEMMA CountsOfLine ==
    ASSUME TypeOK, NEW i \in 1..Len(lines), Shape(lines[i]), T # "openai"
    PROVE  LET s == TranslateStreamLine(T, lines[i], i) IN
           /\ Ins[i] = s.in /\ Outs[i] = s.out /\ s.in \in Nat /\ s.out \in Nat
  <1>1. lines[i] \in Lines /\ i \in Nat
    BY DEF TypeOK, AnswerOK
  <1>2. OneLine(TranslateStreamLine(T, lines[i], i), i)
    BY <1>1, TranslatedLine
  <1>3. CASE T = "anthropic"
    <2>1. TranslateStreamLine(T, lines[i], i) = AnthropicLine(lines[i], i)
      BY <1>3 DEF TranslateStreamLine
    <2>2. /\ AnthropicLine(lines[i], i).in
                = IF lines[i].kind = "start" THEN lines[i].usage.in ELSE 0
          /\ AnthropicLine(lines[i], i).out
                = IF lines[i].kind = "delta" THEN lines[i].usage.out ELSE 0
      BY DEF AnthropicLine
    <2> QED
      BY <1>2, <1>3, <2>1, <2>2 DEF Ins, Outs, OneLine
  <1>4. CASE T = "gemini"
    <2>1. TranslateStreamLine(T, lines[i], i) = GeminiLine(lines[i], i)
      BY <1>4 DEF TranslateStreamLine
    <2>2. /\ GeminiLine(lines[i], i).in
                = IF lines[i].kind \in {"part", "usage"} THEN lines[i].usage.in ELSE 0
          /\ GeminiLine(lines[i], i).out
                = IF lines[i].kind \in {"part", "usage"} THEN lines[i].usage.out ELSE 0
      BY DEF GeminiLine
    <2>3. Ins[i] = lines[i].usage.in /\ Outs[i] = lines[i].usage.out
      BY <1>4 DEF Ins, Outs
    <2> QED
      BY <1>2, <1>4, <2>1, <2>2, <2>3 DEF Shape, OneLine
  <1> QED
    BY <1>3, <1>4, ThreeTranslators

\* Reading a line goes on counting, and nothing else counts.
LEMMA CountsKeptNext == Inv /\ LinesFollow /\ CountsKept /\ [Next]_vars => CountsKept'
  <1> SUFFICES ASSUME Inv, LinesFollow, CountsKept, [Next]_vars
               PROVE  CountsKept'
    OBVIOUS
  <1>a. ASSUME inputTok' = 0, outputTok' = 0, read' = 0
        PROVE  CountsKept'
    BY <1>a DEF CountsKept, IsLastPositive
  <1>b. ASSUME UNCHANGED <<choiceVars, lines, read, inputTok, outputTok>>
        PROVE  CountsKept'
    <2>1. T' = T /\ Ins' = Ins /\ Outs' = Outs
      BY <1>b, WireStays DEF choiceVars, Ins, Outs
    <2> QED
      BY <1>b, <2>1 DEF CountsKept
  <1>d. pc \in {"new", "hooks", "send", "sent", "backoff"} =>
            inputTok = 0 /\ outputTok = 0 /\ read = 0
    BY DEF Inv, Untouched
  <1>1. CASE UNCHANGED vars
    BY <1>1, <1>b DEF vars, readVars
  <1>2. CASE ChooseProvider
    BY <1>2, <1>a, <1>d DEF ChooseProvider, Goto, readVars
  <1>3. CASE RunHooks
    BY <1>3, <1>a, <1>d DEF RunHooks, WriteError, Goto, readVars
  <1>4. CASE Send
    BY <1>4, <1>b DEF Send, readVars
  <1>5. CASE GiveUp
    BY <1>5, <1>b DEF GiveUp, readVars
  <1>6. CASE BackOff
    BY <1>6, <1>b DEF BackOff, readVars
  <1>7. CASE Retry
    BY <1>7, <1>b DEF Retry, readVars
  <1>8. CASE RelayFailure
    BY <1>8, <1>b DEF RelayFailure, readVars
  <1>9. CASE RelayBody
    BY <1>9, <1>a, <1>d DEF RelayBody, WriteError, Goto
  <1>10. CASE StartStream
    BY <1>10, <1>b DEF StartStream, readVars
  <1>11. CASE Write
    <2>1. PICK l \in NextLines \cup {Line("other"), Line("garbage")} : lines' = Append(lines, l)
      BY <1>11 DEF Write
    <2>2. /\ lines \in Seq(Lines) /\ read \in 0..Len(lines) /\ Len(lines) \in Nat
          /\ inputTok \in Nat /\ outputTok \in Nat
      BY DEF Inv, TypeOK, AnswerOK
    <2>3. T' = T /\ read' = read /\ inputTok' = inputTok /\ outputTok' = outputTok
      BY <1>11, WireStays DEF Write, readVars
    <2>4. \A i \in 1..read : i \in 1..Len(lines) /\ i \in 1..Len(lines') /\ lines'[i] = lines[i]
      BY <2>1, <2>2
    <2>5. \A i \in 1..read : Ins'[i] = Ins[i] /\ Outs'[i] = Outs[i]
      BY <2>3, <2>4 DEF Ins, Outs
    <2>6. read \in Nat /\ \A i \in (read + 1)..read : Ins'[i] = 0 /\ Outs'[i] = 0
      BY <2>2
    <2>7. T # "openai" => IsLastPositive(inputTok, Ins', read)
      <3>1. T # "openai" => IsLastPositive(inputTok, Ins, read)
        BY DEF CountsKept
      <3> QED
        BY <2>2, <2>5, <2>6, <3>1, CountStays
    <2>8. T # "openai" => IsLastPositive(outputTok, Outs', read)
      <3>1. T # "openai" => IsLastPositive(outputTok, Outs, read)
        BY DEF CountsKept
      <3> QED
        BY <2>2, <2>5, <2>6, <3>1, CountStays
    <2> QED
      BY <2>3, <2>7, <2>8 DEF CountsKept
  <1>12. CASE ReadLine
    <2> DEFINE n == read + 1
               s == TranslateStreamLine(T, lines[n], n)
    <2>1. /\ lines \in Seq(Lines) /\ read \in Nat /\ n \in 1..Len(lines)
          /\ inputTok \in Nat /\ outputTok \in Nat
      BY <1>12 DEF ReadLine, Inv, TypeOK, AnswerOK
    <2>2. /\ T' = T /\ lines' = lines /\ read' = n
          /\ inputTok' = Count(inputTok, s.in) /\ outputTok' = Count(outputTok, s.out)
      BY <1>12, WireStays DEF ReadLine
    <2>3. Ins' = Ins /\ Outs' = Outs
      BY <2>2 DEF Ins, Outs
    <2>4. Shape(lines[n])
      BY <1>12, <2>1 DEF ReadLine, Inv, RowIsMade, LinesFollow
    <2>5. T # "openai" =>
            /\ Ins[n] = s.in /\ Outs[n] = s.out /\ s.in \in Nat /\ s.out \in Nat
      BY <2>1, <2>4, CountsOfLine DEF Inv
    <2> HIDE DEF s
    <2>6. T # "openai" => IsLastPositive(Count(inputTok, s.in), Ins, read + 1)
      BY <2>1, <2>5, CountGoesOn DEF CountsKept
    <2>7. T # "openai" => IsLastPositive(Count(outputTok, s.out), Outs, read + 1)
      BY <2>1, <2>5, CountGoesOn DEF CountsKept
    <2> QED
      BY <2>2, <2>3, <2>6, <2>7 DEF CountsKept
  <1>13. CASE EndOfBody
    BY <1>13, <1>b DEF EndOfBody, readVars
  <1>14. CASE CloseStream
    BY <1>14, <1>b DEF CloseStream
  <1> QED
    BY <1>1, <1>2, <1>3, <1>4, <1>5, <1>6, <1>7, <1>8, <1>9, <1>10, <1>11, <1>12, <1>13,
       <1>14 DEF Next

\* The three together, of every stream.
StreamInv == Inv /\ LinesFollow /\ ChunksKept /\ CountsKept

THEOREM StreamInvariant == Spec => []StreamInv
  <1>1. Init => StreamInv
    <2> SUFFICES ASSUME Init
                 PROVE  StreamInv
      OBVIOUS
    <2>0. /\ lines = << >> /\ resBuf = << >> /\ client = << >> /\ pc = "new"
          /\ read = 0 /\ inputTok = 0 /\ outputTok = 0
      BY DEF Init
    <2> SUFFICES /\ LinesFollow
                 /\ ChunksKept
                 /\ CountsKept
      BY InvInit DEF StreamInv
    <2>1. LinesFollow
      BY <2>0 DEF LinesFollow
    <2>2. ChunksKept
      BY <2>0 DEF ChunksKept, Streamed
    <2>3. CountsKept
      BY <2>0 DEF CountsKept, IsLastPositive
    <2> QED
      BY <2>1, <2>2, <2>3
  <1>2. StreamInv /\ [Next]_vars => StreamInv'
    BY TypeNext, AttemptsNext, UntouchedNext, RowIsMadeNext, BacksOffNext, TellsKeyNext,
       LinesFollowNext, ChunksKeptNext, CountsKeptNext DEF StreamInv, Inv
  <1> QED
    BY <1>1, <1>2, PTL DEF Spec

\* Once the client has seen a choice end, the line it ended with has been read.
LEMMA SeenIsRead ==
    ASSUME StreamInv, NEW c \in Nat, FinishSeen(c)
    PROVE  \E i \in 1..read : Ends(lines[i]) /\ (T = "openai" => lines[i].choice = c) /\ req.stream
  <1>1. PICK k \in 1..Len(client) : client[k].choice = c /\ client[k].finish \notin {"", "[DONE]"}
    BY DEF FinishSeen
  <1>2. /\ resBuf \in Seq(Chunks) /\ Len(resBuf) \in Nat
        /\ client = resBuf \/ client = Append(resBuf, DoneMark)
    BY DEF StreamInv, ChunksKept
  <1>3. DoneMark.finish = "[DONE]"
    BY DEF DoneMark, Chunk
  <1>4. k \in 1..Len(resBuf) /\ client[k] = resBuf[k]
    <2>1. CASE client = resBuf
      BY <2>1
    <2>2. CASE client = Append(resBuf, DoneMark)
      <3>1. ASSUME k = Len(resBuf) + 1
            PROVE  FALSE
        <4>1. client[k] = DoneMark
          BY <1>2, <2>2, <3>1
        <4> QED
          BY <1>1, <1>3, <4>1
      <3> QED
        BY <1>2, <2>2, <3>1
    <2> QED
      BY <1>2, <2>1, <2>2
  <1> DEFINE i == resBuf[k].line
  <1>5. i \in 1..read /\ ChunkOf(i) = <<resBuf[k]>>
    BY <1>4 DEF StreamInv, ChunksKept
  <1>6. read \in 0..Len(lines) /\ lines \in Seq(Lines) /\ Len(lines) \in Nat
    BY DEF StreamInv, Inv, TypeOK, AnswerOK
  <1>7. lines[i] \in Lines /\ i \in Nat /\ read > 0
    BY <1>5, <1>6
  <1> HIDE DEF i
  <1>8. Tells(ChunkOf(i), lines[i], i)
    <2>1. ChunkOf(i) # << >>
      BY <1>5
    <2> QED
      BY <1>7, <2>1, ChunkTells DEF ChunkOf
  <1>9. Ends(lines[i]) /\ (T = "openai" => lines[i].choice = c)
    <2>1. PICK f \in PassedOn, d \in Nat :
              /\ ChunkOf(i) = <<Chunk(i, f, d)>>
              /\ f # "" => Ends(lines[i])
              /\ T = "openai" => d = lines[i].choice
      BY <1>8 DEF Tells
    <2>2. resBuf[k] = Chunk(i, f, d)
      <3>1. ChunkOf(i) = <<Chunk(i, f, d)>>
        BY <2>1, Zenon
      <3>2. ChunkOf(i)[1] = resBuf[k]
        BY <1>5
      <3>3. ChunkOf(i)[1] = Chunk(i, f, d)
        BY <3>1
      <3> QED
        BY <3>2, <3>3
    <2>3. resBuf[k].finish = f /\ resBuf[k].choice = d
      BY <2>2 DEF Chunk
    <2> QED
      BY <1>1, <1>4, <2>1, <2>3
  <1>10. req.stream
    BY <1>7 DEF StreamInv, ChunksKept
  <1> QED
    BY <1>5, <1>9, <1>10

\* ClientSeesTheAnswer: the client gets every chunk, once, in order; a choice it sees the
\* end of is whole; [DONE] comes last and once; and the log keeps what the client got.
THEOREM ClientsSeeTheAnswer == Spec => []ClientSeesTheAnswer
  <1>1. StreamInv => ClientSeesTheAnswer
    <2> SUFFICES ASSUME StreamInv
                 PROVE  ClientSeesTheAnswer
      OBVIOUS
    <2>1. read \in 0..Len(lines) /\ lines \in Seq(Lines) /\ Len(lines) \in Nat
      BY DEF StreamInv, Inv, TypeOK, AnswerOK
    <2>2. ASSUME NEW i \in 1..Len(rows)
          PROVE  rows[i].response = resBuf
      <3>1. rows # << >>
        BY <2>2
      <3>2. Len(rows) = 1 /\ rows[1].response = resBuf
        BY <3>1 DEF StreamInv, Inv, RowIsMade
      <3> QED
        BY <2>2, <3>2
    <2>3. {resBuf[k].line : k \in 1..Len(resBuf)} = {i \in 1..read : ChunkOf(i) # << >>}
      <3>1. ASSUME NEW k \in 1..Len(resBuf)
            PROVE  resBuf[k].line \in 1..read /\ ChunkOf(resBuf[k].line) # << >>
        <4>1. resBuf[k].line \in 1..read /\ ChunkOf(resBuf[k].line) = <<resBuf[k]>>
          BY DEF StreamInv, ChunksKept
        <4> QED
          BY <4>1
      <3>2. ASSUME NEW i \in 1..read, ChunkOf(i) # << >>
            PROVE  \E k \in 1..Len(resBuf) : resBuf[k].line = i
        BY <3>2 DEF StreamInv, ChunksKept
      <3> QED
        BY <3>1, <3>2
    <2>4. ASSUME NEW i \in (read + 1)..Len(lines), NEW c \in 0..(req.n + 1),
                 ChunkOf(i) # << >>, ChunkOf(i)[1].choice = c, FinishSeen(c)
          PROVE  FALSE
      <3>1. i \in Nat /\ i \in 1..Len(lines) /\ lines[i] \in Lines
        BY <2>1
      <3>2. c \in Nat
        BY <2>4 DEF StreamInv, Inv, TypeOK, RequestOK, ChatRequests
      <3>3. PICK j \in 1..read :
                Ends(lines[j]) /\ (T = "openai" => lines[j].choice = c) /\ req.stream
        BY <2>4, <3>2, SeenIsRead
      <3>4. j < i /\ j \in 1..Len(lines)
        BY <2>1, <3>3
      <3>5. After(lines[j], lines[i])
        BY <3>1, <3>3, <3>4 DEF StreamInv, LinesFollow
      <3>6. Tells(ChunkOf(i), lines[i], i)
        BY <2>4, <3>1, ChunkTells DEF ChunkOf
      <3>7. PICK f \in PassedOn, d \in Nat :
                /\ ChunkOf(i) = <<Chunk(i, f, d)>>
                /\ T = "openai" => lines[i].kind = "part" /\ d = lines[i].choice
                /\ T = "anthropic" => lines[i].kind \in {"start", "text", "delta"}
                /\ T = "gemini" => lines[i].kind = "part"
        BY <3>6 DEF Tells
      <3>8. ChunkOf(i)[1] = Chunk(i, f, d)
        BY <3>7
      <3>9. d = c
        BY <2>4, <3>8 DEF Chunk
      <3> QED
        BY <3>3, <3>5, <3>7, <3>9, ThreeTranslators DEF After
    <2>5. /\ client = IF Streamed THEN Append(resBuf, DoneMark) ELSE resBuf
          /\ \A k \in 1..Len(resBuf) : ChunkOf(resBuf[k].line) = <<resBuf[k]>>
          /\ \A j, k \in 1..Len(resBuf) : j < k => resBuf[j].line < resBuf[k].line
      BY DEF StreamInv, ChunksKept
    <2> QED
      BY <2>2, <2>3, <2>4, <2>5 DEF ClientSeesTheAnswer
  <1> QED
    BY <1>1, StreamInvariant, PTL

\* UsageIsLogged: the row of a stream of Anthropic or Gemini has the counts its provider
\* reported last among the lines read, and among all once the client has seen the end.
THEOREM UsageGetsLogged == Spec => []UsageIsLogged
  <1>1. StreamInv => UsageIsLogged
    <2> SUFFICES ASSUME StreamInv, Streamed, T # "openai"
                 PROVE  LET n == IF FinishSeen(0) THEN Len(lines) ELSE read
                        IN  /\ IsLastPositive(rows[1].in, Ins, n)
                            /\ IsLastPositive(rows[1].out, Outs, n)
      BY DEF UsageIsLogged
    <2>1. /\ read \in Nat /\ read <= Len(lines) /\ lines \in Seq(Lines) /\ Len(lines) \in Nat
          /\ inputTok \in Nat /\ outputTok \in Nat
      BY DEF StreamInv, Inv, TypeOK, AnswerOK
    <2>2. rows[1].in = inputTok /\ rows[1].out = outputTok
      BY DEF StreamInv, Inv, RowIsMade
    <2>3. IsLastPositive(inputTok, Ins, read) /\ IsLastPositive(outputTok, Outs, read)
      BY DEF StreamInv, CountsKept
    <2>4. CASE FinishSeen(0)
      <3>1. PICK j \in 1..read : Ends(lines[j]) /\ req.stream
        BY <2>4, SeenIsRead
      <3>2. ASSUME NEW i \in (read + 1)..Len(lines)
            PROVE  Ins[i] = 0 /\ Outs[i] = 0
        <4>1. i \in 1..Len(lines) /\ j \in 1..Len(lines) /\ j < i
          BY <2>1, <3>1
        <4>2. After(lines[j], lines[i]) /\ Shape(lines[i])
          BY <3>1, <4>1 DEF StreamInv, LinesFollow
        <4>3. CASE T = "anthropic"
          BY <4>1, <4>2, <4>3 DEF After, Ins, Outs
        <4>4. CASE T = "gemini"
          <5>1. lines[i].usage.in = 0 /\ lines[i].usage.out = 0
            BY <4>2, <4>4 DEF After, Shape
          <5> QED
            BY <4>1, <4>4, <5>1 DEF Ins, Outs
        <4> QED
          BY <4>3, <4>4, ThreeTranslators
      <3>3. /\ IsLastPositive(inputTok, Ins, Len(lines))
            /\ IsLastPositive(outputTok, Outs, Len(lines))
        BY <2>1, <2>3, <3>2, CountStays
      <3> QED
        BY <2>2, <2>4, <3>3
    <2>5. CASE ~FinishSeen(0)
      BY <2>2, <2>3, <2>5
    <2> QED
      BY <2>4, <2>5
  <1> QED
    BY <1>1, StreamInvariant, PTL

----------------------------------------------------------------------------
(* The conversation: the loop over the messages, by induction over them     *)

\* The loop is what its recursive function says: there is such a function.
LEMMA AfterIsLoop ==
    ASSUME NEW t, NEW messages, Len(messages) \in Nat
    PROVE  /\ ConversationAfter(t, messages)[0] = [system |-> 0, messages |-> << >>]
           /\ \A i \in 1..Len(messages) :
                 ConversationAfter(t, messages)[i]
                    = Add(t, ConversationAfter(t, messages)[i - 1], messages[i])
  <1> DEFINE empty == [system |-> 0, messages |-> << >>]
             Loop(g, n) == g = [i \in 0..n |-> IF i = 0 THEN empty
                                               ELSE Add(t, g[i - 1], messages[i])]
             S == {n \in 0..Len(messages) : \E g : Loop(g, n)}
  <1>1. 0 \in S
    <2> DEFINE g == [i \in 0..0 |-> empty]
    <2>1. Loop(g, 0)
      OBVIOUS
    <2> HIDE DEF g, Loop
    <2>2. \E f : Loop(f, 0)
      BY <2>1
    <2> QED
      BY <2>2
  <1>2. ASSUME NEW n \in 0..(Len(messages) - 1), n \in S
        PROVE  n + 1 \in S
    <2>1. PICK g : Loop(g, n)
      BY <1>2
    <2> DEFINE h == [i \in 0..(n + 1) |-> IF i <= n THEN g[i]
                                          ELSE Add(t, g[n], messages[n + 1])]
    <2>2. ASSUME NEW i \in 0..(n + 1)
          PROVE  h[i] = IF i = 0 THEN empty ELSE Add(t, h[i - 1], messages[i])
      <3> HIDE DEF empty
      <3>1. CASE i = 0
        BY <2>1, <3>1
      <3>2. CASE i \in 1..n
        BY <2>1, <3>2
      <3>3. CASE i = n + 1
        BY <3>3
      <3> QED
        BY <3>1, <3>2, <3>3
    <2> HIDE DEF h, empty
    <2>3. Loop(h, n + 1)
      BY <2>2 DEF h
    <2> QED
      BY <2>3
  <1> HIDE DEF S
  <1>3. Len(messages) \in S
    <2>1. \A n \in 0..(Len(messages) - 1) : n \in S => n + 1 \in S
      BY <1>2
    <2>2. 0..Len(messages) \subseteq S
      BY <1>1, <2>1, InductionUpTo
    <2> QED
      BY <2>2
  <1> USE DEF S
  <1>4. \E g : Loop(g, Len(messages))
    BY <1>3
  <1>5. Loop(ConversationAfter(t, messages), Len(messages))
    <2>1. ConversationAfter(t, messages) = CHOOSE g : Loop(g, Len(messages))
      BY DEF ConversationAfter
    <2> HIDE DEF Loop
    <2> QED
      BY <1>4, <2>1
  <1> QED
    BY <1>5

\* The messages the prompt is chosen from, and those that stay messages.
Systems(messages) == {i \in 1..Len(messages) : messages[i].role = "system"}
Others(messages) == {i \in 1..Len(messages) : messages[i].role # "system"}

\* What the loop has after the first n messages.
Kept(t, messages, n) ==
    LET c == ConversationAfter(t, messages)[n]
        system == Upto(Systems(messages), n)
        others == Upto(Others(messages), n)
    IN  /\ c.system = IF system = {} THEN 0 ELSE messages[Max(system)].text
        /\ c.messages \in Seq({Renamed(t, messages[i]) : i \in 1..Len(messages)})
        /\ Len(c.messages) = Cardinality(others)
        /\ \A i \in others : c.messages[Cardinality(Upto(Others(messages), i))]
                                 = Renamed(t, messages[i])

\* A message more keeps what there was, and adds itself in its place.
LEMMA LoopKeeps ==
    ASSUME NEW t, NEW messages, Len(messages) \in Nat
    PROVE  Kept(t, messages, Len(messages))
  <1> DEFINE System == Systems(messages)
             Other == Others(messages)
             Sent == {Renamed(t, messages[i]) : i \in 1..Len(messages)}
             C(n) == ConversationAfter(t, messages)[n]
             S == {n \in 0..Len(messages) : Kept(t, messages, n)}
  <1>1. /\ \A i \in System : i \in Nat /\ i > 0
        /\ \A i \in Other : i \in Nat /\ i > 0
    BY DEF Systems, Others
  <1>2. 0 \in S
    <2>1. Upto(System, 0) = {} /\ Upto(Other, 0) = {}
      BY <1>1 DEF Upto
    <2>2. C(0).system = 0 /\ C(0).messages = << >>
      BY AfterIsLoop
    <2>3. C(0).messages \in Seq(Sent) /\ Len(C(0).messages) = 0
      BY <2>2
    <2>4. Cardinality(Upto(Other, 0)) = 0
      BY <2>1, FS_EmptySet
    <2> HIDE DEF Sent
    <2>5. Kept(t, messages, 0)
      BY <2>1, <2>2, <2>3, <2>4 DEF Kept, Sent
    <2> QED
      BY <2>5
  <1>3. ASSUME NEW n \in 0..(Len(messages) - 1), n \in S
        PROVE  n + 1 \in S
    <2> DEFINE m == messages[n + 1]
    <2>1. Kept(t, messages, n) /\ n + 1 \in 1..Len(messages)
      BY <1>3
    <2>2. C(n + 1) = Add(t, C(n), m)
      BY <2>1, AfterIsLoop
    <2>3. ASSUME m.role = "system"
          PROVE  Kept(t, messages, n + 1)
      <3>1. n + 1 \in System /\ n + 1 \notin Other
        BY <2>1, <2>3 DEF Systems, Others
      <3>2. Upto(Other, n + 1) = Upto(Other, n)
        BY <1>1, <3>1, CountOfOneMore
      <3>3. n + 1 \in Upto(System, n + 1) /\ \A i \in Upto(System, n + 1) : i \in Nat /\ i <= n + 1
        BY <1>1, <3>1 DEF Upto
      <3>4. Max(Upto(System, n + 1)) = n + 1 /\ Upto(System, n + 1) # {}
        BY <3>3 DEF Max
      <3>5. C(n + 1).system = m.text /\ C(n + 1).messages = C(n).messages
        BY <2>2, <2>3 DEF Add
      <3> QED
        BY <2>1, <3>2, <3>4, <3>5 DEF Kept
    <2>4. ASSUME m.role # "system"
          PROVE  Kept(t, messages, n + 1)
      <3>1. n + 1 \in Other /\ n + 1 \notin System
        BY <2>1, <2>4 DEF Systems, Others
      <3>2. Upto(System, n + 1) = Upto(System, n)
        BY <1>1, <3>1, CountOfOneMore
      <3>3. /\ Cardinality(Upto(Other, n)) \in Nat
            /\ Cardinality(Upto(Other, n + 1)) = Cardinality(Upto(Other, n)) + 1
        BY <1>1, <3>1, CountOfOneMore
      <3>4. /\ C(n + 1).system = C(n).system
            /\ C(n + 1).messages = Append(C(n).messages, Renamed(t, m))
        BY <2>2, <2>4 DEF Add
      <3>5. Renamed(t, m) \in Sent
        BY <2>1
      <3> HIDE DEF Sent
      <3>6. /\ C(n).messages \in Seq(Sent)
            /\ Len(C(n).messages) = Cardinality(Upto(Other, n))
            /\ \A i \in Upto(Other, n) : C(n).messages[Cardinality(Upto(Other, i))]
                                            = Renamed(t, messages[i])
            /\ C(n).system = IF Upto(System, n) = {} THEN 0
                             ELSE messages[Max(Upto(System, n))].text
        BY <2>1 DEF Kept, Sent
      <3>7. /\ C(n + 1).messages \in Seq(Sent)
            /\ Len(C(n + 1).messages) = Cardinality(Upto(Other, n + 1))
            /\ C(n + 1).messages[Cardinality(Upto(Other, n + 1))] = Renamed(t, m)
            /\ \A k \in 1..Cardinality(Upto(Other, n)) :
                  C(n + 1).messages[k] = C(n).messages[k]
        <4>1. ASSUME NEW X, NEW q \in Seq(X), NEW x \in X
              PROVE  /\ Append(q, x) \in Seq(X) /\ Len(Append(q, x)) = Len(q) + 1
                     /\ Append(q, x)[Len(q) + 1] = x
                     /\ \A k \in 1..Len(q) : Append(q, x)[k] = q[k]
          OBVIOUS
        <4> DEFINE q == C(n).messages
                   x == Renamed(t, m)
                   r == C(n + 1).messages
        <4>2. q \in Seq(Sent) /\ x \in Sent /\ r = Append(q, x)
          BY <3>4, <3>5, <3>6
        <4>3. Len(q) = Cardinality(Upto(Other, n))
          BY <3>6
        <4> HIDE DEF q, x, r
        <4>4. /\ r \in Seq(Sent) /\ Len(r) = Len(q) + 1
              /\ r[Len(q) + 1] = x
              /\ \A k \in 1..Len(q) : r[k] = q[k]
          BY <4>1, <4>2
        <4>5. /\ r \in Seq(Sent)
              /\ Len(r) = Cardinality(Upto(Other, n + 1))
              /\ r[Cardinality(Upto(Other, n + 1))] = x
              /\ \A k \in 1..Cardinality(Upto(Other, n)) : r[k] = q[k]
          BY <4>3, <4>4, <3>3
        <4> QED
          BY <4>5 DEF q, x, r
      <3>8. ASSUME NEW i \in Upto(Other, n + 1)
            PROVE  C(n + 1).messages[Cardinality(Upto(Other, i))] = Renamed(t, messages[i])
        <4>1. CASE i = n + 1
          BY <4>1, <3>7
        <4>2. CASE i # n + 1
          <5>1. i \in Other /\ i <= n /\ i \in Upto(Other, n)
            BY <4>2, <1>1 DEF Upto
          <5>2. Cardinality(Upto(Other, i)) \in 1..Cardinality(Upto(Other, n))
            BY <5>1, <1>1, PlaceIsCounted
          <5> QED
            BY <5>1, <5>2, <3>6, <3>7
        <4> QED
          BY <4>1, <4>2
      <3>9. C(n + 1).system = IF Upto(System, n + 1) = {} THEN 0
                              ELSE messages[Max(Upto(System, n + 1))].text
        BY <3>2, <3>4, <3>6
      <3> QED
        BY <3>7, <3>8, <3>9 DEF Kept, Sent
    <2> QED
      BY <2>1, <2>3, <2>4
  <1> HIDE DEF S
  <1>4. \A n \in 0..(Len(messages) - 1) : n \in S => n + 1 \in S
    BY <1>3
  <1>5. 0..Len(messages) \subseteq S
    BY <1>2, <1>4, InductionUpTo
  <1> USE DEF S
  <1> QED
    BY <1>5

\* Every attempt sent the conversation of the request in hand.
LEMMA ConversationOfWire ==
    ASSUME Inv
    PROVE  /\ Len(req.messages) \in Nat
           /\ \A w \in {wires[i].conversation : i \in 1..Len(wires)} :
                 w = Conversation(T, req.messages)
  <1>1. req.messages \in Seq(Messages) /\ wires \in Seq({W})
    BY DEF Inv, TypeOK, RequestOK, ChatRequests, Attempts
  <1>2. W.conversation = Conversation(T, req.messages)
    BY DEF W, BuildRequest
  <1>3. \A i \in 1..Len(wires) : wires[i] = W
    BY <1>1
  <1> QED
    BY <1>1, <1>2, <1>3

\* Whatever the roles and their order, every attempt of every provider carries the
\* last system message as its prompt and the others in their order, each once
\* and under the name of its role there (BuildRequest of the translators).
THEOREM ConversationsAreKept == Spec => []ConversationIsKept
  <1>1. ASSUME Inv
        PROVE  ConversationIsKept
    <2> DEFINE asked == req.messages
               System == {i \in 1..Len(asked) : T # "openai" /\ asked[i].role = "system"}
               Stay == (1..Len(asked)) \ System
    <2>1. Len(asked) \in Nat
      BY <1>1, ConversationOfWire
    <2>2. SUFFICES ASSUME NEW w, w = Conversation(T, asked)
                   PROVE  /\ w.system = IF System = {} THEN 0 ELSE asked[Max(System)].text
                          /\ Len(w.messages) = Cardinality(Stay)
                          /\ \A i \in Stay : LET m == w.messages[Cardinality(Upto(Stay, i))] IN
                                m.text = asked[i].text /\ m.role = RoleFor(T, asked[i].role)
      BY <1>1, ConversationOfWire DEF ConversationIsKept, Upto, RoleFor
    <2>3. CASE T = "openai"
      <3>1. System = {} /\ Stay = 1..Len(asked)
        BY <2>3
      <3>2. Cardinality(1..Len(asked)) = Len(asked)
        BY <2>1, FS_Interval
      <3>3. w.system = 0 /\ w.messages = asked
        BY <2>2, <2>3 DEF Conversation
      <3>4. ASSUME NEW i \in 1..Len(asked)
            PROVE  Cardinality(Upto(1..Len(asked), i)) = i
        <4>1. Upto(1..Len(asked), i) = 1..i /\ i \in Nat
          BY <2>1 DEF Upto
        <4> QED
          BY <4>1, FS_Interval
      <3>5. \A i \in 1..Len(asked) : RoleFor(T, asked[i].role) = asked[i].role
        BY <2>3 DEF RoleFor
      <3>6. w.system = IF System = {} THEN 0 ELSE asked[Max(System)].text
        BY <3>1, <3>3
      <3>7. Len(w.messages) = Cardinality(Stay)
        BY <3>1, <3>2, <3>3
      <3>8. ASSUME NEW i \in Stay
            PROVE  /\ w.messages[Cardinality(Upto(Stay, i))] = asked[i]
                   /\ RoleFor(T, asked[i].role) = asked[i].role
        BY <3>1, <3>3, <3>4, <3>5
      <3> QED
        BY <3>6, <3>7, <3>8
    <2>4. CASE T # "openai"
      <3>1. System = Systems(asked) /\ Stay = Others(asked)
        BY <2>4 DEF Systems, Others
      <3>2. w = ConversationAfter(T, asked)[Len(asked)] /\ Kept(T, asked, Len(asked))
        <4>1. w = ConversationAfter(T, asked)[Len(asked)]
          BY <2>2, <2>4 DEF Conversation
        <4> HIDE DEF asked
        <4>2. Kept(T, asked, Len(asked))
          BY <2>1, LoopKeeps
        <4> QED
          BY <4>1, <4>2
      <3>3. Upto(System, Len(asked)) = System /\ Upto(Stay, Len(asked)) = Stay
        BY <2>1 DEF Upto
      <3>4. /\ w.system = IF System = {} THEN 0 ELSE asked[Max(System)].text
            /\ Len(w.messages) = Cardinality(Stay)
            /\ \A i \in Stay : w.messages[Cardinality(Upto(Stay, i))] = Renamed(T, asked[i])
        BY <3>1, <3>2, <3>3 DEF Kept
      <3>5. \A m : Renamed(T, m).text = m.text /\ Renamed(T, m).role = RoleFor(T, m.role)
        BY DEF Renamed
      <3> HIDE DEF System, Stay
      <3> QED
        BY <3>4, <3>5
    <2> QED
      BY <2>3, <2>4
  <1> QED
    BY <1>1, ExchangeInvariant, PTL

----------------------------------------------------------------------------
(* Which streams the log has the tokens of                                 *)

\* No line of OpenAI is counted.
OpenAIIsUncounted == T = "openai" => inputTok = 0 /\ outputTok = 0

\* The counts start at 0 and no step adds to those of OpenAI.
LEMMA OpenAIStaysUncounted == Spec => []OpenAIIsUncounted
  <1>1. Init => OpenAIIsUncounted
    BY DEF Init, OpenAIIsUncounted
  <1>2. ASSUME Inv, OpenAIIsUncounted, [Next]_vars
        PROVE  OpenAIIsUncounted'
    <2>1. CASE ChooseProvider
      BY <1>2, <2>1 DEF ChooseProvider, Goto, readVars, Inv, Untouched, OpenAIIsUncounted
    <2>2. CASE ReadLine
      <3> DEFINE s == TranslateStreamLine(T, lines[read + 1], read + 1)
      <3>1. T' = T /\ inputTok' = Count(inputTok, s.in) /\ outputTok' = Count(outputTok, s.out)
        BY <2>2, WireStays DEF ReadLine
      <3>2. T = "openai" => s.in = 0 /\ s.out = 0
        BY DEF TranslateStreamLine, OpenAILine
      <3> HIDE DEF s
      <3> QED
        BY <1>2, <3>1, <3>2 DEF Count, OpenAIIsUncounted
    <2>3. CASE UNCHANGED <<provider, inputTok, outputTok>>
      BY <1>2, <2>3 DEF OpenAIIsUncounted, T
    <2>4. ChooseProvider \/ ReadLine \/ UNCHANGED <<provider, inputTok, outputTok>>
      BY <1>2 DEF Next, RunHooks, Send, GiveUp, BackOff, Retry, RelayFailure, RelayBody,
         StartStream, Write, EndOfBody, CloseStream, vars, choiceVars, readVars
    <2> QED
      BY <2>1, <2>2, <2>3, <2>4
  <1> QED
    BY <1>1, <1>2, ExchangeInvariant, PTL DEF Spec

\* ReportedStreamIsCosted of the streams it holds of, and its opposite of the others.
CostedUnlessOpenAI ==
    /\ T # "openai" => ReportedStreamIsCosted
    /\ T = "openai" /\ Streamed => rows[1].in = 0 /\ rows[1].out = 0

\* README.md:5 ("Every request is logged with cost") fails of the streams of OpenAI, of all
\* of them, and of those of no other translator: the row of a stream of Anthropic or
\* Gemini whose end the client has seen has output tokens if any were reported.
THEOREM StreamsAreCosted == Spec => []CostedUnlessOpenAI
  <1>1. ASSUME UsageIsLogged, T # "openai"
        PROVE  ReportedStreamIsCosted
    <2> SUFFICES ASSUME Streamed, FinishSeen(0), NEW i \in 1..Len(lines), Outs[i] > 0
                 PROVE  rows[1].out > 0
      BY DEF ReportedStreamIsCosted
    <2>1. IsLastPositive(rows[1].out, Outs, Len(lines))
      BY <1>1 DEF UsageIsLogged
    <2>2. Outs[i] # 0
      OBVIOUS
    <2> QED
      BY <2>1, <2>2 DEF IsLastPositive
  <1>2. ASSUME Inv, OpenAIIsUncounted, T = "openai", Streamed
        PROVE  rows[1].in = 0 /\ rows[1].out = 0
    BY <1>2 DEF Inv, RowIsMade, OpenAIIsUncounted
  <1>3. UsageIsLogged /\ Inv /\ OpenAIIsUncounted => CostedUnlessOpenAI
    BY <1>1, <1>2 DEF CostedUnlessOpenAI
  <1> QED
    BY <1>3, UsageGetsLogged, ExchangeInvariant, OpenAIStaysUncounted, PTL

----------------------------------------------------------------------------
(* The exchange keeps the promise of RequestLedger                         *)

\* The status the log has of the exchange, 0 while it has none.
LoggedStatus == IF rows = << >> THEN 0 ELSE rows[1].status

\* One request, with the outside of it that an exchange has: what the client has seen
\* and what the log was given.  Hooks, goroutines and the shutdown are ProxyPipeline's.
Ledger == INSTANCE RequestLedger WITH
    Requests <- {1},
    Rows <- {},
    Statuses <- OtherStatuses \cup {403, 429, 500, 502},
    NoStatus <- 0,
    answer <- [r \in {1} |-> answer],
    verdict <- [r \in {1} |-> LoggedStatus],
    log <- {}, observed <- {}, stopped <- FALSE

ImplementsLedger == Ledger!Spec

\* A step that answers with a status of the proxy's own leaves no row.
LEMMA RefusesTheRequest ==
    ASSUME Inv, pc # "done", answer = 0, rows' = rows,
           NEW s \in {403, 500, 502}, answer' = s
    PROVE  Ledger!Refuse(1)
  <1>1. rows = << >> /\ LoggedStatus = 0 /\ LoggedStatus' = 0
    BY DEF Inv, RowIsMade, LoggedStatus
  <1>2. [r \in {1} |-> answer'] = [[r \in {1} |-> answer] EXCEPT ![1] = s]
    OBVIOUS
  <1>3. s \in OtherStatuses \cup {403, 429, 500, 502}
    OBVIOUS
  <1> QED
    BY <1>1, <1>2, <1>3 DEF Ledger!Refuse, Ledger!Undecided

\* A step that logs a status has answered with it, or answers with it now.
LEMMA RelaysTheVerdict ==
    ASSUME Inv, pc # "done", NEW s \in OtherStatuses \cup {429, 200}, NEW in, NEW out,
           answer = 0 \/ (answer = 200 /\ s = 200), answer' = s, LogRow(s, in, out)
    PROVE  Ledger!Relay(1)
  <1>1. LoggedStatus = 0
    BY DEF Inv, RowIsMade, LoggedStatus
  <1>2. LoggedStatus' = s
    BY DEF LogRow, LoggedStatus
  <1> QED
    BY <1>1, <1>2 DEF Ledger!Relay, Ledger!Undecided

\* Any other step leaves both.
LEMMA SilentStep ==
    ASSUME UNCHANGED endVars
    PROVE  UNCHANGED Ledger!vars
  BY DEF endVars, LoggedStatus, Ledger!vars

\* Every step of an exchange is a step of the ledger, or none.
LEMMA LedgerStep == Inv /\ [Next]_vars => [Ledger!Next]_(Ledger!vars)
  <1> SUFFICES ASSUME Inv, [Next]_vars
               PROVE  [Ledger!Next]_(Ledger!vars)
    OBVIOUS
  <1>a. Ledger!Refuse(1) \/ Ledger!BeginStream(1) \/ Ledger!Relay(1) => Ledger!Next
    BY DEF Ledger!Next
  <1>b. pc \in {"hooks", "send", "sent", "backoff"} => pc # "done" /\ answer = 0
    BY DEF Inv, Untouched
  <1>c. /\ UNCHANGED endVars => UNCHANGED Ledger!vars
        /\ UNCHANGED vars => UNCHANGED endVars
    BY SilentStep DEF vars
  <1>1. CASE RunHooks
    BY <1>1, <1>a, <1>b, <1>c, RefusesTheRequest DEF RunHooks, WriteError, Goto
  <1>2. CASE Send
    BY <1>2, <1>a, <1>b, <1>c, RefusesTheRequest DEF Send, WriteError, Goto
  <1>3. CASE GiveUp
    BY <1>3, <1>a, <1>b, RefusesTheRequest DEF GiveUp, WriteError, Goto
  <1>4. CASE RelayFailure
    <2>1. PICK s \in OtherStatuses \cup (IF LastAttempt THEN {429} ELSE {}) :
              answer' = s /\ LogRow(s, 0, 0)
      BY <1>4 DEF RelayFailure
    <2>2. s \in OtherStatuses \cup {429, 200} /\ pc = "sent"
      BY <1>4 DEF RelayFailure, Goto
    <2> QED
      BY <2>1, <2>2, <1>a, <1>b, RelaysTheVerdict
  <1>5. CASE RelayBody
    <2>1. CASE WriteError("sent", 502)
      BY <2>1, <1>a, <1>b, RefusesTheRequest DEF WriteError, Goto
    <2>2. CASE WriteError("sent", 500)
      BY <2>2, <1>a, <1>b, RefusesTheRequest DEF WriteError, Goto
    <2>3. ASSUME NEW in, NEW out, Goto("sent", "done"), answer' = 200, LogRow(200, in, out)
          PROVE  [Ledger!Next]_(Ledger!vars)
      BY <2>3, <1>a, <1>b, RelaysTheVerdict DEF Goto
    <2> QED
      BY <1>5, <2>1, <2>2, <2>3, BodyIsAnswered
  <1>6. CASE StartStream
    <2>1. rows = << >> /\ rows' = rows /\ answer = 0 /\ answer' = 200
      BY <1>6, <1>b DEF StartStream, Goto, Inv, RowIsMade
    <2>2. Ledger!BeginStream(1)
      BY <2>1 DEF Ledger!BeginStream, Ledger!Undecided, LoggedStatus
    <2> QED
      BY <2>2, <1>a
  <1>7. CASE CloseStream
    <2>1. pc # "done" /\ answer = 200 /\ answer' = 200
      BY <1>7 DEF CloseStream, Goto, Inv, RowIsMade
    <2>2. LogRow(200, inputTok, outputTok)
      BY <1>7 DEF CloseStream
    <2> QED
      BY <2>1, <2>2, <1>a, RelaysTheVerdict
  <1>8. CASE ChooseProvider \/ BackOff \/ Retry \/ Write \/ ReadLine \/ EndOfBody
    BY <1>8, <1>c DEF ChooseProvider, BackOff, Retry, Write, ReadLine, EndOfBody
  <1> QED
    BY <1>1, <1>2, <1>3, <1>4, <1>5, <1>6, <1>7, <1>8, <1>c DEF Next

\* The client is answered once: with an error of the proxy and no row, or with the status
\* the row has, and a stream that was begun as a 200 is logged as one.
THEOREM ExchangeImplementsLedger == Spec => ImplementsLedger
  <1>1. Init => Ledger!Init
    BY DEF Init, LoggedStatus, Ledger!Init
  <1> QED
    BY <1>1, LedgerStep, ExchangeInvariant, PTL DEF Spec, ImplementsLedger, Ledger!Spec
=============================================================================
