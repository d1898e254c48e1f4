# TalosRed CE in TLA+

TLA+ models of the TalosRed Community Edition proxy, the TLC runs that check
them, and TLAPS proofs about them. Paths below are relative to the repository;
`handler.go` without a directory is `proxy/handler.go`, `runner.go` is
`hooks/runner.go`, `cost.go` is `metrics/cost.go`, `server.go` is
`dashboard/server.go`.

Check one model with `tlc -config PricingCache.cfg MCPricingCache.tla`, one set
of proofs with `tlapm PricingCacheProofs.tla`. `PROJECT.json` lists the runs, the
source lines behind every definition (`map`), the hazards the properties are
aimed at, a mutated operator for each property, the findings and the theorems.

## 1. The system

TalosRed is one Go process: an HTTP server on localhost that translates
OpenAI-style chat completions for three providers, gates them with hook scripts,
logs them in SQLite and shows the log in a server-rendered dashboard.

| Component | State | Operations | Interacts with |
|---|---|---|---|
| Request pipeline (`handler.go`) | per request: context, attempt, retries, response, answer | `ServeHTTP`, `doUpstream`, `handleFull`, `handleStream`, `logRequest` | hooks (calls), aliases and pricing (reads), log store (goroutine), provider (HTTP), shutdown |
| Pre-request hooks (`runner.go`) | `.disabled` files, `statuses`, the body as edited so far | `discover`, `exec`, `RunPreRequest`, `SetEnabled`, `saveStatus` | pipeline (verdict), child processes, dashboard (toggle) |
| Post-request hooks (`runner.go`) | none that outlives a run | `RunPostRequestAsync` | pipeline (starts them), child processes |
| Pricing cache (`cost.go`) | `cache`, `cachedAt`, `mu` | `Calculate`, `getCache`, `refreshCache`, `InvalidateCache` | pricing table (one database connection), pipeline, dashboard |
| Pricing table (`store/pricing.go`, `store/db.go`) | rows | list, upsert, delete, seed at start | cache, dashboard |
| Model aliases (`store/aliases.go`) | rows | `MatchAlias`, list, get, upsert, delete | pipeline, dashboard |
| Request log (`store/models.go`) | rows | `Insert`, `List`, `Get` | logging goroutines, broadcaster, dashboard |
| Broadcaster and SSE (`store/broadcast.go`, `server.go`) | `subs`, channels, RWMutex | `Subscribe`, cancel, `Publish`, `handleSSE` | log store (publishes), browsers |
| Statistics (`store/stats.go`) | none | two aggregate queries | dashboard |
| Lifecycle (`main.go`, `metrics/otel.go`) | process | signal, `Shutdown`, tracer flush | every handler |
| Translators (`proxy/openai_passthrough.go`, `anthropic.go`, `gemini.go`) | none | `BuildRequest`, `TranslateResponse`, `TranslateStreamLine` | pipeline (chosen before the hooks, called per attempt and per line), environment (keys) |

What is hard about it:

* **Goroutines left behind.** `handleFull` and `handleStream` answer the client
  and leave `go h.logRequest(...)` and the post hooks to themselves; `main` waits
  for handlers only.
* **Two resources, nested.** The pricing cache's mutex and the pool's only
  connection (`SetMaxOpenConns(1)`), taken by requests and by dashboard edits.
* **Read, decide, write.** The toggles of hooks and aliases read a state, let go
  of it and write its opposite. `discover` stats one sidecar file at a time.
* **Error paths.** Hook runs end in exits, kills, bad output or not at all, and
  three pieces of code judge them by different tests. Upstream attempts end in
  answers, transport errors, 429s and an abandoned back-off.
* **Order that nobody promises.** Go's map order decides the prefix match of a
  price; SQL's byte order is the one in which alias patterns are met; rows reach
  the table in another order than they are stamped in.
* **Three protocols.** Each provider spreads text, finish reasons and token counts
  over its stream in its own way, and a stream may break off at any line. The
  translator is chosen before the hooks may change the request.
* **Bounded buffers.** Sixteen places per live viewer and a send that must not
  block, under a lock that viewers need in order to leave.

What makes each component correct is stated in section 3 as properties.

## 2. The modules

Names follow the source. One action is one atomic step of one goroutine: up to
the next lock, query, process wait, network wait or goroutine start. History
variables are marked as such where they are declared; they guard nothing.

### PricingCache

`cost.go` with the edit handlers of `server.go:297-383`. The table is the number
of writes it has seen, the cache the number it was loaded at. `Calculate` →
`GetCache` (first test, read lock) → `LockAndRecheck` → `QueryRows` (waits for
the connection) → `CloseRows` → `StoreCache`, or `ServeStale` when the query
fails. An edit is `BeginEdit` → `AcquireConn` → `Exec` → `InvalidateCache`. The
TTL is the action `Expire`, which may happen at any time.

### PriceLookup

`lookup` (exact row, else the first key of the map that is a prefix) with the
range loop's order left open, the upserts and deletions of the pricing page, and
`Restart`, which seeds with `INSERT OR IGNORE`. A name is a sequence of fragments
(`<<"gpt-4", "o">>`) so that prefixes are real. A lookup works on the table or on
any copy the cache may hold: when the copy is renewed is PricingCache's subject.
Rates are model values, so arithmetic, and with it NaN and infinity, is left out.

### ProxyPipeline

`ServeHTTP` from `Admit` (method, key, parsing, routing: one refusal each) over
the verdict of the gate to `doUpstream`'s attempts, `handleFull` or
`handleStream`, the logging goroutine (`LogRequest`, whose insert may fail), the
post-request hook, the client that goes away, and `Signal` and `Exit` of `main`.
`Exit` ends cleanly when all handlers have returned, or at the deadline. A
payload is a status and a number of chunks. Pre-request hooks appear by their
verdict: what happens inside is HookRunner.

### HookRunner

`discover` entry by entry (`Discover`, `ScanEntry`, `EndScan`), `exec`
(`StartHook`, `HookEnds`, `RunReturns`) and the loop of `RunPreRequest`
(`Blocks`, `BodyAfter`, `Conclude`, `EndOfHooks`), the handler's use of the
verdict (`Forwarded`, `Send`) and the dashboard's toggle (`ReadState`,
`SetEnabled`). How a run ended and what it had printed vary independently, as
they do for a process that may be killed at any point; `Detaching` hooks leave a
descendant with their pipes, for which `cmd.Run` waits.

### AliasStore

`MatchAlias`'s single pass (`NextAlias`, `ExactMatch`, `EndOfList`) over rows in
the order of `ORDER BY pattern`, and the alias page: upsert, delete, and the
toggle that is a read (`GetAlias`) and a later write (`UpsertToggled`).

### LiveLog

`Store.Insert` with `Publish` behind it, one goroutine per row, under the
broadcaster's RWMutex: `BeginPublish` takes the read lock and the set of
subscribers, `SendTo` is one turn of the range with its non-blocking send,
`EndPublish` unlocks; `Subscribe` and `Cancel` are writers. On the other side a
browser loads a page (`List`, newest first), subscribes, pages on with OFFSET,
loses its connection and may come back. A row is identified with its time stamp;
rows are committed in any order. (Equal stamps come out in the order of the
index, which does not move a row up either.)

### Translators and Exchange

ProxyPipeline has many requests without their contents; Exchange has one with
them (exchanges share nothing but the log). Translators holds the functions:
`DetectProvider`, `BuildRequest` with the key and the place it goes to, the
conversation as each provider gets it, `TranslateStreamLine` of the three
providers, `Translates` (`TranslateResponse`), `Capture` (redaction, by what
`redactURL` finds). Exchange is the handler around them: `ChooseProvider` (header, alias, model), `RunHooks`
with `json.Unmarshal` of a modification into the request as it stands (`Edited`:
fields that are absent or ill-typed stay, and so do the missing parts of a
message, see `MessagesAfter`), the attempts of `doUpstream` (`Send`, `BackOff`
with `RetryWait`, `Retry`, `GiveUp`), and the answer: `RelayFailure`,
`RelayBody`, or `StartStream`, `ReadLine` for each line, `EndOfBody`,
`CloseStream`. A text is a number, a model what `DetectProvider` reads of its
name, a key the name of its variable, and a chunk carries the number of the line
it translates, so that order, loss and duplication show.

A model or an endpoint has a form as well, which is what a URL makes of it
(`Forms`): part of the path, one with a `?` or a `#`, or no URL at all. Gemini's URL
holds both unescaped, with the key behind them (`UrlForm`; of two forms the worse one
counts), and what follows depends on it: `BuildFails` for no URL, and behind a `?` or
`#` the key is no parameter of the query, so that `Redacts` does not hold and
`Capture` keeps it. `errorKey` is the key in the URL that an error quotes to the client
(`QuotesUrl`): those of `http.NewRequest` and `client.Do` do, the others do not.

`Write` is the provider. Its lines follow its own protocol as far as the
translators rely on it: Anthropic starts a message, reports the input count
there and the output count in `message_delta`, after which only `message_stop`
comes; Gemini's counts may be on any object, and are on the one with the finish
reason; OpenAI finishes each of its n choices and may then send usage and
`[DONE]`. Lines of no meaning and lines that do not parse may come anywhere, and
the stream may end after any line. A provider that breaks its protocol is not
modelled.

### The abstract specifications

* `PriceRegister`: the pricing table as a register with regular reads. A lookup
  answers with a version between the last edit acknowledged when it began and the
  newest, or, if it could not read the table, with any older one. PricingCache
  implements it (`ImplementsRegister`): a reader asks from `Calculate` to its
  return, and is `unreadable` from a failed query on.
* `RequestLedger`: a request is refused without a trace, or the provider's verdict
  is relayed, and then the answer, the row and the post hooks go by it, each at
  most once and none after the process has gone. ProxyPipeline implements it
  (`ImplementsLedger`): the verdict of a request is the status of the row it has
  spawned, whether or not that row has been inserted yet. So does Exchange, with one
  request and its contents, by a proof only (`ExchangeProofs`).
* `Gate`: a request is taken through hooks one after the other in their order, any
  of which may edit or block it, and is forwarded when every hook that was enabled
  all through its lookup has had its run (or the lookup failed), and never when
  its client has left. HookRunner implements it (`ImplementsGate`): the hooks it
  has been through are those of its runs, the body is what they left.

### MC and Proofs modules

`MC*` extends a module with the definitions a configuration needs (patterns,
names, symmetry sets). `*Proofs` extends one with TLAPS and holds lemmas and
theorems, with the formulas only they are about. `Induction` holds the facts about
numbers that the library states of a predicate, restated of a set. The operators that
a comment calls "a mutated form" are plausible mistakes (a dropped guard, a swapped test, a missing unlock): each property of
the passing runs fails when one of them stands in for the definition it follows.

### How the modules compose

They meet at narrow interfaces and are checked apart, each with the others'
behaviour left open. `Gate` is the interface between HookRunner and the pipeline:
its outcomes are block, a forwarded body, drop, and ProxyPipeline's
`PreRequestHooks` and Exchange's `RunHooks` take any of them. `PriceRegister` is
what a request that is costed relies on: PriceLookup takes any table of a
version the register may answer with. LiveLog's rows are ProxyPipeline's
`logging` set, and its `Insert`/`InsertFails` are what `LogRequest` does. Exchange
refines the data of one request of ProxyPipeline, whose statuses, retries and
chunks are those of Exchange without their contents.

## 3. The runs

| Run | Shows | Instance |
|---|---|---|
| `pricing_cache` | a fresh map holds every acknowledged edit (`FreshIsCurrent`); a lookup that began after an edit was acknowledged is not served older rows (`ReadYourWrites`); the cache never goes back (`CacheMovesForward`); the mutex comes before the connection (`LockOrder`); it is a register (`ImplementsRegister`); every lookup and edit ends (`CallsReturn`) | 2 lookups, 2 editors, 2 edits |
| `price_lookup` | a lookup is charged by the exact row, else by some prefix, else by nothing, in any map order (`ChargeIsJustified`); restarts do not take an edited rate back (`OperatorHasTheLastWord`) | gpt-4, gpt-4o, a dated gpt-4o, 2 rates |
| `price_variant` | **violated**: `VariantIsChargedAsItsModel` | the same |
| `proxy_pipeline` | a row tells what happened (`RowIsFaithful`); nothing is sent or answered behind an answer (`AnsweredOnce`); post hooks run for exactly the logged 200s (`PostHooksFollowSuccess`); client, log and hooks go by one verdict (`ImplementsLedger`); a request ends (`EveryRequestEnds`); a relayed answer gets its row (`RelayedAnswerIsLogged`) | 2 requests, 2 attempts, 1 chunk |
| `pipeline_every_request_logged` | **violated**: `EveryRequestIsLogged` | 1 request |
| `pipeline_post_payload` | **violated**: `PostHookGetsPayload` | 1 request, 2 chunks |
| `hook_gate` | every planned hook runs in order and no verdict is overruled (`GateIsComplete`); each hook gets the edits before it (`EditsAreSerial`); a gate skipped because the client left sends nothing (`SkippedGateIsNeverSent`); a toggle during the scan decides the plan one way or the other (`PlanFollowsToggles`); it is a gate (`ImplementsGate`); the gate ends, or waits for a descendant of a hook (`GateDecides`) | 1 request, 2 hooks, 1 toggler, hook 2 detaches |
| `hook_timeout` | **violated**: `TimeoutNeverBlocks` | 1 request, 1 hook |
| `alias_store` | the exact, else the longest covering pattern is returned (`LongestMatchWins`); a deletion that no toggle overlaps lasts (`DeletedStaysDeleted`) | `gpt*`, `gpt-4*`, `gpt-4o`; 4 models, 2 togglers |
| `live_log` | what is shown can be opened (`ShownIsLogged`); a stream loses a row only to its own full channel (`StreamIsComplete`); OFFSET pages skip nothing (`PagingSkipsNothing`); nothing is sent to a cancelled channel (`CancelledChannelIsQuiet`); nobody waits for a viewer (`HandlersReturn`) | 1 browser, 1 listener, 2 rows, pages of 1, channels of 1 |
| `exchange` | the log and every attempt agree on what was sent (`RowTellsWhatWasSent`); each provider gets the conversation asked for (`ConversationIsKept`); the client gets every chunk once, in order, and `[DONE]` last (`ClientSeesTheAnswer`); the counts reported last are logged (`UsageIsLogged`); waits that do not overflow are as asked, and none is above the cap (`WaitsAreBounded`); who is told which key, and which key goes where (`KeysAreKept`) | 98 calls over all providers, 3 aliases, 2 edits, 3 attempts, 4 lines, 3 pairs of counts |
| `exchange_reported_stream_is_costed` | **violated**: `ReportedStreamIsCosted` | the same |

Each passing run also checks its module's `TypeOK`, whose bounds are the numeric
edges: the attempt counter, the scan index, the length of a channel.

### What the violated runs say

* `price_variant`: README.md:327 has `gpt-4o-2024-08-06` fall back to `gpt-4o`.
  `lookup` returns the first prefix in map order, which may be `gpt-4`; both are
  seeded.
* `pipeline_every_request_logged`: README.md:101 lets the user inspect failed
  requests too. Transport errors, unreadable bodies and translation errors
  answer the client and write no row.
* `pipeline_post_payload`: `hooks/types.go:16` promises a payload on stdin. For a
  stream of two chunks the concatenation is not JSON, `json.Marshal` fails, and
  the hook runs on nothing.
* `hook_timeout`: README.md:262 and `hooks/runner_test.go:243` say a timeout is
  skipped. A killed process has exit code -1 and an empty `Err`: it blocks.
* `exchange_reported_stream_is_costed`: README.md:5 has every request logged with
  cost. `TranslateStreamLine` of OpenAI returns no counts for any chunk
  (`openai_passthrough.go:82`), and a finish reason of `stop` ends the loop before
  the usage chunk its comment speaks of (`:73`) is read. The proxy does not pass
  `stream_options` on (it is no field of `ChatRequest`), so usage comes only from
  endpoints that send it unasked; without it the row has no tokens either.

### Bounds and why they are enough

Every bound is a CONSTANT: `MaxVersion` (versions of the table), `MaxChunks`,
`MaxRows`, `NHooks`, `MaxLines`, and in the code `maxAttempts` = 3, which Exchange
and the violated runs keep; `proxy_pipeline` has two attempts, so that two requests
with fairness stay within reach: one attempt that is retried and one that is the
last are all the kinds there are. The races are
between two parties (lookup and edit, publisher and subscriber, toggle and
scan), so two of each kind suffice to meet them, with two edits after the seeded
version, so that one may be acknowledged while the other is under way. Two hooks give every pair of
outcomes in both orders. Three patterns are the least that hold an exact one and
two overlapping wildcards; the three names of the price table are a chain of two
prefixes. In `live_log` a channel of one place is full as soon as two rows are
published, and a page of one row makes the second insert shift it; a second
browser adds states and no new interaction, as browsers meet only at `subs` and
at the lock, so the second viewer only listens. In `exchange` four lines are a
whole answer of every provider (Anthropic's start, text, delta and stop; two
choices of OpenAI, usage and `[DONE]`) or one with meaningless lines between. The
calls are all conversations of three roles, shorter ones with a role of no meaning,
both ways to choose a provider against and with the model's name, n = 2, a limit, and a
model with a `?`; the aliases take an endpoint and a model that make no URL.
Durations are scaled: a second is 3, the back-off 2 seconds, the cap 30 seconds, and
a Duration has eight bits (`Half` = 128), so that a Retry-After of 5 is waited for,
40 is over the cap and 50 wraps to a negative wait. The theorems of section 4
hold without these bounds.

Deadlock is checked in every run. Terminal states stutter explicitly: requests
that have left the gate, and a server that is down.

### Fairness

* PricingCache: strong fairness of each goroutine. `sync.RWMutex` and the queue of
  `database/sql` hand a released lock to a waiter, so a goroutine that is enabled
  again and again is served. Starting a call and the TTL are not forced.
* ProxyPipeline: weak fairness of a request's own steps. A provider answers or
  the client's timeout (10 minutes) ends the wait, and the timer of a back-off
  fires. Clients, disconnects and the signal are free.
* HookRunner: weak fairness of the gate, since a hook is killed after five
  seconds; none for `RunReturns` of a detaching hook, because `cmd.WaitDelay` is
  not set and nothing closes the pipes.
* LiveLog: weak fairness of the logging goroutines and of `Cancel`. Nobody is
  assumed to read a channel: a browser that hangs is the interesting case. (In
  Go a waiting writer also keeps new readers out; the model allows more.)

## 4. The proofs

TLAPS proves for every value of the constants what the runs check on instances,
refinements included: each of them is the initial states, one step or lemma per action
that maps it to an abstract step or a stutter, and the invariant that makes it so.
The assumptions are the ASSUMEs of the modules: locks have a holder that is no
thread, statuses 0, 200 and 429 are distinct from the others, names are sequences
of strings, patterns are listed once, there is at least one attempt, hook, page
row and channel place.

Four kinds of results are proved.

*The properties of the runs*, each from an inductive invariant:

* **PricingCacheProofs**: `TypeOK`, `FreshIsCurrent`, `LockOrder`,
  `ReadYourWrites`, `CacheMovesForward`, `ImplementsRegister`. The inductive invariant adds who holds
  what at which point (a caller between `LockAndRecheck` and its end holds `mu`,
  so at most one refresh is under way), that the rows in flight are as new as
  every edit acknowledged, because an acknowledgement waits for `mu`, and that no
  number runs ahead of the table. `FreshIsCurrent` alone is not inductive: a
  refresh could store rows older than an acknowledged edit.
* **PriceLookupProofs**: `TypeOK`, `ChargeIsJustified`, `OperatorHasTheLastWord`.
  The loop invariant says that the keys already visited are no prefixes, and that
  the loop runs only without an exact row.
* **ProxyPipelineProofs**: `TypeOK`, `RowIsFaithful`, `PostHooksFollowSuccess`,
  `AnsweredOnce`, `ImplementsLedger`. The invariant relates the loop variable, the retries counted,
  the statuses seen and the requests sent at every place of `doUpstream`; an
  answer exists only from the place on that writes it; and a row exists only of a
  request that has passed the place that spawns it.
* **AliasStoreProofs**: `TypeOK`, `LongestMatchWins`, `DeletedStaysDeleted`. The
  loop invariant is the claim for the patterns visited so far. That the longest
  is unique rests on a lemma: two patterns of one length that cover one model are
  equal. Deletions hold because nobody toggling has read a pattern in `deleted`.
* **LiveLogProofs**: `TypeOK`, `ShownIsLogged`, `StreamIsComplete`,
  `PagingSkipsNothing`, `CancelledChannelIsQuiet`. The invariant adds that what is
  published is committed, that `subs` are the handlers between Subscribe and
  Cancel and the range of a Publish only visits them, and that the rows of a
  baseline still to be shown lie behind the offset while the button to load more
  is there. The last needs counting: behind a row that many newer ones are in
  front of, a page in between is full. It is proved by a bijection between a page
  and its ranks (a pigeonhole).
* **HookRunnerProofs**: `TypeOK`, `GateIsComplete`, `EditsAreSerial`,
  `PlanFollowsToggles`, `SkippedGateIsNeverSent`, `ImplementsGate`. The invariant says of a scan
  that all hooks enabled throughout are planned up to the next entry; of the loop,
  that the runs are those of the first hooks of the plan, that a blocking run is
  the last one, and that a run cut short leaves a context that is over. The body
  is carried as a relation that names the last edit (`Leave`), so that nobody has
  to look for the latest of a set of edits.
* **ExchangeProofs**: `TypeOK`, `KeysAreKept`, `RowTellsWhatWasSent`, `WaitsAreBounded` follow from
  a first invariant: every attempt of an exchange has sent what the request in hand
  becomes (`Attempts`), nothing has been read before the answer (`Untouched`), a row
  is made of what the handler has (`RowIsMade`), a wait is the one its Retry-After
  asks for (`BacksOff`), and a key is told only in a URL and leaves no row
  (`TellsKey`). `KeysAreKept` is what that leaves of README.md:90 and :226 for any
  environment, alias and edit: no key of OpenAI or Anthropic is told or logged;
  Gemini's is logged only where an endpoint or a model begins a query or a fragment;
  and every attempt, to an aliased endpoint as well, has a key of its provider that is
  set, or a dummy. `ClientSeesTheAnswer` and `UsageIsLogged` need a second one on top:
  the lines keep to their provider's
  order (`LinesFollow`, a relation between any two of them), the chunks in `resBuf`
  are those of the lines read (`ChunksKept`), and each counter is the last positive
  count among them (`CountsKept`). Neither property is inductive: that nothing is
  missed after the client has seen a choice end rests on the provider's order. The
  sum over a stream is never taken; a last positive count needs no induction.
  `ConversationIsKept` does need one, over the messages: the translators' loop is
  the recursive function `ConversationAfter` of the number of messages read, and
  what it has built after n of them is the last system message and the others in
  order. The place a message lands at is the number of those before it, so the
  lemmas count: one message more is one place more (`Induction!CountOfOneMore`), and
  every place up to the count is some message's (`PlaceIsCounted`).

*Where a violated expectation does hold.* Theorems draw the line the repository's text
does not:

* `UnambiguousVariants`: a dated variant is charged as the longest row that is a
  prefix of its model whenever the table has the model itself or at most one prefix
  of it.
* `OnlyOwnErrorsAreUnlogged`: of the requests that reached a provider only those have no
  row that the proxy answered with a 500 or 502 of its own.
* `PayloadsOfJSONArrive`: a post hook is given its payload after a full response or a
  stream of at most one chunk, and after nothing else.
* `ErrorsSkipAndTimeoutsBlock`: a system error or garbage never blocks; a timeout
  always does, unless what the hook had printed is garbage.
* `StreamsAreCosted`: streams of Anthropic and Gemini that ended for the client are
  logged with the tokens reported, those of OpenAI all with none.

*The safety half of liveness.* Each step of a handler (`HandlersRunDown`), of a gate
(`GatesRunDown`) or of a row's goroutine (`LoggersRunDown`) lowers a number of steps left
(`StepsLeft`) that nobody else's step raises, whatever the provider, the hooks, the
viewers and the other requests do. With the fairness of section 3 this is why
`EveryRequestEnds`, `GateDecides` and the first part of `HandlersReturn` hold; where a
number stays above zero for good, a step is owed by the outside. `WaitsAreNotCircular`
says the same of waiting: in PricingCache whoever is at the end of a wait for the
mutex or the connection waits for nobody.

*More about the components*: `ResolutionIsUnique` (`MatchAlias` is a function of the
enabled rows and the model), `RowsAreSentOnce` (no channel holds a row twice: a row in
a channel is done, or its Publish has passed that viewer) and
`ExchangeImplementsLedger`.

**Induction** proves what these need of numbers. The library's induction theorems take
a predicate, which the provers installed cannot be given. But the library also has the
strict subsets of a finite set as a well-founded relation; the intervals `1..k` turn
that into a least member of every set of naturals, and this into induction
(`InductionUpTo`) over a set that has 0 and with each number the next. The claim of an
induction is then the set of numbers it holds of. No theorem needs a step that is
taken on trust.

Only model-checked: liveness (`CallsReturn`, `EveryRequestEnds`,
`RelayedAnswerIsLogged`, `GateDecides`, `HandlersReturn`), which needs fairness
and ENABLED. The conditional theorems, the numbers of steps left and the refinement
of Exchange are proved and not among the runs.

## 5. What is not modelled

* Texts: prompts, deltas, error messages (but for a key in them) and the
  cURL command are opaque or left out, and so are the sampling parameters
  (`temperature`, `top_p`, `stop`) that translators copy. Fields `ChatRequest` does
  not know (tools, `stream_options`) are lost in the passthrough as well, although
  its comment says "unchanged" (`openai_passthrough.go:15`).
* Providers that break their own protocol.
* URLs beyond their form: an endpoint with a parameter `key` of its own, redirects.
* Templates and static files: functions without state.
* Statistics: two read-only queries of two moments.
* Migrations: DDL that is idempotent; its seeding is in PriceLookup.
* The tracer: set-up of a library.
* Floats. `ParseFloat` takes `NaN` and `Inf` for a rate (`server.go:307`).

What the repository promises, the models contradict, and no run claims:

* README.md:90 says the real key is "never sent back to clients and is redacted
  everywhere in the UI". Gemini's is in the URL (`gemini.go:118`) that the errors of
  `http.NewRequest` and `client.Do` quote, which `handler.go:185` and `:274` write to
  the client; and `redactURL` blanks the parameter `key` only if it finds one
  (`handler.go:495`), which behind a `?` or a `#` in the endpoint or the model it does
  not. `KeysAreKept` says how far this goes.
* README.md:226 says aliased endpoints are sent a dummy token. They are when no key of
  the provider is set, else that key (`openai_passthrough.go:28-35`, and the other two
  alike). `KeysAreKept` says which.
* README.md:5 says every request is logged. `Shutdown` waits for the handlers
  (`main.go:130`) and not for the goroutines that insert their rows, so a shutdown may
  lose rows; `RelayedAnswerIsLogged` allows it.
* README.md:71 calls OpenAI a passthrough. With n = 2 the first choice that stops ends
  the stream (`openai_passthrough.go:78`) and the other is cut off;
  `ClientSeesTheAnswer` asks for the choice that ended only.
* README.md:104 and `handler.go:454` have Retry-After honoured. Its nanoseconds may
  overflow before they are compared with the cap (`handler.go:459`), and a negative
  wait is none; `WaitsAreBounded` speaks of the waits that do not overflow, and of the
  cap.
* README.md:131 pushes new rows the instant a prompt fires. A row that is published
  between a page's query and its subscription (`server.go:408`) is in neither and shows
  after a reload; `StreamIsComplete` begins at the subscription.
* README.md:281 continues with the hook's request. It is decoded over the client's
  (`handler.go:155`), and a message without content keeps the content of the one it
  replaces; `RowTellsWhatWasSent` only has the row tell it.
* README.md:285 says "A non-zero exit code also blocks the request". With output that
  is not JSON `exec` sets `Err` (`runner.go:287`), which skips the hook before its exit
  code is looked at; `GateIsComplete` leaves that outcome out.

And what they show where the repository promises nothing:

* Two concurrent toggles of a hook, or of an alias, may count as one, and an
  alias toggle that overlaps a deletion writes the alias back.
* A hook that changes the model to one of another provider sends the new name to the
  old provider (`handler.go:116`).
* Of several system messages Anthropic and Gemini get the last one only.
* A stream of Anthropic that breaks off before `message_delta` is logged with no
  output tokens, although `message_start` carried a provisional count.
* A failing `discover` opens the gate (`handler.go:147`).
* A row inserted before a page is loaded and published after its subscription is shown
  twice.

## 6. Plan

Done: PricingCache, ProxyPipeline, HookRunner, PriceLookup, AliasStore, LiveLog and
Exchange with Translators, their runs and proofs; the abstract specifications
PriceRegister, RequestLedger and Gate with their refinements, checked and proved;
induction for the provers, the conditional theorems and the numbers of steps left.

Next, by importance:

1. ProxyPipeline's `Admit` and `PreRequestHooks` as an instance of `Gate`, so that
   the composition of section 2 is a checked one.
2. `Lifecycle`: migration, start, SSE connections that hold `Shutdown` to its
   deadline, the tracer flushed with a context that is over (`main.go:135`).
3. Statistics as sums over LiveLog's rows, read at two moments.
4. What the abstract specifications promise by themselves, proved of them once (a
   row's status is the answer's in RequestLedger, order in Gate), so that it reads
   off every module that implements them.
