---------------------------- MODULE RequestLedger ----------------------------
(***************************************************************************)
(* What the proxy promises about a request to the outside: the client and  *)
(* the log.  Either the proxy refuses it, with a status of its own and no  *)
(* trace, or it relays the provider's verdict: then the client's answer,   *)
(* the row and the post-request hooks all go by that one verdict, in any   *)
(* order, each at most once, and none of them after the process has gone.  *)
(*                                                                         *)
(* ProxyPipeline implements it for many requests, Exchange for one with    *)
(* its contents (ImplementsLedger there and in ExchangeProofs).            *)
(***************************************************************************)
EXTENDS Naturals

CONSTANTS
    Requests,
    Rows,       \* rows a log can hold, with at least an id and a status
    Statuses,   \* statuses of HTTP that are not 200
    NoStatus

VARIABLES
    answer,    \* status the client has seen, NoStatus before
    verdict,   \* status of the provider that is relayed, NoStatus before
    log,       \* rows of the request log
    observed,  \* requests whose post-request hooks have run
    stopped    \* the process is gone

vars == <<answer, verdict, log, observed, stopped>>

Init ==
    /\ answer = [r \in Requests |-> NoStatus]
    /\ verdict = [r \in Requests |-> NoStatus]
    /\ log = {} /\ observed = {}
    /\ stopped = FALSE

Undecided(r) == ~stopped /\ verdict[r] = NoStatus

Refuse(r) ==
    /\ Undecided(r) /\ answer[r] = NoStatus
    /\ \E s \in Statuses : answer' = [answer EXCEPT ![r] = s]
    /\ UNCHANGED <<verdict, log, observed, stopped>>

\* The first chunk of a stream commits the proxy to a 200.
BeginStream(r) ==
    /\ Undecided(r) /\ answer[r] = NoStatus
    /\ answer' = [answer EXCEPT ![r] = 200]
    /\ UNCHANGED <<verdict, log, observed, stopped>>

\* The verdict is known; the end of a stream is answer and verdict at once.
Relay(r) ==
    /\ Undecided(r)
    /\ \E s \in Statuses \cup {200} :
          /\ answer[r] = NoStatus \/ (answer[r] = 200 /\ s = 200)
          /\ verdict' = [verdict EXCEPT ![r] = s]
          /\ answer' \in {answer, [answer EXCEPT ![r] = s]}
    /\ UNCHANGED <<log, observed, stopped>>

Reply(r) ==
    /\ ~stopped /\ verdict[r] # NoStatus /\ answer[r] = NoStatus
    /\ answer' = [answer EXCEPT ![r] = verdict[r]]
    /\ UNCHANGED <<verdict, log, observed, stopped>>

Record(r) ==
    /\ ~stopped /\ \A w \in log : w.id # r
    /\ \E w \in Rows :
          /\ w.id = r /\ w.status = verdict[r]
          /\ log' = log \cup {w}
    /\ UNCHANGED <<answer, verdict, observed, stopped>>

Observe(r) ==
    /\ ~stopped /\ verdict[r] = 200 /\ r \notin observed
    /\ observed' = observed \cup {r}
    /\ UNCHANGED <<answer, verdict, log, stopped>>

Stop ==
    /\ ~stopped /\ stopped' = TRUE
    /\ UNCHANGED <<answer, verdict, log, observed>>

Next ==
    \/ \E r \in Requests :
          \/ Refuse(r) \/ BeginStream(r) \/ Relay(r)
          \/ Reply(r) \/ Record(r) \/ Observe(r)
    \/ Stop

Spec == Init /\ [][Next]_vars
=============================================================================
