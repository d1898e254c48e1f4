------------------------------- MODULE LiveLog -------------------------------
(***************************************************************************)
(* The request log as the dashboard shows it: rows are inserted by the     *)
(* goroutines logRequest leaves behind, published to the subscribers of    *)
(* the Broadcaster, listed page by page and streamed to open pages.        *)
(*   store/models.go      Store.Insert, Store.List                         *)
(*   store/broadcast.go   Subscribe, its cancel function, Publish          *)
(*   dashboard/server.go  handleLogs, handleRequestList, handleSSE         *)
(*                                                                         *)
(* A row is its time stamp: rows are numbered in the order in which the    *)
(* proxy stamps them, and reach the table in any order.  A viewer has one  *)
(* /ui/stream connection at a time; a browser also has the page around it. *)
(***************************************************************************)
EXTENDS Naturals, Sequences, FiniteSets

CONSTANTS
    Viewers,    \* clients of /ui/stream
    Browsers,   \* those of them that load pages; the rest only listen
    MaxRows,    \* bound of the model: how many requests are logged
    Limit,      \* rows of a page, 100 in parseFilter
    Capacity    \* places of a subscriber's channel, 16 in Subscribe

ASSUME ViewersAssumption == IsFiniteSet(Viewers) /\ Browsers \subseteq Viewers
ASSUME SizesAssumption ==
    /\ MaxRows \in Nat
    /\ Limit \in Nat \ {0}
    /\ Capacity \in Nat \ {0}

Row == 1 .. MaxRows

VARIABLES
    stamped,    \* how many rows have their time stamp
    lpc,        \* lpc[r]: where the goroutine that logs row r is
    todo,       \* todo[r]: subscribers Publish(r) has not come to yet
    table,      \* rows of the table requests
    subs,       \* Broadcaster.subs: the viewers whose channel is in it
    chan,       \* chan[v]: what is buffered in v's channel
    vpc,        \* vpc[v]: away, or here without, with, or losing its stream
    shown,      \* shown[v]: rows the page has displayed
    offset,     \* offset[v]: NextOffset of the page's "Load more" button
    more,       \* more[v]: whether the page has that button
    baseline,   \* history: the table when the page was loaded
    since,      \* history: the table when the stream was subscribed
    missed      \* history: rows dropped because v's channel was full

logVars  == <<stamped, lpc, todo, table>>
pageVars == <<shown, offset, more, baseline>>
vars == <<logVars, subs, chan, vpc, pageVars, since, missed>>

LPC == {"none", "insert", "inserted", "publish", "done", "failed"}
VPC == {"away", "page", "live", "leaving"}

Init ==
    /\ stamped = 0
    /\ lpc = [r \in Row |-> "none"]
    /\ todo = [r \in Row |-> {}]
    /\ table = {}
    /\ subs = {}
    /\ chan = [v \in Viewers |-> << >>]
    /\ vpc = [v \in Viewers |-> IF v \in Browsers THEN "away" ELSE "page"]
    /\ shown = [v \in Viewers |-> {}]
    /\ offset = [v \in Viewers |-> 0]
    /\ more = [v \in Viewers |-> FALSE]
    /\ baseline = [v \in Viewers |-> {}]
    /\ since = [v \in Viewers |-> {}]
    /\ missed = [v \in Viewers |-> {}]

-----------------------------------------------------------------------------
(* The Broadcaster's RWMutex: Publish holds it for reading from its first  *)
(* to its last send, the writers are the bodies of Subscribe and cancel.   *)
(* (A waiting writer keeps later readers out in Go; here it may also be    *)
(* overtaken.)                                                             *)
Publishers == {r \in Row : lpc[r] = "publish"}
WriterMayLock == Publishers = {}

(* The goroutine of one row *)

(* The handler stamps the row (TS: time.Now()) and spawns logRequest. *)
Stamp ==
    /\ stamped < MaxRows
    /\ stamped' = stamped + 1
    /\ lpc' = [lpc EXCEPT ![stamped + 1] = "insert"]
    /\ UNCHANGED <<todo, table, subs, chan, vpc, pageVars, since, missed>>

Insert(r) ==
    /\ lpc[r] = "insert"
    /\ table' = table \cup {r}
    /\ lpc' = [lpc EXCEPT ![r] = "inserted"]
    /\ UNCHANGED <<stamped, todo, subs, chan, vpc, pageVars, since, missed>>

(* A mutated form: the row is published whether it was inserted or not. *)
InsertFailsUnseen(r) ==
    /\ lpc[r] = "insert"
    /\ lpc' = [lpc EXCEPT ![r] = "inserted"]
    /\ UNCHANGED <<stamped, todo, table, subs, chan, vpc, pageVars, since, missed>>

InsertFails(r) ==
    /\ lpc[r] = "insert"
    /\ lpc' = [lpc EXCEPT ![r] = "failed"]
    /\ UNCHANGED <<stamped, todo, table, subs, chan, vpc, pageVars, since, missed>>

(* RLock.  The writers are out, so the range sees one set of subscribers. *)
BeginPublish(r) ==
    /\ lpc[r] = "inserted"
    /\ lpc' = [lpc EXCEPT ![r] = "publish"]
    /\ todo' = [todo EXCEPT ![r] = subs]
    /\ UNCHANGED <<stamped, table, subs, chan, vpc, pageVars, since, missed>>

(* A mutated form: one row more than there are places. *)
Overfull(v) == Len(chan[v]) > Capacity

Full(v) == Len(chan[v]) = Capacity

(* A mutated form: a full channel ends the loop for everybody. *)
SendToOrStop(r, v) ==
    /\ lpc[r] = "publish"
    /\ v \in todo[r]
    /\ \/ /\ ~Full(v)
          /\ todo' = [todo EXCEPT ![r] = @ \ {v}]
          /\ chan' = [chan EXCEPT ![v] = Append(@, r)]
          /\ UNCHANGED missed
       \/ /\ Full(v)
          /\ todo' = [todo EXCEPT ![r] = {}]
          /\ missed' = [missed EXCEPT ![v] = @ \cup {r}]
          /\ UNCHANGED chan
    /\ UNCHANGED <<stamped, lpc, table, subs, vpc, pageVars, since>>

(* A mutated form: a send without the select's default. *)
SendToBlocking(r, v) ==
    /\ lpc[r] = "publish"
    /\ v \in todo[r]
    /\ ~Full(v)
    /\ todo' = [todo EXCEPT ![r] = @ \ {v}]
    /\ chan' = [chan EXCEPT ![v] = Append(@, r)]
    /\ UNCHANGED <<stamped, lpc, table, subs, vpc, pageVars, since, missed>>

(* One turn of the range over subs, in whatever order the map has. *)
SendTo(r, v) ==
    /\ lpc[r] = "publish"
    /\ v \in todo[r]
    /\ todo' = [todo EXCEPT ![r] = @ \ {v}]
    /\ \/ /\ ~Full(v)
          /\ chan' = [chan EXCEPT ![v] = Append(@, r)]
          /\ UNCHANGED missed
       \/ /\ Full(v)
          /\ missed' = [missed EXCEPT ![v] = @ \cup {r}]
          /\ UNCHANGED chan
    /\ UNCHANGED <<stamped, lpc, table, subs, vpc, pageVars, since>>

EndPublish(r) ==
    /\ lpc[r] = "publish"
    /\ todo[r] = {}
    /\ lpc' = [lpc EXCEPT ![r] = "done"]
    /\ UNCHANGED <<stamped, todo, table, subs, chan, vpc, pageVars, since, missed>>

LogStep(r) ==
    \/ Insert(r)
    \/ InsertFails(r)
    \/ BeginPublish(r)
    \/ \E v \in Viewers : SendTo(r, v)
    \/ EndPublish(r)

-----------------------------------------------------------------------------
(* The pages of the list: ORDER BY ts DESC LIMIT Limit OFFSET from *)

Newer(r) == {q \in table : q > r}
Page(from) == {r \in table : Cardinality(Newer(r)) \in from .. from + Limit - 1}

(* A mutated form: the button waits for a row past the page's last one. *)
HasMoreThanLimit(page) == Cardinality(page) > Limit

HasMore(page) == Cardinality(page) = Limit

LoadPage(v) ==
    /\ vpc[v] = "away"
    /\ shown' = [shown EXCEPT ![v] = Page(0)]
    /\ offset' = [offset EXCEPT ![v] = Limit]
    /\ more' = [more EXCEPT ![v] = HasMore(Page(0))]
    /\ baseline' = [baseline EXCEPT ![v] = table]
    /\ vpc' = [vpc EXCEPT ![v] = "page"]
    /\ UNCHANGED <<logVars, subs, chan, since, missed>>

LoadMore(v) ==
    /\ vpc[v] # "away"
    /\ more[v]
    /\ shown' = [shown EXCEPT ![v] = @ \cup Page(offset[v])]
    /\ offset' = [offset EXCEPT ![v] = @ + Limit]
    /\ more' = [more EXCEPT ![v] = HasMore(Page(offset[v]))]
    /\ UNCHANGED <<logVars, subs, chan, vpc, baseline, since, missed>>

(* The stream of a page: handleSSE *)

Subscribe(v) ==
    /\ vpc[v] = "page"
    /\ WriterMayLock
    /\ subs' = subs \cup {v}
    /\ chan' = [chan EXCEPT ![v] = << >>]
    /\ since' = [since EXCEPT ![v] = table]
    /\ missed' = [missed EXCEPT ![v] = {}]
    /\ vpc' = [vpc EXCEPT ![v] = "live"]
    /\ UNCHANGED <<logVars, pageVars>>

(* A row is rendered and flushed; once the client is gone it is written to *)
(* nobody, since select may still prefer the channel to ctx.Done().        *)
Receive(v) ==
    /\ vpc[v] \in {"live", "leaving"}
    /\ chan[v] # << >>
    /\ chan' = [chan EXCEPT ![v] = Tail(@)]
    /\ \/ /\ vpc[v] = "live"
          /\ shown' = [shown EXCEPT ![v] = @ \cup {Head(chan[v])}]
       \/ /\ vpc[v] = "leaving"
          /\ UNCHANGED shown
    /\ UNCHANGED <<logVars, subs, vpc, offset, more, baseline, since, missed>>

(* The connection breaks, by the client or by the server's WriteTimeout. *)
Disconnect(v) ==
    /\ vpc[v] = "live"
    /\ vpc' = [vpc EXCEPT ![v] = "leaving"]
    /\ UNCHANGED <<logVars, subs, chan, pageVars, since, missed>>

(* The channel goes with the handler that made it. *)
EndStream(v) ==
    /\ chan' = [chan EXCEPT ![v] = << >>]
    /\ since' = [since EXCEPT ![v] = {}]
    /\ missed' = [missed EXCEPT ![v] = {}]

(* A mutated form: the map is changed without the lock. *)
CancelUnlocked(v) ==
    /\ vpc[v] = "leaving"
    /\ subs' = subs \ {v}
    /\ EndStream(v)
    /\ vpc' = [vpc EXCEPT ![v] = "page"]
    /\ UNCHANGED <<logVars, pageVars>>

(* The deferred cancel.  The page is still there, and may subscribe again. *)
Cancel(v) ==
    /\ vpc[v] = "leaving"
    /\ WriterMayLock
    /\ subs' = subs \ {v}
    /\ EndStream(v)
    /\ vpc' = [vpc EXCEPT ![v] = "page"]
    /\ UNCHANGED <<logVars, pageVars>>

ClosePage(v) ==
    /\ v \in Browsers
    /\ vpc[v] = "page"
    /\ vpc' = [vpc EXCEPT ![v] = "away"]
    /\ shown' = [shown EXCEPT ![v] = {}]
    /\ offset' = [offset EXCEPT ![v] = 0]
    /\ more' = [more EXCEPT ![v] = FALSE]
    /\ baseline' = [baseline EXCEPT ![v] = {}]
    /\ UNCHANGED <<logVars, subs, chan, since, missed>>

StreamStep(v) == Receive(v) \/ Cancel(v)

Next ==
    \/ Stamp
    \/ \E r \in Row : LogStep(r)
    \/ \E v \in Viewers :
          \/ LoadPage(v)
          \/ LoadMore(v)
          \/ Subscribe(v)
          \/ StreamStep(v)
          \/ Disconnect(v)
          \/ ClosePage(v)

Spec == Init /\ [][Next]_vars

(* Fairness of the goroutines alone: that a logging goroutine and the      *)
(* handler of a lost connection are scheduled.  Nobody has to read: a      *)
(* browser that hangs keeps its connection and its full channel.           *)
FairSpec ==
    /\ Spec
    /\ \A r \in Row : WF_vars(LogStep(r))
    /\ \A v \in Viewers : WF_vars(Cancel(v))

-----------------------------------------------------------------------------
Buffered(v) == {chan[v][i] : i \in DOMAIN chan[v]}

(* Types; a channel never holds more than its capacity, and what a page    *)
(* counts is bounded by the rows there are.                                *)
TypeOK ==
    /\ stamped \in 0 .. MaxRows
    /\ lpc \in [Row -> LPC]
    /\ todo \in [Row -> SUBSET Viewers]
    /\ table \subseteq Row
    /\ subs \subseteq Viewers
    /\ chan \in [Viewers -> Seq(Row)]
    /\ \A v \in Viewers : Len(chan[v]) <= Capacity
    /\ vpc \in [Viewers -> VPC]
    /\ shown \in [Viewers -> SUBSET Row]
    /\ offset \in [Viewers -> Nat]
    /\ more \in [Viewers -> BOOLEAN]
    /\ baseline \in [Viewers -> SUBSET Row]
    /\ since \in [Viewers -> SUBSET Row]
    /\ missed \in [Viewers -> SUBSET Row]

(* A row that pops up in an open page, or waits to, can be opened: Get     *)
(* finds it, because Insert publishes what it has committed (models.go:70).*)
ShownIsLogged ==
    \A v \in Viewers : shown[v] \cup Buffered(v) \subseteq table

(* A live page has, or is about to get, every row committed since it       *)
(* subscribed, except those that came while its own channel was full: no   *)
(* other viewer's slowness and no concurrent subscription costs it a row.  *)
StreamIsComplete ==
    \A v \in Viewers : vpc[v] = "live" =>
        \A r \in table \ since[v] :
            \/ r \in shown[v] \cup Buffered(v) \cup missed[v]
            \/ lpc[r] = "inserted"
            \/ lpc[r] = "publish" /\ v \in todo[r]

(* When the "Load more" button is gone the page has shown every row that   *)
(* was in the table when it was loaded, however many rows were inserted    *)
(* before, between and behind the pages meanwhile: OFFSET counts from the  *)
(* head of a list that grows there (parseFilter, newLogsData).             *)
PagingSkipsNothing ==
    \A v \in Viewers :
        vpc[v] # "away" /\ ~more[v] => baseline[v] \subseteq shown[v]

(* "once unsubscribed, Publish never sends to ch again" (broadcast.go:31): *)
(* a channel out of subs changes only by being replaced with a new one.    *)
CancelledChannelIsQuiet ==
    [][\A v \in Viewers : v \notin subs => chan'[v] = chan[v] \/ v \in subs']_vars

(* Insert returns, whatever the viewers do with their channels, and a      *)
(* connection that is gone is unsubscribed.                                *)
HandlersReturn ==
    /\ \A r \in Row : lpc[r] = "insert" ~> lpc[r] \in {"done", "failed"}
    /\ \A v \in Viewers : vpc[v] = "leaving" ~> v \notin subs
=============================================================================
