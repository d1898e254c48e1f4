---------------------------- MODULE LiveLogProofs ----------------------------
(***************************************************************************)
(* Proofs about LiveLog: for any viewers, rows, page and channel sizes, a  *)
(* stream loses a row only to its own full channel and gets none twice,    *)
(* the pages of a growing list skip nothing, and Insert runs down.         *)
(***************************************************************************)
EXTENDS LiveLog, FiniteSetTheorems, TLAPS

\* A row is published after it was committed.
PublishedIsLogged ==
    \A r \in Row : lpc[r] \in {"inserted", "publish"} => r \in table

\* Rows that have no time stamp yet have no goroutine either.
StampsAreInOrder == \A r \in Row : r > stamped => lpc[r] = "none"

\* subs holds the viewers whose handler is between Subscribe and Cancel, and no
\* Publish is about to send to anybody else.
SubsAreOpen == \A v \in Viewers : v \in subs <=> vpc[v] \in {"live", "leaving"}
TodoIsSubscribed == \A r \in Row : lpc[r] = "publish" => todo[r] \subseteq subs

\* What a page still owes of its baseline lies behind the next page's offset,
\* however the list has grown, and the button that leads there is shown.
RestIsBehindOffset ==
    \A v \in Viewers : vpc[v] # "away" =>
        \A r \in baseline[v] \ shown[v] :
            r \in table /\ more[v] /\ Cardinality(Newer(r)) >= offset[v]

IInv ==
    /\ TypeOK
    /\ PublishedIsLogged /\ ShownIsLogged
    /\ StampsAreInOrder
    /\ SubsAreOpen /\ TodoIsSubscribed
    /\ StreamIsComplete
    /\ RestIsBehindOffset

\* Rows are finitely many, and ordered as their stamps.
LEMMA RowsAreNumbers == Row \subseteq Nat /\ IsFiniteSet(Row)
  <1>1. MaxRows \in Int /\ 1 \in Int
    BY SizesAssumption
  <1> QED
    BY <1>1, FS_Interval DEF Row

----------------------------------------------------------------------------
(* Ranks in the list                                                       *)

\* How many rows are newer is a number, and grows with the table.
LEMMA RankGrows ==
    ASSUME table \subseteq Row, table' \subseteq Row, table \subseteq table', NEW r \in Row
    PROVE  /\ Cardinality(Newer(r)) \in Nat /\ Cardinality(Newer(r))' \in Nat
           /\ Cardinality(Newer(r))' >= Cardinality(Newer(r))
  <1>1. IsFiniteSet(Newer(r)) /\ IsFiniteSet(Newer(r)')
    BY RowsAreNumbers, FS_Subset DEF Newer
  <1>2. Newer(r) \subseteq Newer(r)'
    BY DEF Newer
  <1> QED
    BY <1>1, <1>2, FS_Subset, FS_CardinalityType

\* Newer rows have a smaller rank.
LEMMA RankIsStrict ==
    ASSUME table \subseteq Row, NEW r \in Row, NEW q \in Newer(r)
    PROVE  /\ Cardinality(Newer(r)) \in Nat /\ Cardinality(Newer(q)) \in Nat
           /\ Cardinality(Newer(q)) < Cardinality(Newer(r))
  <1>1. IsFiniteSet(Newer(r)) /\ IsFiniteSet(Newer(q))
    BY RowsAreNumbers, FS_Subset DEF Newer
  <1>2. /\ r \in Nat /\ q \in Nat /\ q > r
        /\ \A p \in table : p \in Nat
    BY RowsAreNumbers DEF Newer
  <1>4. Newer(q) \subseteq Newer(r) /\ q \in Newer(r) /\ q \notin Newer(q)
    <2>1. ASSUME NEW p \in Newer(q) PROVE p \in Newer(r)
      <3>1. p \in table /\ p > q /\ p \in Nat
        BY <1>2 DEF Newer
      <3>2. p > r
        BY <1>2, <3>1
      <3> QED
        BY <3>1, <3>2 DEF Newer
    <2>2. ~(q > q)
      BY <1>2
    <2> QED
      BY <2>1, <2>2 DEF Newer
  <1>5. Newer(q) # Newer(r)
    BY <1>4
  <1> QED
    BY <1>1, <1>4, <1>5, FS_Subset, FS_CardinalityType

\* Every rank below that of a row belongs to a newer row: distinct newer rows have
\* distinct ranks, and there are as many of them as there are such ranks.
LEMMA EveryRankIsTaken ==
    ASSUME table \subseteq Row, NEW r \in Row,
           NEW k \in Nat, k < Cardinality(Newer(r))
    PROVE  \E q \in Newer(r) : Cardinality(Newer(q)) = k
  <1> DEFINE n == Cardinality(Newer(r))
             ranks == (0 .. (n - 1)) \ {k}
             rank == [q \in Newer(r) |-> Cardinality(Newer(q))]
  <1> SUFFICES ASSUME \A q \in Newer(r) : Cardinality(Newer(q)) # k PROVE FALSE
    OBVIOUS
  <1>1. IsFiniteSet(Newer(r)) /\ n \in Nat
    BY RowsAreNumbers, FS_Subset, FS_CardinalityType DEF Newer
  <1>2. IsFiniteSet(ranks) /\ Cardinality(ranks) = n - 1
    <2>1. IsFiniteSet(0 .. (n - 1)) /\ Cardinality(0 .. (n - 1)) = n
      <3>1. n - 1 \in Int /\ 0 \in Int
        BY <1>1
      <3>2. /\ IsFiniteSet(0 .. (n - 1))
            /\ Cardinality(0 .. (n - 1)) = IF 0 > n - 1 THEN 0 ELSE (n - 1) - 0 + 1
        BY <3>1, FS_Interval
      <3> QED
        BY <1>1, <3>2
    <2>2. k \in 0 .. (n - 1)
      BY <1>1
    <2> QED
      BY <2>1, <2>2, FS_RemoveElement, ZenonT(30)
  <1>3. rank \in [Newer(r) -> ranks]
    <2>1. ASSUME NEW q \in Newer(r) PROVE Cardinality(Newer(q)) \in ranks
      BY <1>1, RankIsStrict
    <2> QED
      BY <2>1
  <1>4. PICK p \in Newer(r), q \in Newer(r) : p # q /\ rank[p] = rank[q]
    <2>1. Cardinality(ranks) < Cardinality(Newer(r))
      BY <1>1, <1>2
    <2> HIDE DEF ranks, rank
    <2> QED
      BY <1>1, <1>2, <1>3, <2>1, FS_PigeonHole
  <1>5. Cardinality(Newer(p)) = Cardinality(Newer(q))
    BY <1>4
  <1>6. p \in Newer(q) \/ q \in Newer(p)
    BY <1>4, RowsAreNumbers DEF Newer
  <1>7. p \in Row /\ q \in Row
    BY DEF Newer
  <1> QED
    BY <1>5, <1>6, <1>7, RankIsStrict

\* A page in front of a row that lies behind it is full.
LEMMA PageIsFull ==
    ASSUME table \subseteq Row, NEW from \in Nat, NEW r \in table,
           Cardinality(Newer(r)) >= from + Limit
    PROVE  Cardinality(Page(from)) = Limit
  <1> DEFINE ranks == from .. (from + Limit - 1)
             rank == [q \in Page(from) |-> Cardinality(Newer(q))]
  <1>1. Limit \in Nat \ {0} /\ r \in Row
    BY SizesAssumption
  <1>2. Cardinality(Newer(r)) \in Nat
    BY RowsAreNumbers, FS_Subset, FS_CardinalityType DEF Newer
  <1>3. IsFiniteSet(Page(from))
    BY RowsAreNumbers, FS_Subset DEF Page
  <1>4. Cardinality(ranks) = Limit
    <2>1. from \in Int /\ from + Limit - 1 \in Int
      BY <1>1
    <2>2. Cardinality(ranks) = IF from > from + Limit - 1 THEN 0
                               ELSE (from + Limit - 1) - from + 1
      BY <2>1, FS_Interval
    <2> QED
      BY <1>1, <2>2
  <1>5. rank \in [Page(from) -> ranks]
    BY DEF Page
  <1>6. ASSUME NEW k \in ranks PROVE \E q \in Page(from) : rank[q] = k
    <2>1. k \in Nat /\ k < Cardinality(Newer(r))
      BY <1>1, <1>2
    <2>2. PICK q \in Newer(r) : Cardinality(Newer(q)) = k
      BY <1>1, <2>1, EveryRankIsTaken
    <2>3. q \in Page(from)
      BY <2>2 DEF Page, Newer
    <2> QED
      BY <2>2, <2>3
  <1>7. ASSUME NEW p \in Page(from), NEW q \in Page(from), rank[p] = rank[q]
        PROVE  p = q
    <2>1. p \in table /\ q \in table /\ p \in Row /\ q \in Row
      BY DEF Page
    <2>2. p \notin Newer(q) /\ q \notin Newer(p)
      BY <1>7, <2>1, RankIsStrict
    <2> QED
      BY <2>1, <2>2, RowsAreNumbers DEF Newer
  <1>8. rank \in Bijection(Page(from), ranks)
    BY <1>5, <1>6, <1>7 DEF Bijection, Injection, Surjection, IsInjective
  <1>9. ExistsBijection(Page(from), ranks)
    BY <1>8 DEF ExistsBijection
  <1> QED
    BY <1>3, <1>4, <1>9, FS_Bijection

----------------------------------------------------------------------------
\* The invariant holds at the start.
LEMMA InitHolds == Init => IInv
  <1> SUFFICES ASSUME Init PROVE IInv
    OBVIOUS
  <1> USE DEF Init
  <1>1. TypeOK
    BY SizesAssumption DEF TypeOK, LPC, VPC
  <1>2. PublishedIsLogged /\ ShownIsLogged /\ StampsAreInOrder
    BY DEF PublishedIsLogged, ShownIsLogged, StampsAreInOrder, Buffered
  <1>3. SubsAreOpen /\ TodoIsSubscribed /\ StreamIsComplete /\ RestIsBehindOffset
    BY DEF SubsAreOpen, TodoIsSubscribed, StreamIsComplete, RestIsBehindOffset
  <1> QED
    BY <1>1, <1>2, <1>3 DEF IInv

\* The goroutines of the rows keep the types.
LEMMA TypeLogStep ==
    ASSUME TypeOK, Stamp \/ \E r \in Row : LogStep(r)
    PROVE  TypeOK'
  <1> USE SizesAssumption DEF TypeOK, LPC, VPC, pageVars
  <1>1. CASE Stamp
    BY <1>1 DEF Stamp, Row
  <1>2. ASSUME NEW r \in Row, Insert(r) PROVE TypeOK'
    BY <1>2 DEF Insert
  <1>3. ASSUME NEW r \in Row, InsertFails(r) PROVE TypeOK'
    BY <1>3 DEF InsertFails
  <1>4. ASSUME NEW r \in Row, BeginPublish(r) PROVE TypeOK'
    BY <1>4 DEF BeginPublish
  <1>5. ASSUME NEW r \in Row, NEW v \in Viewers, SendTo(r, v) PROVE TypeOK'
    <2>1. CASE ~Full(v) /\ chan' = [chan EXCEPT ![v] = Append(@, r)] /\ UNCHANGED missed
      <3>1. /\ chan[v] \in Seq(Row)
            /\ Append(chan[v], r) \in Seq(Row)
            /\ Len(Append(chan[v], r)) = Len(chan[v]) + 1
        OBVIOUS
      <3>2. Len(chan[v]) + 1 <= Capacity
        BY <2>1, <3>1 DEF Full
      <3>3. chan' \in [Viewers -> Seq(Row)] /\ \A w \in Viewers : Len(chan'[w]) <= Capacity
        BY <2>1, <3>1, <3>2
      <3> QED
        BY <1>5, <2>1, <3>3 DEF SendTo
    <2>2. CASE Full(v) /\ missed' = [missed EXCEPT ![v] = @ \cup {r}] /\ UNCHANGED chan
      BY <1>5, <2>2 DEF SendTo
    <2> QED
      BY <1>5, <2>1, <2>2 DEF SendTo
  <1>6. ASSUME NEW r \in Row, EndPublish(r) PROVE TypeOK'
    BY <1>6 DEF EndPublish
  <1> QED
    BY <1>1, <1>2, <1>3, <1>4, <1>5, <1>6 DEF LogStep

ViewerStep(v) ==
    \/ LoadPage(v) \/ LoadMore(v) \/ Subscribe(v) \/ Receive(v)
    \/ Disconnect(v) \/ Cancel(v) \/ ClosePage(v)

\* So do the viewers and their handlers.
LEMMA TypeViewerStep ==
    ASSUME TypeOK, NEW v \in Viewers, ViewerStep(v)
    PROVE  TypeOK'
  <1> USE SizesAssumption DEF TypeOK, LPC, VPC, pageVars, logVars
  <1>0. \A from : Page(from) \subseteq Row
    BY DEF Page
  <1>1. CASE LoadPage(v)
    BY <1>0, <1>1 DEF LoadPage, HasMore
  <1>2. CASE LoadMore(v)
    BY <1>0, <1>2 DEF LoadMore, HasMore
  <1>3. CASE Subscribe(v)
    BY <1>3 DEF Subscribe
  <1>4. CASE Receive(v)
    <2>1. /\ chan[v] \in Seq(Row) /\ Head(chan[v]) \in Row
          /\ Tail(chan[v]) \in Seq(Row) /\ Len(Tail(chan[v])) = Len(chan[v]) - 1
      BY <1>4 DEF Receive
    <2>2. chan' \in [Viewers -> Seq(Row)] /\ \A w \in Viewers : Len(chan'[w]) <= Capacity
      BY <1>4, <2>1 DEF Receive
    <2>3. shown[v] \cup {Head(chan[v])} \in SUBSET Row
      BY <2>1
    <2>4. shown' \in [Viewers -> SUBSET Row]
      BY <1>4, <2>3 DEF Receive
    <2> QED
      BY <1>4, <2>2, <2>4 DEF Receive
  <1>5. CASE Disconnect(v)
    BY <1>5 DEF Disconnect
  <1>6. CASE Cancel(v)
    BY <1>6 DEF Cancel, EndStream
  <1>7. CASE ClosePage(v)
    BY <1>7 DEF ClosePage
  <1> QED
    BY <1>1, <1>2, <1>3, <1>4, <1>5, <1>6, <1>7 DEF ViewerStep

\* Next, with the steps of a viewer grouped.
LEMMA NextIsByActor ==
    Next <=> \/ Stamp \/ \E r \in Row : LogStep(r)
             \/ \E v \in Viewers : ViewerStep(v)
  BY DEF Next, ViewerStep, StreamStep

\* Every step keeps the types.
LEMMA TypeStep ==
    ASSUME TypeOK, [Next]_vars
    PROVE  TypeOK'
  <1>1. CASE UNCHANGED vars
    BY <1>1 DEF TypeOK, vars, logVars, pageVars
  <1>2. CASE Next
    BY <1>2, NextIsByActor, TypeLogStep, TypeViewerStep
  <1> QED
    BY <1>1, <1>2

\* Rows are committed before they are published, and stamped before that.
LEMMA LoggedStep ==
    ASSUME IInv, [Next]_vars
    PROVE  PublishedIsLogged' /\ StampsAreInOrder'
  <1> USE DEF IInv, TypeOK, PublishedIsLogged, StampsAreInOrder
  <1>1. CASE Stamp
    BY <1>1 DEF Stamp, Row
  <1>2. ASSUME NEW r \in Row, LogStep(r) PROVE PublishedIsLogged' /\ StampsAreInOrder'
    BY <1>2 DEF LogStep, Insert, InsertFails, BeginPublish, SendTo, EndPublish
  <1>3. ASSUME NEW v \in Viewers, ViewerStep(v)
        PROVE  PublishedIsLogged' /\ StampsAreInOrder'
    BY <1>3 DEF ViewerStep, LoadPage, LoadMore, Subscribe, Receive, Disconnect,
                Cancel, ClosePage, logVars
  <1>4. CASE UNCHANGED vars
    BY <1>4 DEF vars, logVars
  <1> QED
    BY <1>1, <1>2, <1>3, <1>4, NextIsByActor

\* Subscriptions come and go while nobody publishes.
LEMMA SubsStep ==
    ASSUME IInv, [Next]_vars
    PROVE  SubsAreOpen' /\ TodoIsSubscribed'
  <1> USE DEF IInv, TypeOK, SubsAreOpen, TodoIsSubscribed
  <1>1. CASE Stamp
    BY <1>1 DEF Stamp, Row
  <1>2. ASSUME NEW r \in Row, LogStep(r) PROVE SubsAreOpen' /\ TodoIsSubscribed'
    <2>1. UNCHANGED <<subs, vpc>>
      BY <1>2 DEF LogStep, Insert, InsertFails, BeginPublish, SendTo, EndPublish
    <2>2. CASE Insert(r) \/ InsertFails(r) \/ EndPublish(r)
      BY <2>1, <2>2 DEF Insert, InsertFails, EndPublish
    <2>3. CASE BeginPublish(r)
      BY <2>1, <2>3 DEF BeginPublish
    <2>4. ASSUME NEW v \in Viewers, SendTo(r, v)
          PROVE  SubsAreOpen' /\ TodoIsSubscribed'
      BY <2>1, <2>4 DEF SendTo
    <2> QED
      BY <1>2, <2>2, <2>3, <2>4 DEF LogStep
  <1>3. ASSUME NEW v \in Viewers, ViewerStep(v)
        PROVE  SubsAreOpen' /\ TodoIsSubscribed'
    BY <1>3, ZenonT(30) DEF ViewerStep, LoadPage, LoadMore, Subscribe, Receive, Disconnect,
                Cancel, ClosePage, logVars, VPC, WriterMayLock, Publishers
  <1>4. CASE UNCHANGED vars
    BY <1>4 DEF vars, logVars
  <1> QED
    BY <1>1, <1>2, <1>3, <1>4, NextIsByActor

\* What a receive takes from the channel it gives to the page.
LEMMA BufferedAfterTail ==
    ASSUME NEW s \in Seq(Row), s # << >>
    PROVE  {s[i] : i \in DOMAIN s} = {Head(s)} \cup {Tail(s)[i] : i \in DOMAIN Tail(s)}
  <1>1. /\ Len(s) \in Nat \ {0} /\ DOMAIN s = 1 .. Len(s) /\ Head(s) = s[1]
        /\ DOMAIN Tail(s) = 1 .. (Len(s) - 1)
        /\ \A i \in 1 .. (Len(s) - 1) : Tail(s)[i] = s[i + 1]
    OBVIOUS
  <1>2. ASSUME NEW i \in 1 .. Len(s)
        PROVE  s[i] \in {Head(s)} \cup {Tail(s)[j] : j \in DOMAIN Tail(s)}
    <2>1. CASE i = 1
      BY <1>1, <2>1
    <2>2. CASE i # 1
      <3>1. i - 1 \in 1 .. (Len(s) - 1) /\ Tail(s)[i - 1] = s[(i - 1) + 1]
        BY <1>1, <2>2
      <3>2. (i - 1) + 1 = i
        OBVIOUS
      <3> QED
        BY <1>1, <3>1, <3>2
    <2> QED
      BY <2>1, <2>2
  <1>3. ASSUME NEW j \in 1 .. (Len(s) - 1) PROVE Tail(s)[j] \in {s[i] : i \in 1 .. Len(s)}
    BY <1>1
  <1>4. Head(s) \in {s[i] : i \in 1 .. Len(s)}
    BY <1>1
  <1> QED
    BY <1>1, <1>2, <1>3, <1>4

\* A send adds its row to what a channel holds.
LEMMA BufferedAfterAppend ==
    ASSUME NEW s \in Seq(Row), NEW r \in Row
    PROVE  {Append(s, r)[i] : i \in DOMAIN Append(s, r)} = {s[i] : i \in DOMAIN s} \cup {r}
  <1>1. /\ Len(s) \in Nat /\ DOMAIN s = 1 .. Len(s)
        /\ DOMAIN Append(s, r) = 1 .. (Len(s) + 1)
        /\ Append(s, r)[Len(s) + 1] = r
        /\ \A i \in 1 .. Len(s) : Append(s, r)[i] = s[i]
    OBVIOUS
  <1>2. ASSUME NEW i \in 1 .. (Len(s) + 1)
        PROVE  Append(s, r)[i] \in {s[j] : j \in DOMAIN s} \cup {r}
    BY <1>1
  <1>3. ASSUME NEW j \in 1 .. Len(s)
        PROVE  s[j] \in {Append(s, r)[i] : i \in 1 .. (Len(s) + 1)}
    BY <1>1
  <1>4. r \in {Append(s, r)[i] : i \in 1 .. (Len(s) + 1)}
    BY <1>1
  <1> QED
    BY <1>1, <1>2, <1>3, <1>4

\* A send buffers its row or counts it missed, for the one viewer it is meant for.
LEMMA SendBuffers ==
    ASSUME TypeOK, NEW r \in Row, NEW v \in Viewers, SendTo(r, v)
    PROVE  /\ \A w \in Viewers \ {v} : Buffered(w)' = Buffered(w)
           /\ \A w \in Viewers : missed[w] \subseteq missed'[w]
           /\ Buffered(v) \subseteq Buffered(v)'
           /\ Buffered(v)' \subseteq Buffered(v) \cup {r}
           /\ r \in Buffered(v)' \cup missed'[v]
  <1> USE DEF TypeOK
  <1>1. CASE ~Full(v) /\ chan' = [chan EXCEPT ![v] = Append(@, r)] /\ UNCHANGED missed
    <2>1. chan'[v] = Append(chan[v], r) /\ \A w \in Viewers \ {v} : chan'[w] = chan[w]
      BY <1>1
    <2>2. Buffered(v)' = Buffered(v) \cup {r}
      <3>1. chan[v] \in Seq(Row)
        OBVIOUS
      <3>2. Buffered(v)' = {Append(chan[v], r)[i] : i \in DOMAIN Append(chan[v], r)}
        BY <2>1 DEF Buffered
      <3> QED
        BY <3>1, <3>2, BufferedAfterAppend DEF Buffered
    <2>3. \A w \in Viewers \ {v} : Buffered(w)' = Buffered(w)
      BY <2>1 DEF Buffered
    <2> QED
      BY <1>1, <2>2, <2>3
  <1>2. CASE Full(v) /\ missed' = [missed EXCEPT ![v] = @ \cup {r}] /\ UNCHANGED chan
    <2>1. \A w \in Viewers : Buffered(w)' = Buffered(w)
      BY <1>2 DEF Buffered
    <2> QED
      BY <1>2, <2>1
  <1> QED
    BY <1>1, <1>2 DEF SendTo

\* A receive takes the head of the viewer's own channel.
LEMMA ReceiveTakes ==
    ASSUME TypeOK, NEW v \in Viewers, Receive(v)
    PROVE  /\ \A w \in Viewers \ {v} : Buffered(w)' = Buffered(w)
           /\ Buffered(v) = {Head(chan[v])} \cup Buffered(v)'
  <1>1. /\ chan[v] \in Seq(Row) /\ chan[v] # << >> /\ chan'[v] = Tail(chan[v])
        /\ \A w \in Viewers \ {v} : chan'[w] = chan[w]
    BY DEF TypeOK, Receive
  <1> QED
    BY <1>1, BufferedAfterTail DEF Buffered

\* Whatever is shown or buffered has been logged.
LEMMA ShownStep ==
    ASSUME IInv, [Next]_vars
    PROVE  ShownIsLogged'
  <1> USE DEF IInv, ShownIsLogged
  <1>1. CASE Stamp
    BY <1>1 DEF Stamp, pageVars, Buffered
  <1>2. ASSUME NEW r \in Row, LogStep(r) PROVE ShownIsLogged'
    <2>1. CASE Insert(r)
      BY <2>1 DEF Insert, pageVars, Buffered
    <2>2. CASE InsertFails(r) \/ BeginPublish(r) \/ EndPublish(r)
      BY <2>2 DEF InsertFails, BeginPublish, EndPublish, pageVars, Buffered
    <2>3. ASSUME NEW v \in Viewers, SendTo(r, v) PROVE ShownIsLogged'
      <3>1. r \in table /\ UNCHANGED <<table, shown>>
        BY <2>3 DEF SendTo, PublishedIsLogged, pageVars
      <3> QED
        BY <2>3, <3>1, SendBuffers
    <2> QED
      BY <1>2, <2>1, <2>2, <2>3 DEF LogStep
  <1>3. ASSUME NEW v \in Viewers, ViewerStep(v) PROVE ShownIsLogged'
    <2>0. UNCHANGED table
      BY <1>3 DEF ViewerStep, LoadPage, LoadMore, Subscribe, Receive, Disconnect,
                  Cancel, ClosePage, logVars
    <2>1. CASE LoadPage(v) \/ LoadMore(v) \/ Disconnect(v) \/ ClosePage(v)
      <3>1. UNCHANGED chan
        BY <2>1 DEF LoadPage, LoadMore, Disconnect, ClosePage
      <3>2. \A w \in Viewers : shown'[w] \subseteq shown[w] \cup table
        <4>1. \A from : Page(from) \subseteq table
          BY DEF Page
        <4>2. PICK S : S \subseteq shown[v] \cup table /\ shown' = [shown EXCEPT ![v] = S]
          <5>0. DOMAIN shown = Viewers /\ shown = [w \in Viewers |-> shown[w]]
            BY DEF TypeOK
          <5>1. CASE LoadPage(v)
            BY <4>1, <5>1 DEF LoadPage
          <5>2. CASE LoadMore(v)
            BY <4>1, <5>2 DEF LoadMore
          <5>3. CASE Disconnect(v)
            <6>1. shown' = shown
              BY <5>3 DEF Disconnect, pageVars
            <6>2. shown = [shown EXCEPT ![v] = shown[v]]
              BY <5>0
            <6> QED
              BY <6>1, <6>2
          <5>4. CASE ClosePage(v)
            BY <5>4 DEF ClosePage
          <5> QED
            BY <2>1, <5>1, <5>2, <5>3, <5>4
        <4>3. DOMAIN shown = Viewers
          BY DEF TypeOK
        <4> QED
          BY <4>2, <4>3
      <3> QED
        BY <2>0, <3>1, <3>2 DEF Buffered
    <2>2. CASE Subscribe(v) \/ Cancel(v)
      <3>1. chan' = [chan EXCEPT ![v] = << >>] /\ UNCHANGED shown
        BY <2>2 DEF Subscribe, Cancel, EndStream, pageVars
      <3>2. Buffered(v)' = {} /\ \A w \in Viewers \ {v} : Buffered(w)' = Buffered(w)
        BY <3>1 DEF TypeOK, Buffered
      <3> QED
        BY <2>0, <3>1, <3>2
    <2>3. CASE Receive(v)
      <3>1. \A w \in Viewers : shown'[w] \subseteq shown[w] \cup Buffered(w)
        <4>1. Head(chan[v]) \in Buffered(v)
          BY <2>3, ReceiveTakes
        <4>2. shown' = shown \/ shown' = [shown EXCEPT ![v] = @ \cup {Head(chan[v])}]
          BY <2>3 DEF Receive
        <4>3. DOMAIN shown = Viewers
          BY DEF TypeOK
        <4>4. ASSUME NEW w \in Viewers PROVE shown'[w] \subseteq shown[w] \cup Buffered(w)
          <5>1. CASE w = v
            BY <4>1, <4>2, <4>3, <5>1
          <5>2. CASE w # v
            BY <4>2, <4>3, <5>2
          <5> QED
            BY <5>1, <5>2
        <4> QED
          BY <4>4
      <3> QED
        BY <2>0, <2>3, <3>1, ReceiveTakes
    <2> QED
      BY <1>3, <2>1, <2>2, <2>3 DEF ViewerStep
  <1>4. CASE UNCHANGED vars
    BY <1>4 DEF vars, logVars, pageVars, Buffered
  <1> QED
    BY <1>1, <1>2, <1>3, <1>4, NextIsByActor

\* The four ways a row stands with a viewer whose stream owes it.
Accounted(v, r) ==
    \/ r \in shown[v] \cup Buffered(v) \cup missed[v]
    \/ lpc[r] = "inserted"
    \/ lpc[r] = "publish" /\ v \in todo[r]

\* A row owed to a stream stays accounted for.
LEMMA StreamStepKeeps ==
    ASSUME IInv, [Next]_vars
    PROVE  StreamIsComplete'
  <1> SUFFICES ASSUME NEW w \in Viewers, vpc'[w] = "live",
                      NEW q \in table' \ since'[w]
               PROVE  Accounted(w, q)'
    BY DEF StreamIsComplete, Accounted
  <1> USE DEF IInv, TypeOK
  <1>0. vpc[w] = "live" /\ q \in table \ since[w] => Accounted(w, q)
    BY DEF StreamIsComplete, Accounted
  <1>1. CASE Stamp
    <2>1. lpc[stamped + 1] = "none"
      <3>1. stamped + 1 \in Row /\ stamped + 1 > stamped
        BY <1>1, SizesAssumption DEF Stamp, Row
      <3> QED
        BY <3>1 DEF StampsAreInOrder
    <2> QED
      BY <1>0, <1>1, <2>1 DEF Stamp, Accounted, pageVars, Buffered
  <1>2. ASSUME NEW r \in Row, LogStep(r) PROVE Accounted(w, q)'
    <2>0. UNCHANGED <<vpc, since, shown>>
      BY <1>2 DEF LogStep, Insert, InsertFails, BeginPublish, SendTo, EndPublish, pageVars
    <2>1. CASE Insert(r)
      BY <1>0, <2>0, <2>1 DEF Insert, Accounted, Buffered
    <2>2. CASE InsertFails(r)
      BY <1>0, <2>0, <2>2 DEF InsertFails, Accounted, Buffered
    <2>3. CASE BeginPublish(r)
      <3>1. w \in subs
        BY <2>0 DEF SubsAreOpen
      <3> QED
        BY <1>0, <2>0, <2>3, <3>1 DEF BeginPublish, Accounted, Buffered
    <2>4. ASSUME NEW v \in Viewers, SendTo(r, v) PROVE Accounted(w, q)'
      <3>0. UNCHANGED <<lpc, table>> /\ todo' = [todo EXCEPT ![r] = @ \ {v}]
        BY <2>4 DEF SendTo
      <3>1. Accounted(w, q)
        BY <1>0, <2>0, <3>0
      <3>2. CASE q = r /\ w = v
        BY <2>4, <3>2, SendBuffers DEF Accounted
      <3>3. CASE q # r \/ w # v
        <4>1. Buffered(w) \subseteq Buffered(w)' /\ missed[w] \subseteq missed'[w]
          BY <2>4, SendBuffers
        <4>2. lpc[q] = "publish" /\ w \in todo[q] => w \in todo'[q]
          BY <3>0, <3>3
        <4> QED
          BY <2>0, <3>0, <3>1, <4>1, <4>2 DEF Accounted
      <3> QED
        BY <3>2, <3>3
    <2>5. CASE EndPublish(r)
      BY <1>0, <2>0, <2>5 DEF EndPublish, Accounted, Buffered
    <2> QED
      BY <1>2, <2>1, <2>2, <2>3, <2>4, <2>5 DEF LogStep
  <1>3. ASSUME NEW v \in Viewers, ViewerStep(v) PROVE Accounted(w, q)'
    <2>0. UNCHANGED <<table, lpc, todo>>
      BY <1>3 DEF ViewerStep, LoadPage, LoadMore, Subscribe, Receive, Disconnect,
                  Cancel, ClosePage, logVars
    <2>1. CASE LoadPage(v) \/ Disconnect(v) \/ ClosePage(v)
      <3>1. v # w
        BY <2>1 DEF LoadPage, Disconnect, ClosePage
      <3>2. /\ vpc[w] = "live" /\ UNCHANGED <<since, missed, chan>>
            /\ shown'[w] = shown[w]
        BY <2>1, <3>1 DEF LoadPage, Disconnect, ClosePage, pageVars
      <3> QED
        BY <1>0, <2>0, <3>2 DEF Accounted, Buffered
    <2>2. CASE LoadMore(v)
      <3>1. /\ vpc[w] = "live" /\ UNCHANGED <<since, missed, chan>>
            /\ shown[w] \subseteq shown'[w]
        BY <2>2 DEF LoadMore
      <3> QED
        BY <1>0, <2>0, <3>1 DEF Accounted, Buffered
    <2>3. CASE Subscribe(v) \/ Cancel(v)
      <3>1. v # w
        BY <2>0, <2>3 DEF Subscribe, Cancel
      <3>2. /\ vpc[w] = "live" /\ since'[w] = since[w] /\ missed'[w] = missed[w]
            /\ chan'[w] = chan[w] /\ shown'[w] = shown[w]
        BY <2>3, <3>1 DEF Subscribe, Cancel, EndStream, pageVars
      <3> QED
        BY <1>0, <2>0, <3>2 DEF Accounted, Buffered
    <2>4. CASE Receive(v)
      <3>1. vpc[w] = "live" /\ UNCHANGED <<since, missed>>
        BY <2>4 DEF Receive
      <3>2. shown[w] \cup Buffered(w) \subseteq shown'[w] \cup Buffered(w)'
        <4>1. CASE v = w
          BY <2>4, <3>1, <4>1, ReceiveTakes DEF Receive
        <4>2. CASE v # w
          BY <2>4, <4>2, ReceiveTakes DEF Receive
        <4> QED
          BY <4>1, <4>2
      <3> QED
        BY <1>0, <2>0, <3>1, <3>2 DEF Accounted
    <2> QED
      BY <1>3, <2>1, <2>2, <2>3, <2>4 DEF ViewerStep
  <1>4. CASE UNCHANGED vars
    BY <1>0, <1>4 DEF vars, logVars, pageVars, Accounted, Buffered
  <1> QED
    BY <1>1, <1>2, <1>3, <1>4, NextIsByActor

\* Unless a page is loaded, paged or closed, its rest only sinks.
LEMMA RestSinks ==
    ASSUME IInv, NEW w \in Viewers, table \subseteq table', table' \subseteq Row,
           baseline'[w] = baseline[w], more'[w] = more[w], offset'[w] = offset[w],
           shown[w] \subseteq shown'[w], vpc[w] # "away",
           NEW q \in baseline'[w] \ shown'[w]
    PROVE  q \in table' /\ more'[w] /\ Cardinality(Newer(q))' >= offset'[w]
  <1>1. q \in table /\ more[w] /\ Cardinality(Newer(q)) >= offset[w]
    BY DEF IInv, RestIsBehindOffset
  <1>2. q \in Row /\ table \subseteq Row /\ offset[w] \in Nat
    BY <1>1 DEF IInv, TypeOK
  <1>3. /\ Cardinality(Newer(q)) \in Nat /\ Cardinality(Newer(q))' \in Nat
        /\ Cardinality(Newer(q))' >= Cardinality(Newer(q))
    BY <1>2, RankGrows
  <1> QED
    BY <1>1, <1>2, <1>3

\* What a page does not show of the rows from an offset on lies behind it, and
\* there is a button.
LEMMA RestBehindPage ==
    ASSUME table \subseteq Row, NEW from \in Nat, NEW q \in table,
           Cardinality(Newer(q)) >= from, q \notin Page(from)
    PROVE  HasMore(Page(from)) /\ Cardinality(Newer(q)) >= from + Limit
  <1>1. Cardinality(Newer(q)) \in Nat
    BY RowsAreNumbers, FS_Subset, FS_CardinalityType DEF Newer
  <1>2. Cardinality(Newer(q)) \notin from .. (from + Limit - 1)
    BY DEF Page
  <1>3. Cardinality(Newer(q)) >= from + Limit
    BY <1>1, <1>2, SizesAssumption
  <1> QED
    BY <1>3, PageIsFull DEF HasMore

\* Inserts push the rest of a baseline back, page loads stop in front of it.
LEMMA PagingStep ==
    ASSUME IInv, [Next]_vars, TypeOK'
    PROVE  RestIsBehindOffset'
  <1> SUFFICES ASSUME NEW w \in Viewers, vpc'[w] # "away",
                      NEW q \in baseline'[w] \ shown'[w]
               PROVE  q \in table' /\ more'[w] /\ Cardinality(Newer(q))' >= offset'[w]
    BY DEF RestIsBehindOffset
  <1>0. TypeOK /\ table \subseteq Row /\ table' \subseteq Row
    BY DEF IInv, TypeOK
  <1>1. CASE Stamp \/ \E r \in Row : LogStep(r)
    <2>1. UNCHANGED <<vpc, pageVars>> /\ table \subseteq table'
      BY <1>1 DEF Stamp, LogStep, Insert, InsertFails, BeginPublish, SendTo, EndPublish
    <2> QED
      BY <1>0, <2>1, RestSinks DEF pageVars
  <1>2. ASSUME NEW v \in Viewers, ViewerStep(v)
        PROVE  q \in table' /\ more'[w] /\ Cardinality(Newer(q))' >= offset'[w]
    <2>0. table' = table /\ Newer(q)' = Newer(q)
      BY <1>2 DEF ViewerStep, LoadPage, LoadMore, Subscribe, Receive, Disconnect,
                  Cancel, ClosePage, logVars, Newer
    <2>1. CASE LoadPage(v) /\ v = w
      <3>1. /\ q \in table /\ q \notin Page(0)
            /\ offset'[w] = Limit /\ more'[w] = HasMore(Page(0))
        BY <1>0, <2>1 DEF LoadPage, TypeOK
      <3>2. Cardinality(Newer(q)) \in Nat
        BY <1>0, RowsAreNumbers, FS_Subset, FS_CardinalityType DEF Newer
      <3>3. HasMore(Page(0)) /\ Cardinality(Newer(q)) >= 0 + Limit
        BY <1>0, <3>1, <3>2, RestBehindPage
      <3> QED
        BY <2>0, <3>1, <3>3, SizesAssumption
    <2>2. CASE LoadMore(v) /\ v = w
      <3>1. /\ q \in baseline[w] \ shown[w] /\ q \notin Page(offset[w])
            /\ offset'[w] = offset[w] + Limit /\ more'[w] = HasMore(Page(offset[w]))
            /\ vpc[w] # "away" /\ offset[w] \in Nat
        BY <1>0, <2>2 DEF LoadMore, TypeOK
      <3>2. q \in table /\ Cardinality(Newer(q)) >= offset[w]
        BY <3>1 DEF IInv, RestIsBehindOffset
      <3>3. HasMore(Page(offset[w])) /\ Cardinality(Newer(q)) >= offset[w] + Limit
        BY <1>0, <3>1, <3>2, RestBehindPage
      <3> QED
        BY <2>0, <3>1, <3>2, <3>3
    <2>3. CASE ClosePage(v) /\ v = w
      BY <1>0, <2>3 DEF ClosePage, TypeOK
    <2>4. CASE /\ LoadPage(v) \/ LoadMore(v) \/ ClosePage(v)
               /\ v # w
      <3>1. /\ baseline'[w] = baseline[w] /\ more'[w] = more[w]
            /\ offset'[w] = offset[w] /\ shown'[w] = shown[w] /\ vpc'[w] = vpc[w]
        BY <1>0, <2>4 DEF LoadPage, LoadMore, ClosePage, TypeOK
      <3> QED
        BY <1>0, <2>0, <3>1, RestSinks
    <2>5. CASE Subscribe(v) \/ Disconnect(v) \/ Cancel(v)
      <3>1. UNCHANGED pageVars /\ vpc[w] # "away"
        BY <1>0, <2>5 DEF Subscribe, Disconnect, Cancel, TypeOK
      <3> QED
        BY <1>0, <2>0, <3>1, RestSinks DEF pageVars
    <2>6. CASE Receive(v)
      <3>1. /\ UNCHANGED <<vpc, baseline, more, offset>>
            /\ shown' = shown \/ shown' = [shown EXCEPT ![v] = @ \cup {Head(chan[v])}]
        BY <2>6 DEF Receive
      <3>2. shown[w] \subseteq shown'[w]
        BY <1>0, <3>1, ZenonT(30) DEF TypeOK
      <3> QED
        BY <1>0, <2>0, <3>1, <3>2, RestSinks
    <2> QED
      BY <1>2, <2>1, <2>2, <2>3, <2>4, <2>5, <2>6 DEF ViewerStep
  <1>3. CASE UNCHANGED vars
    <2>1. UNCHANGED <<vpc, pageVars, table>>
      BY <1>3 DEF vars, logVars
    <2> QED
      BY <1>0, <2>1, RestSinks DEF pageVars
  <1> QED
    BY <1>1, <1>2, <1>3, NextIsByActor

----------------------------------------------------------------------------
\* IInv is inductive: types, what is published has been committed, subs follows the
\* handlers, and what viewers are owed is accounted for.
THEOREM Invariance == Spec => []IInv
  <1>1. ASSUME IInv, [Next]_vars PROVE IInv'
    <2>1. TypeOK'
      BY <1>1, TypeStep DEF IInv
    <2> QED
      BY <1>1, <2>1, LoggedStep, SubsStep, ShownStep, StreamStepKeeps, PagingStep DEF IInv
  <1> QED
    BY <1>1, InitHolds, PTL DEF Spec

\* Types of the log, its viewers and their channels (store/broadcast.go:18: a
\* channel holds at most as many rows as it has places).
THEOREM TypeCorrect == Spec => []TypeOK
  BY Invariance, PTL DEF IInv

\* For any number of rows and viewers, a row in an open page or on its way to it is
\* in the table (Insert publishes after its Exec, store/models.go:47-75).
THEOREM ShownRowsAreLogged == Spec => []ShownIsLogged
  BY Invariance, PTL DEF IInv

\* A live stream loses a row only when its own channel is full, for any capacity
\* and whatever the other viewers do (Publish, store/broadcast.go:36-45).
THEOREM StreamsAreComplete == Spec => []StreamIsComplete
  BY Invariance, PTL DEF IInv

\* OFFSET paging skips no row of the table that the page was loaded from, for any
\* page size and any order of commits (newLogsData, dashboard/server.go:190).
THEOREM PagesSkipNothing == Spec => []PagingSkipsNothing
  <1>1. IInv => PagingSkipsNothing
    BY DEF IInv, TypeOK, RestIsBehindOffset, PagingSkipsNothing
  <1> QED
    BY <1>1, Invariance, PTL

\* No Publish sends to a channel that is out of subs (store/broadcast.go:29-31).
THEOREM CancelledChannelsAreQuiet == Spec => CancelledChannelIsQuiet
  <1> DEFINE Quiet == \A v \in Viewers : v \notin subs => chan'[v] = chan[v] \/ v \in subs'
  <1>1. ASSUME IInv, [Next]_vars PROVE [Quiet]_vars
    <2> SUFFICES ASSUME NEW w \in Viewers, w \notin subs
                 PROVE  chan'[w] = chan[w] \/ w \in subs'
      OBVIOUS
    <2>0. TypeOK /\ TodoIsSubscribed /\ vpc[w] \notin {"live", "leaving"}
      BY <1>1 DEF IInv, SubsAreOpen
    <2>1. CASE Stamp \/ UNCHANGED vars
      BY <2>1 DEF Stamp, vars
    <2>2. ASSUME NEW r \in Row, LogStep(r) PROVE chan'[w] = chan[w]
      <3>1. CASE Insert(r) \/ InsertFails(r) \/ BeginPublish(r) \/ EndPublish(r)
        BY <3>1 DEF Insert, InsertFails, BeginPublish, EndPublish
      <3>2. ASSUME NEW v \in Viewers, SendTo(r, v) PROVE chan'[w] = chan[w]
        <4>1. v # w
          BY <2>0, <3>2 DEF SendTo, TodoIsSubscribed
        <4> QED
          BY <2>0, <3>2, <4>1 DEF SendTo, TypeOK
      <3> QED
        BY <2>2, <3>1, <3>2 DEF LogStep
    <2>3. ASSUME NEW v \in Viewers, ViewerStep(v)
          PROVE  chan'[w] = chan[w] \/ w \in subs'
      <3>1. CASE Subscribe(v)
        BY <2>0, <3>1 DEF Subscribe, TypeOK
      <3>2. CASE Receive(v) \/ Cancel(v)
        BY <2>0, <3>2 DEF Receive, Cancel, EndStream, TypeOK
      <3>3. CASE LoadPage(v) \/ LoadMore(v) \/ Disconnect(v) \/ ClosePage(v)
        BY <3>3 DEF LoadPage, LoadMore, Disconnect, ClosePage
      <3> QED
        BY <2>3, <3>1, <3>2, <3>3 DEF ViewerStep
    <2> QED
      BY <1>1, <2>1, <2>2, <2>3, NextIsByActor
  <1> QED
    BY <1>1, Invariance, PTL DEF Spec, CancelledChannelIsQuiet

----------------------------------------------------------------------------
(* A row comes once                                                        *)

\* What is in a channel has been sent to its viewer, and is not about to be again.
SentIsSent ==
    \A v \in Viewers : \A r \in Buffered(v) :
        lpc[r] = "done" \/ (lpc[r] = "publish" /\ v \notin todo[r])

\* No channel holds a row twice: a row is sent to a viewer once, however many rows
\* are published at a time and whoever subscribes or leaves meanwhile.
RowsComeOnce ==
    \A v \in Viewers : \A i, j \in DOMAIN chan[v] : chan[v][i] = chan[v][j] => i = j

\* What a step may do to the channel of a viewer.
LEMMA ChannelStep ==
    ASSUME TypeOK, [Next]_vars, NEW w \in Viewers
    PROVE  \/ chan'[w] \in {chan[w], << >>}
           \/ chan[w] # << >> /\ chan'[w] = Tail(chan[w])
           \/ \E r \in Row : SendTo(r, w) /\ chan'[w] = Append(chan[w], r)
  <1> USE DEF TypeOK
  <1>1. CASE Stamp \/ UNCHANGED vars
    BY <1>1 DEF Stamp, vars
  <1>2. ASSUME NEW r \in Row, LogStep(r)
        PROVE  chan'[w] = chan[w] \/ (SendTo(r, w) /\ chan'[w] = Append(chan[w], r))
    <2>1. CASE Insert(r) \/ InsertFails(r) \/ BeginPublish(r) \/ EndPublish(r)
      BY <2>1 DEF Insert, InsertFails, BeginPublish, EndPublish
    <2>2. ASSUME NEW v \in Viewers, SendTo(r, v)
          PROVE  chan'[w] = chan[w] \/ (SendTo(r, w) /\ chan'[w] = Append(chan[w], r))
      <3>1. chan' = chan \/ chan' = [chan EXCEPT ![v] = Append(@, r)]
        BY <2>2 DEF SendTo
      <3>2. CASE v = w
        BY <2>2, <3>1, <3>2
      <3>3. CASE v # w
        BY <3>1, <3>3
      <3> QED
        BY <3>2, <3>3
    <2> QED
      BY <1>2, <2>1, <2>2 DEF LogStep
  <1>3. ASSUME NEW v \in Viewers, ViewerStep(v)
        PROVE  \/ chan'[w] \in {chan[w], << >>}
               \/ chan[w] # << >> /\ chan'[w] = Tail(chan[w])
    <2>1. CASE LoadPage(v) \/ LoadMore(v) \/ Disconnect(v) \/ ClosePage(v)
      BY <2>1 DEF LoadPage, LoadMore, Disconnect, ClosePage
    <2>2. CASE Subscribe(v) \/ Cancel(v)
      BY <2>2 DEF Subscribe, Cancel, EndStream
    <2>3. CASE Receive(v)
      BY <2>3 DEF Receive
    <2> QED
      BY <1>3, <2>1, <2>2, <2>3 DEF ViewerStep
  <1> QED
    BY <1>1, <1>2, <1>3, NextIsByActor

\* A row on its way through the goroutine is not sent before, nor again after.
LEMMA SentStep == IInv /\ SentIsSent /\ [Next]_vars => SentIsSent'
  <1> SUFFICES ASSUME IInv, SentIsSent, [Next]_vars,
                      NEW w \in Viewers, NEW q \in Buffered(w)'
               PROVE  lpc'[q] = "done" \/ (lpc'[q] = "publish" /\ w \notin todo'[q])
    BY DEF SentIsSent
  <1>t. TypeOK'
    BY TypeStep DEF IInv
  <1> DEFINE Sent == lpc[q] = "done" \/ (lpc[q] = "publish" /\ w \notin todo[q])
  <1>0. TypeOK /\ chan[w] \in Seq(Row)
    BY DEF IInv, TypeOK
  <1>1a. q \in Row
    BY <1>t DEF TypeOK, Buffered
  <1>1. q \in Buffered(w) \/ SendTo(q, w)
    <2>1. CASE chan'[w] = chan[w]
      BY <2>1 DEF Buffered
    <2>2. CASE chan'[w] = << >>
      BY <2>2 DEF Buffered
    <2>3. CASE chan[w] # << >> /\ chan'[w] = Tail(chan[w])
      BY <1>0, <2>3, BufferedAfterTail DEF Buffered
    <2>4. ASSUME NEW r \in Row, SendTo(r, w), chan'[w] = Append(chan[w], r)
          PROVE  q \in Buffered(w) \/ SendTo(q, w)
      <3>1. q \in Buffered(w) \cup {r}
        BY <1>0, <2>4, SendBuffers
      <3> QED
        BY <2>4, <3>1
    <2> QED
      BY <1>0, <2>1, <2>2, <2>3, <2>4, ChannelStep
  <1>2. CASE SendTo(q, w)
    <2>1. q \in Row
      BY <1>1a
    <2> QED
      BY <1>0, <1>2, <2>1 DEF SendTo, TypeOK
  <1>3. CASE q \in Buffered(w) /\ ~SendTo(q, w)
    <2>1. q \in Row /\ Sent
      BY <1>0, <1>3 DEF Buffered, SentIsSent
    <2>2. CASE Stamp
      <3>1. stamped + 1 \in Row /\ lpc[stamped + 1] = "none"
        BY <2>2, SizesAssumption DEF Stamp, Row, IInv, TypeOK, StampsAreInOrder
      <3> QED
        BY <1>0, <2>1, <2>2, <3>1 DEF Stamp, TypeOK
    <2>3. ASSUME NEW r \in Row, LogStep(r)
          PROVE  lpc'[q] = "done" \/ (lpc'[q] = "publish" /\ w \notin todo'[q])
      BY <1>0, <2>1, <2>3
         DEF LogStep, Insert, InsertFails, BeginPublish, SendTo, EndPublish, TypeOK
    <2>4. CASE UNCHANGED <<lpc, todo>>
      BY <2>1, <2>4
    <2>5. (\E v \in Viewers : ViewerStep(v)) \/ UNCHANGED vars => UNCHANGED <<lpc, todo>>
      BY DEF ViewerStep, LoadPage, LoadMore, Subscribe, Receive, Disconnect, Cancel,
             ClosePage, logVars, vars
    <2> QED
      BY <2>2, <2>3, <2>4, <2>5, NextIsByActor
  <1> QED
    BY <1>1, <1>2, <1>3

\* Publish ranges once over a map that does not change under its lock, so that no row
\* is streamed twice (store/broadcast.go:36-45).
THEOREM RowsAreSentOnce == Spec => []RowsComeOnce
  <1>1. Init => SentIsSent /\ RowsComeOnce
    BY DEF Init, SentIsSent, RowsComeOnce, Buffered
  <1>2. ASSUME IInv, SentIsSent, RowsComeOnce, [Next]_vars
        PROVE  RowsComeOnce'
    <2> SUFFICES ASSUME NEW w \in Viewers, NEW i \in DOMAIN chan'[w], NEW j \in DOMAIN chan'[w],
                        chan'[w][i] = chan'[w][j]
                 PROVE  i = j
      BY DEF RowsComeOnce
    <2>0. TypeOK /\ chan[w] \in Seq(Row) /\ Len(chan[w]) \in Nat
      BY <1>2 DEF IInv, TypeOK
    <2>1. \A k, m \in 1 .. Len(chan[w]) : chan[w][k] = chan[w][m] => k = m
      BY <1>2, <2>0 DEF RowsComeOnce
    <2>2. CASE chan'[w] = chan[w]
      BY <2>0, <2>1, <2>2
    <2>3. CASE chan'[w] = << >>
      BY <2>3
    <2>4. CASE chan[w] # << >> /\ chan'[w] = Tail(chan[w])
      <3>1. /\ i \in 1 .. (Len(chan[w]) - 1) /\ j \in 1 .. (Len(chan[w]) - 1)
            /\ chan'[w][i] = chan[w][i + 1] /\ chan'[w][j] = chan[w][j + 1]
        BY <2>0, <2>4
      <3>2. i + 1 \in 1 .. Len(chan[w]) /\ j + 1 \in 1 .. Len(chan[w])
        BY <2>0, <3>1
      <3>3. chan[w][i + 1] = chan[w][j + 1]
        BY <3>1
      <3>4. i + 1 = j + 1
        BY <2>1, <3>2, <3>3
      <3> QED
        BY <3>1, <3>4
    <2>5. ASSUME NEW r \in Row, SendTo(r, w), chan'[w] = Append(chan[w], r)
          PROVE  i = j
      <3>1. \A k \in 1 .. Len(chan[w]) : chan[w][k] # r
        <4>1. r \notin Buffered(w)
          BY <1>2, <2>5 DEF SentIsSent, SendTo
        <4> QED
          BY <2>0, <4>1 DEF Buffered
      <3>2. /\ DOMAIN chan'[w] = 1 .. (Len(chan[w]) + 1)
            /\ chan'[w][Len(chan[w]) + 1] = r
            /\ \A k \in 1 .. Len(chan[w]) : chan'[w][k] = chan[w][k]
        BY <2>0, <2>5
      <3>3. i \in 1 .. (Len(chan[w]) + 1) /\ j \in 1 .. (Len(chan[w]) + 1)
        BY <3>2
      <3>4. CASE i \in 1 .. Len(chan[w]) /\ j \in 1 .. Len(chan[w])
        <4>1. chan[w][i] = chan[w][j]
          BY <3>2, <3>4
        <4> QED
          BY <2>1, <3>4, <4>1
      <3>5. CASE i = Len(chan[w]) + 1 /\ j \in 1 .. Len(chan[w])
        BY <3>1, <3>2, <3>5
      <3>6. CASE i \in 1 .. Len(chan[w]) /\ j = Len(chan[w]) + 1
        BY <3>1, <3>2, <3>6
      <3> QED
        BY <2>0, <3>3, <3>4, <3>5, <3>6
    <2> QED
      BY <1>2, <2>0, <2>2, <2>3, <2>4, <2>5, ChannelStep
  <1> QED
    BY <1>1, <1>2, SentStep, Invariance, PTL DEF Spec

----------------------------------------------------------------------------
(* How long Insert can take                                                *)

\* The most steps the goroutine of a row still takes.
StepsLeft(r) ==
    IF lpc[r] = "none" THEN Cardinality(Viewers) + 4
    ELSE IF lpc[r] = "insert" THEN Cardinality(Viewers) + 3
    ELSE IF lpc[r] = "inserted" THEN Cardinality(Viewers) + 2
    ELSE IF lpc[r] = "publish" THEN Cardinality(todo[r]) + 1
    ELSE 0

\* What is left is a number, and a Publish has no more sends to do than there are
\* viewers.
LEMMA StepsAreCounted ==
    ASSUME TypeOK, NEW r \in Row
    PROVE  /\ IsFiniteSet(todo[r]) /\ Cardinality(todo[r]) \in Nat
           /\ Cardinality(Viewers) \in Nat /\ StepsLeft(r) \in Nat
           /\ \A S \in SUBSET Viewers : Cardinality(S) <= Cardinality(Viewers)
  <1>1. todo[r] \in SUBSET Viewers
    BY DEF TypeOK
  <1>2. /\ \A S \in SUBSET Viewers :
              IsFiniteSet(S) /\ Cardinality(S) <= Cardinality(Viewers) /\ Cardinality(S) \in Nat
        /\ Cardinality(Viewers) \in Nat
    BY ViewersAssumption, FS_Subset, FS_CardinalityType
  <1> QED
    BY <1>1, <1>2 DEF StepsLeft

\* Each step of the goroutine is one fewer to come.
LEMMA LogStepFalls ==
    ASSUME TypeOK, NEW r \in Row, LogStep(r)
    PROVE  StepsLeft(r)' < StepsLeft(r)
  <1>0. lpc \in [Row -> LPC] /\ todo \in [Row -> SUBSET Viewers]
    BY DEF TypeOK
  <1>a. /\ IsFiniteSet(todo[r]) /\ Cardinality(todo[r]) \in Nat /\ Cardinality(Viewers) \in Nat
        /\ \A S \in SUBSET Viewers : Cardinality(S) <= Cardinality(Viewers)
    BY StepsAreCounted
  <1>1. CASE Insert(r) \/ InsertFails(r)
    <2>1. lpc[r] = "insert" /\ lpc'[r] \in {"inserted", "failed"}
      BY <1>0, <1>1 DEF Insert, InsertFails
    <2> QED
      BY <1>a, <2>1 DEF StepsLeft
  <1>2. CASE BeginPublish(r)
    <2>1. lpc[r] = "inserted" /\ lpc'[r] = "publish" /\ todo'[r] = subs
      BY <1>0, <1>2 DEF BeginPublish
    <2>2. subs \in SUBSET Viewers
      BY DEF TypeOK
    <2>3. Cardinality(subs) \in Nat /\ Cardinality(subs) <= Cardinality(Viewers)
      BY <1>a, <2>2, ViewersAssumption, FS_Subset, FS_CardinalityType
    <2> QED
      BY <1>a, <2>1, <2>3 DEF StepsLeft
  <1>3. ASSUME NEW v \in Viewers, SendTo(r, v) PROVE StepsLeft(r)' < StepsLeft(r)
    <2>1. lpc[r] = "publish" /\ lpc'[r] = "publish" /\ v \in todo[r] /\ todo'[r] = todo[r] \ {v}
      BY <1>0, <1>3 DEF SendTo
    <2>2. Cardinality(todo[r] \ {v}) = Cardinality(todo[r]) - 1
      BY <1>a, <2>1, FS_RemoveElement
    <2> QED
      BY <1>a, <2>1, <2>2 DEF StepsLeft
  <1>4. CASE EndPublish(r)
    <2>1. lpc[r] = "publish" /\ lpc'[r] = "done"
      BY <1>0, <1>4 DEF EndPublish
    <2> QED
      BY <1>a, <2>1 DEF StepsLeft
  <1> QED
    BY <1>1, <1>2, <1>3, <1>4 DEF LogStep

\* Nobody else adds to it: other goroutines and viewers leave it alone, the handler
\* that stamps the row starts it.
LEMMA OthersKeepSteps ==
    ASSUME IInv, [Next]_vars, NEW q \in Row, ~LogStep(q)
    PROVE  StepsLeft(q)' <= StepsLeft(q)
  <1>0. TypeOK /\ lpc \in [Row -> LPC] /\ todo \in [Row -> SUBSET Viewers]
    BY DEF IInv, TypeOK
  <1>a. Cardinality(Viewers) \in Nat /\ StepsLeft(q) \in Nat
    BY <1>0, StepsAreCounted
  <1>b. ASSUME lpc'[q] = lpc[q], todo'[q] = todo[q] PROVE StepsLeft(q)' <= StepsLeft(q)
    <2>1. StepsLeft(q)' = StepsLeft(q)
      BY <1>b DEF StepsLeft
    <2> QED
      BY <1>a, <2>1
  <1>1. CASE Stamp
    <2>1. CASE q = stamped + 1
      <3>1. lpc[q] = "none"
        BY <1>0, <2>1 DEF IInv, TypeOK, StampsAreInOrder
      <3>2. lpc'[q] = "insert"
        BY <1>0, <1>1, <2>1 DEF Stamp
      <3> QED
        BY <1>a, <3>1, <3>2 DEF StepsLeft
    <2>2. CASE q # stamped + 1
      BY <1>0, <1>1, <1>b, <2>2 DEF Stamp
    <2> QED
      BY <2>1, <2>2
  <1>2. ASSUME NEW r \in Row, LogStep(r) PROVE StepsLeft(q)' <= StepsLeft(q)
    <2>1. r # q
      BY <1>2
    <2>2. lpc'[q] = lpc[q] /\ todo'[q] = todo[q]
      BY <1>0, <1>2, <2>1 DEF LogStep, Insert, InsertFails, BeginPublish, SendTo, EndPublish
    <2> QED
      BY <1>b, <2>2
  <1>3. ASSUME NEW v \in Viewers, ViewerStep(v) PROVE StepsLeft(q)' <= StepsLeft(q)
    <2>1. UNCHANGED <<lpc, todo>>
      BY <1>3 DEF ViewerStep, LoadPage, LoadMore, Subscribe, Receive, Disconnect, Cancel,
                  ClosePage, logVars
    <2> QED
      BY <1>b, <2>1
  <1>4. CASE UNCHANGED vars
    BY <1>4, <1>b DEF vars, logVars
  <1> QED
    BY <1>1, <1>2, <1>3, <1>4, NextIsByActor

\* What is left to do of a row is a number that nobody raises and each step of its
\* goroutine lowers.
RunsDown ==
    [][\A r \in Row :
          /\ StepsLeft(r) \in 0 .. (Cardinality(Viewers) + 4)
          /\ StepsLeft(r)' <= StepsLeft(r)
          /\ LogStep(r) => StepsLeft(r)' < StepsLeft(r)]_vars

\* Insert and its Publish end within four steps and one for each viewer, however
\* slow, however many and however busy the viewers are: no step of a goroutine
\* waits for a reader, and the map it ranges over does not grow under it
\* (store/models.go:47-75, store/broadcast.go:36-45).
THEOREM LoggersRunDown == Spec => RunsDown
  <1>1. ASSUME IInv, [Next]_vars, NEW r \in Row
        PROVE  /\ StepsLeft(r) \in 0 .. (Cardinality(Viewers) + 4)
               /\ StepsLeft(r)' <= StepsLeft(r)
               /\ LogStep(r) => StepsLeft(r)' < StepsLeft(r)
    <2>0. TypeOK /\ TypeOK'
      BY <1>1, TypeStep DEF IInv
    <2>1. StepsLeft(r) \in Nat /\ StepsLeft(r)' \in Nat
      <3>1. todo'[r] \in SUBSET Viewers
        BY <2>0 DEF TypeOK
      <3>2. Cardinality(todo'[r]) \in Nat /\ Cardinality(Viewers) \in Nat
        BY <3>1, ViewersAssumption, FS_Subset, FS_CardinalityType
      <3> QED
        BY <2>0, <3>2, StepsAreCounted DEF StepsLeft
    <2>2. StepsLeft(r) <= Cardinality(Viewers) + 4
      <3>1. todo[r] \in SUBSET Viewers
        BY <2>0 DEF TypeOK
      <3>2. /\ Cardinality(todo[r]) \in Nat /\ Cardinality(Viewers) \in Nat
            /\ Cardinality(todo[r]) <= Cardinality(Viewers)
        BY <2>0, <3>1, StepsAreCounted
      <3> QED
        BY <3>2 DEF StepsLeft
    <2>3. LogStep(r) => StepsLeft(r)' < StepsLeft(r)
      BY <2>0, LogStepFalls
    <2>4. ~LogStep(r) => StepsLeft(r)' <= StepsLeft(r)
      BY <1>1, OthersKeepSteps
    <2> QED
      BY <2>1, <2>2, <2>3, <2>4
  <1>2. IInv /\ [Next]_vars =>
          [\A r \in Row :
              /\ StepsLeft(r) \in 0 .. (Cardinality(Viewers) + 4)
              /\ StepsLeft(r)' <= StepsLeft(r)
              /\ LogStep(r) => StepsLeft(r)' < StepsLeft(r)]_vars
    BY <1>1
  <1> QED
    BY <1>2, Invariance, PTL DEF Spec, RunsDown
=============================================================================
