------------------------- MODULE PricingCacheProofs -------------------------
(* Proofs about PricingCache for any numbers of goroutines and of writes.   *)
EXTENDS PricingCache, TLAPS

CallerStates == {"idle", "check", "lock", "query", "reading", "store", "failed"}
EditorStates == {"idle", "write", "exec", "wrote"}

\* mu is held exactly from the double check to the end of refreshCache, and the
\* connection exactly while rows are read or an Exec runs.
Holding ==
    /\ \A t \in Callers :
          /\ pc[t] \in CallerStates
          /\ pc[t] \in {"query", "reading", "store", "failed"} => mu = t
          /\ mu = t => pc[t] \in {"query", "reading", "store", "failed"}
          /\ conn = t => pc[t] = "reading"
    /\ \A e \in Editors :
          /\ pc[e] \in EditorStates
          /\ conn = e => pc[e] = "exec"

\* Nothing remembers a version the table does not have yet.
Past ==
    /\ acked <= version
    /\ cache <= version
    /\ \A t \in Callers : floor[t] <= acked /\ snap[t] <= version

\* A refresh in flight has not been overtaken: between its read and its store no
\* edit is acknowledged, because InvalidateCache needs the lock it holds.
InFlightIsCurrent ==
    \A t \in Callers :
        pc[t] \in {"reading", "store"} => snap[t] >= acked /\ snap[t] >= cache

\* FreshIsCurrent alone is not inductive: StoreCache preserves it only if what it
\* stores is current, which needs the lock discipline of Holding.
IInv == TypeOK /\ Holding /\ Past /\ InFlightIsCurrent /\ FreshIsCurrent

\* At start nobody holds anything and the cache is nil.
LEMMA InitIInv == Init => IInv
<1> SUFFICES ASSUME Init PROVE IInv
  OBVIOUS
<1> USE ThreadsAssumption, BoundAssumption DEF Init, Threads, Versions, NoTable
<1>1. TypeOK
  <2>1. MaxVersion \in Nat /\ 1 \in 1..MaxVersion /\ 0 \in 0..MaxVersion
    BY SMT
  <2>2. fresh \in BOOLEAN
    BY Zenon
  <2>3. QED
    BY <2>1, <2>2 DEF TypeOK
<1>2. Holding
  BY DEF Holding, CallerStates, EditorStates
<1>3. Past /\ InFlightIsCurrent /\ FreshIsCurrent
  BY DEF Past, InFlightIsCurrent, FreshIsCurrent, CacheIsUsable
<1>4. QED
  BY <1>1, <1>2, <1>3 DEF IInv

\* Every step keeps the variables in their types.
LEMMA TypeStep == ASSUME TypeOK, Next PROVE TypeOK'
<1> USE ThreadsAssumption, BoundAssumption
    DEF TypeOK, Threads, Versions, NoTable, Go
<1>1. ASSUME NEW t \in Callers, Calculate(t) PROVE TypeOK'
  BY <1>1 DEF Calculate
<1>2. ASSUME NEW t \in Callers, GetCache(t) PROVE TypeOK'
  BY <1>2 DEF GetCache
<1>3. ASSUME NEW t \in Callers, LockAndRecheck(t) PROVE TypeOK'
  BY <1>3 DEF LockAndRecheck
<1>4. ASSUME NEW t \in Callers, QueryRows(t) PROVE TypeOK'
  BY <1>4 DEF QueryRows
<1>5. ASSUME NEW t \in Callers, CloseRows(t) PROVE TypeOK'
  BY <1>5 DEF CloseRows
<1>6. ASSUME NEW t \in Callers, StoreCache(t) PROVE TypeOK'
  BY <1>6 DEF StoreCache
<1>7. ASSUME NEW t \in Callers, ServeStale(t) PROVE TypeOK'
  BY <1>7 DEF ServeStale
<1>8. ASSUME NEW e \in Editors, BeginEdit(e) PROVE TypeOK'
  BY <1>8 DEF BeginEdit
<1>9. ASSUME NEW e \in Editors, AcquireConn(e) PROVE TypeOK'
  BY <1>9 DEF AcquireConn
<1>10. ASSUME NEW e \in Editors, Exec(e) PROVE TypeOK'
  BY <1>10 DEF Exec
<1>11. ASSUME NEW e \in Editors, InvalidateCache(e) PROVE TypeOK'
  BY <1>11 DEF InvalidateCache
<1>12. CASE Expire
  BY <1>12 DEF Expire
<1>13. QED
  BY <1>1, <1>2, <1>3, <1>4, <1>5, <1>6, <1>7, <1>8, <1>9, <1>10, <1>11, <1>12
  DEF Next, CallerStep, EditorStep

\* Every step keeps the rest of the invariant.
LEMMA NextIInv == ASSUME IInv, Next PROVE IInv'
<1>0. TypeOK'
  BY TypeStep DEF IInv
<1> DEFINE Rest == Holding /\ Past /\ InFlightIsCurrent /\ FreshIsCurrent
<1> USE <1>0, ThreadsAssumption, BoundAssumption
    DEF IInv, TypeOK, Threads, Versions, NoTable, Go, Holding, CallerStates,
        EditorStates, Past, InFlightIsCurrent, FreshIsCurrent, CacheIsUsable
<1>1. ASSUME NEW t \in Callers, Calculate(t) PROVE Rest'
  BY <1>1 DEF Calculate
<1>2. ASSUME NEW t \in Callers, GetCache(t) PROVE Rest'
  BY <1>2 DEF GetCache
<1>3. ASSUME NEW t \in Callers, LockAndRecheck(t) PROVE Rest'
  BY <1>3 DEF LockAndRecheck
<1>4. ASSUME NEW t \in Callers, QueryRows(t) PROVE Rest'
  BY <1>4 DEF QueryRows
<1>5. ASSUME NEW t \in Callers, CloseRows(t) PROVE Rest'
  BY <1>5 DEF CloseRows
<1>6. ASSUME NEW t \in Callers, StoreCache(t) PROVE Rest'
  BY <1>6 DEF StoreCache
<1>7. ASSUME NEW t \in Callers, ServeStale(t) PROVE Rest'
  BY <1>7 DEF ServeStale
<1>8. ASSUME NEW e \in Editors, BeginEdit(e) PROVE Rest'
  BY <1>8 DEF BeginEdit
<1>9. ASSUME NEW e \in Editors, AcquireConn(e) PROVE Rest'
  BY <1>9 DEF AcquireConn
<1>10. ASSUME NEW e \in Editors, Exec(e) PROVE Rest'
  BY <1>10 DEF Exec
<1>11. ASSUME NEW e \in Editors, InvalidateCache(e) PROVE Rest'
  BY <1>11 DEF InvalidateCache
<1>12. CASE Expire
  BY <1>12 DEF Expire
<1>13. QED
  BY <1>1, <1>2, <1>3, <1>4, <1>5, <1>6, <1>7, <1>8, <1>9, <1>10, <1>11, <1>12
  DEF Next, CallerStep, EditorStep

\* What a lookup returns when it ends other than by a failed refresh, in any
\* state the invariant describes.
LEMMA ReadStep ==
  ASSUME IInv, [Next]_vars, NEW t \in Callers,
         pc[t] \in {"check", "lock", "store"}, pc'[t] = "idle"
  PROVE  result'[t] >= floor[t]
<1> USE ThreadsAssumption, BoundAssumption
    DEF IInv, TypeOK, Threads, Versions, NoTable, Go, Past, InFlightIsCurrent,
        FreshIsCurrent, CacheIsUsable, Holding, CallerStates, EditorStates
<1>1. CASE UNCHANGED vars
  BY <1>1 DEF vars
<1>2. ASSUME NEW u \in Callers, Calculate(u) \/ CallerStep(u)
      PROVE  result'[t] >= floor[t]
  <2>1. u = t
    BY <1>2 DEF Calculate, CallerStep, GetCache, LockAndRecheck, QueryRows,
                CloseRows, StoreCache, ServeStale
  <2>2. GetCache(t) \/ LockAndRecheck(t) \/ StoreCache(t)
    BY <1>2, <2>1 DEF Calculate, CallerStep, QueryRows, CloseRows, ServeStale
  <2>3. QED
    BY <2>2 DEF GetCache, LockAndRecheck, StoreCache
<1>3. ASSUME NEW e \in Editors, BeginEdit(e) \/ EditorStep(e) PROVE FALSE
  BY <1>3 DEF BeginEdit, EditorStep, AcquireConn, Exec, InvalidateCache
<1>4. CASE Expire
  BY <1>4 DEF Expire
<1>5. QED
  BY <1>1, <1>2, <1>3, <1>4 DEF Next

\* The cache changes only in StoreCache, whose snapshot is not older than it.
LEMMA CacheStep == ASSUME IInv, [Next]_vars PROVE cache' >= cache
<1> USE DEF IInv, TypeOK, Versions
<1>1. CASE cache' = cache
  BY <1>1, BoundAssumption
<1>2. ASSUME NEW t \in Callers, StoreCache(t) PROVE cache' >= cache
  BY <1>2 DEF StoreCache, InFlightIsCurrent, Go
<1>3. QED
  BY <1>1, <1>2
  DEF Next, vars, Calculate, CallerStep, GetCache, LockAndRecheck, QueryRows,
      CloseRows, ServeStale, BeginEdit, EditorStep, AcquireConn, Exec,
      InvalidateCache, Expire

\* Every step of the code is a step of the register, or none.
LEMMA RegisterStep ==
  ASSUME IInv, IInv', [Next]_vars
  PROVE  [Register!Next]_(Register!vars)
<1> USE ThreadsAssumption, BoundAssumption
    DEF IInv, TypeOK, Threads, Versions, NoTable, Go, Past, InFlightIsCurrent,
        FreshIsCurrent, CacheIsUsable, Holding, CallerStates, EditorStates,
        ReaderState
<1> DEFINE Same == UNCHANGED <<version, acked, floor, result>>
<1>1. ASSUME UNCHANGED pc, Same PROVE UNCHANGED Register!vars
  BY <1>1 DEF Register!vars
<1>2. ASSUME NEW t \in Callers, Calculate(t) PROVE Register!Ask(t)
  BY <1>2 DEF Calculate, Register!Ask, Register!Become
<1>3. ASSUME NEW t \in Callers, NEW from \in {"check", "lock", "store"}, Go(t, from, "idle"),
             NEW v \in floor[t]..version, result' = [result EXCEPT ![t] = v],
             UNCHANGED <<version, acked, floor>>
      PROVE  Register!Answer(t)
  BY <1>3 DEF Register!Answer, Register!Become
<1>4. ASSUME NEW t \in Callers, NEW from \in CallerStates \ {"idle", "failed"},
             NEW to \in CallerStates \ {"idle", "failed"}, Go(t, from, to), Same
      PROVE  UNCHANGED Register!vars
  BY <1>4 DEF Register!vars
<1>5. ASSUME NEW e \in Editors, NEW to \in EditorStates, pc' = [pc EXCEPT ![e] = to]
      PROVE  UNCHANGED [t \in Callers |-> ReaderState(t)]
  BY <1>5
<1>6. ASSUME NEW t \in Callers, CallerStep(t) PROVE [Register!Next]_(Register!vars)
  <2>1. ASSUME CacheIsUsable, GetCache(t) \/ LockAndRecheck(t) PROVE Register!Answer(t)
    <3>1. cache \in floor[t]..version
      BY <2>1
    <3>2. QED
      BY <1>3, <2>1, <3>1 DEF GetCache, LockAndRecheck
  <2>2. ASSUME ~CacheIsUsable, GetCache(t) \/ LockAndRecheck(t)
        PROVE  UNCHANGED Register!vars
    BY <1>4, <2>2 DEF GetCache, LockAndRecheck
  <2>3. CASE QueryRows(t)
    BY <1>4, <2>3 DEF QueryRows
  <2>4. CASE CloseRows(t)
    <3>1. CASE pc'[t] = "store"
      BY <1>4, <2>4, <3>1 DEF CloseRows
    <3>2. CASE pc'[t] = "failed"
      <4>1. Register!CannotRead(t)
        BY <2>4, <3>2 DEF CloseRows, Register!CannotRead, Register!Become
      <4>2. QED
        BY <4>1 DEF Register!Next
    <3>3. QED
      BY <2>4, <3>1, <3>2 DEF CloseRows
  <2>5. CASE StoreCache(t)
    <3>1. snap[t] \in floor[t]..version
      BY <2>5 DEF StoreCache
    <3>2. Register!Answer(t)
      BY <1>3, <2>5, <3>1 DEF StoreCache
    <3>3. QED
      BY <3>2 DEF Register!Next
  <2>6. CASE ServeStale(t)
    <3>1. cache \in 0..version
      OBVIOUS
    <3>2. Register!AnswerStale(t)
      BY <2>6, <3>1 DEF ServeStale, Register!AnswerStale, Register!Become
    <3>3. QED
      BY <3>2 DEF Register!Next
  <2>7. QED
    BY <1>6, <2>1, <2>2, <2>3, <2>4, <2>5, <2>6 DEF CallerStep, Register!Next
<1>7. ASSUME NEW e \in Editors, BeginEdit(e) \/ EditorStep(e)
      PROVE  [Register!Next]_(Register!vars)
  <2>1. CASE BeginEdit(e) \/ AcquireConn(e)
    BY <1>5, <2>1 DEF BeginEdit, AcquireConn, Register!vars
  <2>2. CASE Exec(e)
    <3>1. CASE version' = version + 1
      <4>1. Register!Edit
        BY <1>5, <2>2, <3>1 DEF Exec, Register!Edit
      <4>2. QED
        BY <4>1 DEF Register!Next
    <3>2. CASE UNCHANGED version
      BY <1>5, <2>2, <3>2 DEF Exec, Register!vars
    <3>3. QED
      BY <2>2, <3>1, <3>2 DEF Exec
  <2>3. CASE InvalidateCache(e)
    <3>1. Register!Acknowledge
      BY <1>5, <2>3 DEF InvalidateCache, Register!Acknowledge
    <3>2. QED
      BY <3>1 DEF Register!Next
  <2>4. QED
    BY <1>7, <2>1, <2>2, <2>3 DEF EditorStep
<1>8. CASE Expire \/ UNCHANGED vars
  BY <1>1, <1>8 DEF Expire, vars
<1>9. QED
  BY <1>2, <1>6, <1>7, <1>8 DEF Next, Register!Next

----------------------------------------------------------------------------
\* The invariant holds throughout every behaviour.
THEOREM Invariance == Spec => []IInv
<1>1. IInv /\ UNCHANGED vars => IInv'
  BY DEF IInv, TypeOK, Holding, Past, InFlightIsCurrent, FreshIsCurrent,
         CacheIsUsable, vars
<1>2. QED
  BY InitIInv, NextIInv, <1>1, PTL DEF Spec

\* The variables of the cache, its locks and the goroutines keep their types.
THEOREM TypeCorrect == Spec => []TypeOK
<1>1. IInv => TypeOK
  BY DEF IInv
<1>2. QED
  BY Invariance, <1>1, PTL

\* No acknowledged edit is missing from a cache served as fresh, for any number
\* of concurrent lookups and edits (cost.go getCache, refreshCache and
\* InvalidateCache).
THEOREM FreshCacheIsCurrent == Spec => []FreshIsCurrent
<1>1. IInv => FreshIsCurrent
  BY DEF IInv
<1>2. QED
  BY Invariance, <1>1, PTL

\* mu and the database connection are only ever nested in one order.
THEOREM LocksAreOrdered == Spec => []LockOrder
<1>1. IInv => LockOrder
  BY DEF IInv, Holding, LockOrder
<1>2. QED
  BY Invariance, <1>1, PTL

\* A lookup begun after an edit was acknowledged sees that edit, unless its own
\* read of the table failed.
THEOREM LookupsReadAcknowledgedEdits == Spec => ReadYourWrites
<1>1. IInv /\ [Next]_vars =>
        [\A t \in Callers :
           (pc[t] \in {"check", "lock", "store"} /\ pc'[t] = "idle")
               => result'[t] >= floor[t]]_vars
  BY ReadStep
<1>2. QED
  BY Invariance, <1>1, PTL DEF Spec, ReadYourWrites

\* The cached table never moves to an older version.
THEOREM CacheIsMonotone == Spec => CacheMovesForward
<1>1. IInv /\ [Next]_vars => [cache' >= cache]_cache
  BY CacheStep
<1>2. QED
  BY Invariance, <1>1, PTL DEF Spec, CacheMovesForward

\* PricingCache implements PriceRegister: for any numbers of lookups, edits and
\* refreshes, and at whatever moments the TTL passes, the cache is a register with
\* regular reads that may answer with an older table only after a failed read.
THEOREM CacheImplementsRegister == Spec => ImplementsRegister
<1>1. Init => Register!Init
  BY DEF Init, Register!Init, NoTable, Threads, ReaderState
<1>2. IInv /\ IInv' /\ [Next]_vars => [Register!Next]_(Register!vars)
  BY RegisterStep
<1>3. QED
  BY Invariance, <1>1, <1>2, PTL DEF Spec, ImplementsRegister, Register!Spec

----------------------------------------------------------------------------
(* Who waits for whom                                                      *)

\* t cannot take its next step because u holds what it needs: c.mu (RLock waits for a
\* writer, Lock for anybody) or the database connection.
WaitsFor(t, u) ==
    \/ pc[t] \in {"check", "lock", "wrote"} /\ mu = u
    \/ pc[t] \in {"query", "write"} /\ conn = u

\* Somebody at the end of every wait is not waiting: a goroutine that waits for the
\* lock waits for the refresh of a caller; that one may wait for the connection, but
\* who holds the connection is reading rows or in its Exec, and waits for nobody.
WaitsEnd ==
    \A t, u \in Threads : WaitsFor(t, u) =>
        /\ pc[u] \in {"query", "reading", "store", "failed", "exec"}
        /\ \A v \in Threads : WaitsFor(u, v) =>
              pc[u] = "query" /\ \A w \in Threads : ~WaitsFor(v, w)

\* No circle of waits: LockOrder's discipline rules out that lookups and edits lock
\* each other up, for any number of them (the mutex of metrics/cost.go, and the one
\* connection of store/db.go).
THEOREM WaitsAreNotCircular == Spec => []WaitsEnd
<1>1. ASSUME IInv, NEW t \in Threads, NEW u \in Threads, WaitsFor(t, u)
      PROVE  \/ u \in Callers /\ pc[u] \in {"query", "store", "failed"} /\ mu = u
             \/ pc[u] \in {"reading", "exec"}
  <2>1. CASE mu = u
    <3>1. u \in Callers
      BY <1>1, <2>1, ThreadsAssumption DEF IInv, TypeOK, Threads
    <3>2. QED
      BY <1>1, <2>1, <3>1 DEF IInv, Holding
  <2>2. CASE conn = u
    BY <1>1, <2>2 DEF IInv, Holding, Threads
  <2>3. QED
    BY <1>1, <2>1, <2>2 DEF WaitsFor
<1>2. ASSUME IInv, NEW u \in Threads, NEW v \in Threads, WaitsFor(u, v), pc[u] = "query"
      PROVE  pc[v] \in {"reading", "exec"}
  <2>1. conn = v
    BY <1>2 DEF WaitsFor
  <2>2. QED
    BY <1>2, <2>1 DEF IInv, Holding, Threads
<1>3. ASSUME NEW v \in Threads, pc[v] \in {"reading", "exec", "store", "failed"}
      PROVE  \A w \in Threads : ~WaitsFor(v, w)
  BY <1>3 DEF WaitsFor
<1>4. ASSUME IInv, NEW t \in Threads, NEW u \in Threads, WaitsFor(t, u)
      PROVE  /\ pc[u] \in {"query", "reading", "store", "failed", "exec"}
             /\ \A v \in Threads : WaitsFor(u, v) =>
                   pc[u] = "query" /\ \A w \in Threads : ~WaitsFor(v, w)
  <2>1. pc[u] \in {"query", "reading", "store", "failed", "exec"}
    BY <1>1, <1>4
  <2>2. ASSUME NEW v \in Threads, WaitsFor(u, v)
        PROVE  pc[u] = "query" /\ \A w \in Threads : ~WaitsFor(v, w)
    <3>1. pc[u] = "query"
      BY <1>3, <2>1, <2>2
    <3>2. pc[v] \in {"reading", "exec"}
      BY <1>2, <1>4, <2>2, <3>1
    <3>3. QED
      BY <1>3, <3>1, <3>2
  <2>3. QED
    BY <2>1, <2>2
<1>5. IInv => WaitsEnd
  BY <1>4 DEF WaitsEnd
<1>6. QED
  BY Invariance, <1>5, PTL
=============================================================================
