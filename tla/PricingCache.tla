---------------------------- MODULE PricingCache ----------------------------
(***************************************************************************)
(* The in-memory pricing cache of metrics/cost.go, shared by the request   *)
(* goroutines that cost a response and by the dashboard handlers that edit *)
(* the model_pricing table.                                                *)
(*                                                                         *)
(* The table is one number, the count of writes it has seen; the cache is  *)
(* the version of the table it was loaded from.  Two resources are taken   *)
(* in order: CostCalculator.mu (mu), and the only connection of the        *)
(* database pool (conn; store/db.go sets SetMaxOpenConns(1)).  mu is a     *)
(* RWMutex: its read sections contain no blocking call and are one step,   *)
(* enabled when nobody holds it for writing.                               *)
(*                                                                         *)
(* The clock is abstracted to the one question the code asks of it: fresh  *)
(* is  time.Since(c.cachedAt) < cacheTTL.                                  *)
(***************************************************************************)
EXTENDS Naturals

CONSTANTS
    Callers,     \* goroutines that run CostCalculator.Calculate
    Editors,     \* goroutines that run a pricing handler of the dashboard
    MaxVersion,  \* bound on the number of writes to model_pricing
    Nobody       \* the holder of a free lock

ASSUME ThreadsAssumption ==
    /\ Callers \cap Editors = {}
    /\ Nobody \notin Callers \cup Editors
ASSUME BoundAssumption == MaxVersion \in Nat \ {0}

VARIABLES
    version,  \* writes committed to model_pricing; 1 is the seeded table
    cache,    \* version held by c.cache, NoTable when it is nil
    fresh,    \* c.cachedAt is less than cacheTTL ago
    mu,       \* who holds c.mu for writing
    conn,     \* who holds the database connection
    pc,       \* where each goroutine is
    snap,     \* what a refreshing caller has read from the table
    result,   \* version of the map the caller's last lookup worked on
    acked,    \* history: newest version whose InvalidateCache has returned
    floor     \* history: the value of acked when the caller's lookup began

vars == <<version, cache, fresh, mu, conn, pc, snap, result, acked, floor>>

Threads == Callers \cup Editors
NoTable == 0
Versions == 0..MaxVersion

Init ==
    /\ version = 1
    /\ cache = NoTable
    /\ fresh = FALSE
    /\ mu = Nobody
    /\ conn = Nobody
    /\ pc = [t \in Threads |-> "idle"]
    /\ snap = [t \in Callers |-> NoTable]
    /\ result = [t \in Callers |-> NoTable]
    /\ acked = 1
    /\ floor = [t \in Callers |-> 0]

----------------------------------------------------------------------------
(* Calculate -> lookup -> getCache -> refreshCache                          *)

\* A mutated form: any map will do, however old.
CacheIsPresent == cache # NoTable

\* The two tests of the cache (RLock in getCache, again under the write lock).
CacheIsUsable == fresh /\ cache # NoTable

Go(t, from, to) == pc[t] = from /\ pc' = [pc EXCEPT ![t] = to]

Calculate(t) ==
    /\ Go(t, "idle", "check")
    /\ floor' = [floor EXCEPT ![t] = acked]
    /\ UNCHANGED <<version, cache, fresh, mu, conn, snap, result, acked>>

\* getCache: under RLock, return the cached map or go for the write lock.
GetCache(t) ==
    /\ mu = Nobody
    /\ \/ /\ CacheIsUsable
          /\ Go(t, "check", "idle")
          /\ result' = [result EXCEPT ![t] = cache]
       \/ /\ ~CacheIsUsable
          /\ Go(t, "check", "lock")
          /\ UNCHANGED result
    /\ UNCHANGED <<version, cache, fresh, mu, conn, snap, acked, floor>>

\* A mutated form: the refresh is entered without the write lock.
RecheckWithoutLock(t) ==
    /\ \/ /\ CacheIsUsable
          /\ Go(t, "lock", "idle")
          /\ result' = [result EXCEPT ![t] = cache]
       \/ /\ ~CacheIsUsable
          /\ Go(t, "lock", "query")
          /\ UNCHANGED result
    /\ UNCHANGED <<version, cache, fresh, mu, conn, snap, acked, floor>>

\* refreshCache: c.mu.Lock, then the double check: another caller may have
\* refreshed in between, and the deferred Unlock then ends the call.
LockAndRecheck(t) ==
    /\ mu = Nobody
    /\ \/ /\ CacheIsUsable
          /\ Go(t, "lock", "idle")
          /\ result' = [result EXCEPT ![t] = cache]
          /\ UNCHANGED mu
       \/ /\ ~CacheIsUsable
          /\ Go(t, "lock", "query")
          /\ mu' = t
          /\ UNCHANGED result
    /\ UNCHANGED <<version, cache, fresh, conn, snap, acked, floor>>

\* ListPricing: wait for the connection and read the rows.
QueryRows(t) ==
    /\ Go(t, "query", "reading")
    /\ conn = Nobody
    /\ conn' = t
    /\ snap' = [snap EXCEPT ![t] = version]
    /\ UNCHANGED <<version, cache, fresh, mu, result, acked, floor>>

\* Two mutated forms: the write lock is given back before the rows are stored, and
\* no rows.Close, so the connection is not given back.
CloseRowsAndUnlock(t) ==
    /\ \/ Go(t, "reading", "store")
       \/ Go(t, "reading", "failed")
    /\ conn' = Nobody /\ mu' = Nobody
    /\ UNCHANGED <<version, cache, fresh, snap, result, acked, floor>>

LeaveRowsOpen(t) ==
    /\ \/ Go(t, "reading", "store")
       \/ Go(t, "reading", "failed")
    /\ UNCHANGED <<version, cache, fresh, mu, conn, snap, result, acked, floor>>

\* ListPricing returns and its deferred rows.Close frees the connection; the
\* query, a Scan or rows.Err may have failed.
CloseRows(t) ==
    /\ \/ Go(t, "reading", "store")
       \/ Go(t, "reading", "failed")
    /\ conn' = Nobody
    /\ UNCHANGED <<version, cache, fresh, mu, snap, result, acked, floor>>

StoreCache(t) ==
    /\ Go(t, "store", "idle")
    /\ cache' = snap[t]
    /\ fresh' = TRUE
    /\ mu' = Nobody
    /\ result' = [result EXCEPT ![t] = snap[t]]
    /\ UNCHANGED <<version, conn, snap, acked, floor>>

\* A mutated form: the error path returns without unlocking.
ServeStaleLocked(t) ==
    /\ Go(t, "failed", "idle")
    /\ result' = [result EXCEPT ![t] = cache]
    /\ UNCHANGED <<version, cache, fresh, mu, conn, snap, acked, floor>>

\* ListPricing failed: the old map (or an empty one) is served and neither the
\* cache nor its time changes.
ServeStale(t) ==
    /\ Go(t, "failed", "idle")
    /\ mu' = Nobody
    /\ result' = [result EXCEPT ![t] = cache]
    /\ UNCHANGED <<version, cache, fresh, conn, snap, acked, floor>>

----------------------------------------------------------------------------
(* pricingUpsert and DELETE /ui/pricing/{model}                             *)

\* The form parsed, or the method and path matched: the handler calls the store.
BeginEdit(e) ==
    /\ version < MaxVersion
    /\ Go(e, "idle", "write")
    /\ UNCHANGED <<version, cache, fresh, mu, conn, snap, result, acked, floor>>

\* UpsertPricing or DeletePricing: one Exec, holding the connection.
AcquireConn(e) ==
    /\ Go(e, "write", "exec")
    /\ conn = Nobody
    /\ conn' = e
    /\ UNCHANGED <<version, cache, fresh, mu, snap, result, acked, floor>>

\* The Exec commits, or fails and the handler answers 500 without invalidating.
Exec(e) ==
    /\ \/ /\ version < MaxVersion
          /\ Go(e, "exec", "wrote")
          /\ version' = version + 1
       \/ /\ Go(e, "exec", "idle")
          /\ UNCHANGED version
    /\ conn' = Nobody
    /\ UNCHANGED <<cache, fresh, mu, snap, result, acked, floor>>

\* Two mutated forms: without waiting for the lock, and without releasing it.
InvalidateWithoutLock(e) ==
    /\ Go(e, "wrote", "idle")
    /\ fresh' = FALSE
    /\ acked' = version
    /\ UNCHANGED <<version, cache, mu, conn, snap, result, floor>>

InvalidateAndKeepLock(e) ==
    /\ Go(e, "wrote", "idle")
    /\ mu = Nobody /\ mu' = e
    /\ fresh' = FALSE
    /\ acked' = version
    /\ UNCHANGED <<version, cache, conn, snap, result, floor>>

\* InvalidateCache zeroes cachedAt under the write lock; the edit is then
\* acknowledged to the browser.
InvalidateCache(e) ==
    /\ Go(e, "wrote", "idle")
    /\ mu = Nobody
    /\ fresh' = FALSE
    /\ acked' = version
    /\ UNCHANGED <<version, cache, mu, conn, snap, result, floor>>

\* cacheTTL has passed since cachedAt.
Expire ==
    /\ fresh
    /\ fresh' = FALSE
    /\ UNCHANGED <<version, cache, mu, conn, pc, snap, result, acked, floor>>

----------------------------------------------------------------------------
CallerStep(t) ==
    \/ GetCache(t) \/ LockAndRecheck(t) \/ QueryRows(t)
    \/ CloseRows(t) \/ StoreCache(t) \/ ServeStale(t)

EditorStep(e) == AcquireConn(e) \/ Exec(e) \/ InvalidateCache(e)

Next ==
    \/ \E t \in Callers : Calculate(t) \/ CallerStep(t)
    \/ \E e \in Editors : BeginEdit(e) \/ EditorStep(e)
    \/ Expire

Spec == Init /\ [][Next]_vars

\* A goroutine that has started runs on.  sync.RWMutex and the queue of
\* database/sql hand a released lock to a waiter, so waiting is strongly fair;
\* beginning a lookup or an edit, and the passing of the TTL, are not forced.
Fairness ==
    /\ \A t \in Callers : SF_vars(CallerStep(t))
    /\ \A e \in Editors : SF_vars(EditorStep(e))

FairSpec == Spec /\ Fairness

----------------------------------------------------------------------------
TypeOK ==
    /\ version \in 1..MaxVersion
    /\ cache \in Versions
    /\ fresh \in BOOLEAN
    /\ mu \in Callers \cup {Nobody}
    /\ conn \in Threads \cup {Nobody}
    /\ pc \in [Threads -> {"idle", "check", "lock", "query", "reading", "store",
                           "failed", "write", "exec", "wrote"}]
    /\ snap \in [Callers -> Versions]
    /\ result \in [Callers -> Versions]
    /\ acked \in 1..MaxVersion
    /\ floor \in [Callers -> Versions]

\* A map served as fresh contains every edit acknowledged so far: no
\* InvalidateCache is lost to a refresh that read the table before the edit and
\* stores it after (cost.go holds mu over the read, and cachedAt is reset last).
FreshIsCurrent == CacheIsUsable => cache >= acked

\* "forces the next Calculate to reload" (cost.go:94): a lookup that begins after
\* an edit was acknowledged never works on older prices, unless its own ListPricing
\* failed (ServeStale is the only step that may return less than the floor).
ReadYourWrites ==
    [][\A t \in Callers :
          (pc[t] \in {"check", "lock", "store"} /\ pc'[t] = "idle")
              => result'[t] >= floor[t]]_vars

\* Prices never go back in time, whichever caller's refresh lands last.
CacheMovesForward == [][cache' >= cache]_cache

\* Locks nest in one order, mu before the connection: a caller reads rows only
\* under mu, and an editor holds the connection only inside its Exec, never while
\* it waits for mu in InvalidateCache (the opposite nesting would deadlock).
LockOrder ==
    /\ \A t \in Callers : conn = t => mu = t /\ pc[t] = "reading"
    /\ \A e \in Editors : conn = e => pc[e] = "exec"

\* A caller as a reader of the register.
ReaderState(t) ==
    CASE pc[t] = "idle" -> "idle"
      [] pc[t] = "failed" -> "unreadable"
      [] OTHER -> "asking"

Register == INSTANCE PriceRegister WITH
    Readers <- Callers,
    state <- [t \in Callers |-> ReaderState(t)],
    asked <- floor,
    got <- result

\* The mutex, the double check, the TTL and the single connection together are a
\* register: whatever they do, a lookup reads a table not older than what was
\* acknowledged when it began, and not newer than the one there is.
ImplementsRegister == Register!Spec

\* Every lookup returns and every edit is acknowledged or refused, also while
\* refreshes and edits contend for the lock and the connection.
CallsReturn == \A t \in Threads : (pc[t] # "idle") ~> (pc[t] = "idle")
=============================================================================
