---------------------------- MODULE PriceLookup ----------------------------
(***************************************************************************)
(* Which row of model_pricing a request is charged by: lookup in           *)
(* metrics/cost.go over the cached table, against the edits of the pricing *)
(* page (store/pricing.go) and the seeding of every start (store/db.go).   *)
(*                                                                         *)
(* A model name is a sequence of fragments, so that one name may be a      *)
(* prefix of another.  When the cache is refreshed is PricingCache's       *)
(* subject: here a lookup is given the table or any copy kept of it.       *)
(***************************************************************************)
EXTENDS Naturals, Sequences, SequencesExt

CONSTANTS
    Models,    \* model names
    Prices,    \* rates a row can hold
    NoRow,     \* no row for a model; no entry for a lookup
    Seed,      \* what seedPricing inserts: a rate or NoRow for each model
    Callers    \* proxy handlers that cost a request

Tables == [Models -> Prices \cup {NoRow}]
Rows(t) == {m \in Models : t[m] # NoRow}

ASSUME NamesAssumption == Models \subseteq Seq(STRING)
ASSUME RowsAssumption == NoRow \notin Prices /\ NoRow \notin Models
ASSUME SeedAssumption == Seed \in Tables

VARIABLES
    table,      \* the rows of model_pricing
    cache,      \* CostCalculator.cache, the empty map before the first refresh
    lastEdit,   \* history: the rate the operator last set for a model; NoRow
                \* when they deleted it or never set one
    pc,         \* where each lookup is
    model,      \* its argument
    snap,       \* the map getCache handed it
    todo,       \* keys its range loop has still to visit
    charged     \* the key of the entry it returns, or NoRow

lookupVars == <<pc, model, snap, todo, charged>>
tableVars == <<table, lastEdit>>
vars == <<tableVars, cache, lookupVars>>

Empty == [m \in Models |-> NoRow]

Init ==
    /\ table = Seed /\ cache = Empty
    /\ lastEdit = Empty
    /\ pc = [c \in Callers |-> "idle"]
    /\ model \in [Callers -> Models]
    /\ snap = [c \in Callers |-> Empty]
    /\ todo = [c \in Callers |-> {}]
    /\ charged = [c \in Callers |-> NoRow]

Goto(c, from, to) == pc[c] = from /\ pc' = [pc EXCEPT ![c] = to]

----------------------------------------------------------------------------
(* lookup                                                                  *)

\* getCache: the rows as they are, or the copy kept of them.
GetCache(c) ==
    /\ Goto(c, "idle", "exact")
    /\ \E m \in Models : model' = [model EXCEPT ![c] = m]
    /\ cache' \in {table, cache}
    /\ snap' = [snap EXCEPT ![c] = cache']
    /\ UNCHANGED <<tableVars, todo, charged>>

Return(c, from, k) ==
    /\ Goto(c, from, "done")
    /\ charged' = [charged EXCEPT ![c] = k]

ExactMatch(c) ==
    /\ model[c] \in Rows(snap[c])
    /\ Return(c, "exact", model[c])
    /\ UNCHANGED <<tableVars, cache, model, snap, todo>>

NoExactMatch(c) ==
    /\ model[c] \notin Rows(snap[c])
    /\ Goto(c, "exact", "range")
    /\ todo' = [todo EXCEPT ![c] = Rows(snap[c])]
    /\ UNCHANGED <<tableVars, cache, model, snap, charged>>

\* A mutated form: the arguments of HasPrefix swapped.
VisitSwapped(c) ==
    /\ pc[c] = "range"
    /\ \E k \in todo[c] :
          IF IsPrefix(model[c], k)
             THEN Return(c, "range", k) /\ UNCHANGED todo
             ELSE todo' = [todo EXCEPT ![c] = @ \ {k}] /\ UNCHANGED <<pc, charged>>
    /\ UNCHANGED <<tableVars, cache, model, snap>>

\* Go visits the keys of a map in an order of its own; the first prefix is it.
Visit(c) ==
    /\ pc[c] = "range"
    /\ \E k \in todo[c] :
          IF IsPrefix(k, model[c])
             THEN Return(c, "range", k) /\ UNCHANGED todo
             ELSE todo' = [todo EXCEPT ![c] = @ \ {k}] /\ UNCHANGED <<pc, charged>>
    /\ UNCHANGED <<tableVars, cache, model, snap>>

NoEntry(c) ==
    /\ todo[c] = {}
    /\ Return(c, "range", NoRow)
    /\ UNCHANGED <<tableVars, cache, model, snap, todo>>

\* The cost is on its way to the request log and the handler takes another one.
Again(c) ==
    /\ Goto(c, "done", "idle")
    /\ snap' = [snap EXCEPT ![c] = Empty]
    /\ todo' = [todo EXCEPT ![c] = {}]
    /\ charged' = [charged EXCEPT ![c] = NoRow]
    /\ UNCHANGED <<tableVars, cache, model>>

----------------------------------------------------------------------------
(* The pricing page and the start of the process                           *)

UpsertPricing(m, p) ==
    /\ table' = [table EXCEPT ![m] = p]
    /\ lastEdit' = [lastEdit EXCEPT ![m] = p]
    /\ UNCHANGED <<cache, lookupVars>>

DeletePricing(m) ==
    /\ table' = [table EXCEPT ![m] = NoRow]
    /\ lastEdit' = [lastEdit EXCEPT ![m] = NoRow]
    /\ UNCHANGED <<cache, lookupVars>>

\* A mutated form: INSERT OR REPLACE.
SeededOver(t) == [m \in Models |-> IF Seed[m] # NoRow THEN Seed[m] ELSE t[m]]

\* INSERT OR IGNORE of every seed row.
Seeded(t) == [m \in Models |-> IF t[m] = NoRow THEN Seed[m] ELSE t[m]]

\* The process stops, lookups with it, and Migrate seeds at its next start.
Restart ==
    /\ table' = Seeded(table)
    /\ cache' = Empty
    /\ pc' = [c \in Callers |-> "idle"]
    /\ snap' = [c \in Callers |-> Empty]
    /\ todo' = [c \in Callers |-> {}]
    /\ charged' = [c \in Callers |-> NoRow]
    /\ UNCHANGED <<lastEdit, model>>

----------------------------------------------------------------------------
Lookup(c) ==
    \/ GetCache(c) \/ ExactMatch(c) \/ NoExactMatch(c) \/ Visit(c) \/ NoEntry(c)
    \/ Again(c)

\* A mutated form: a form value that is no number reaches the table.
EditUnparsed(m) ==
    DeletePricing(m) \/ \E p \in Prices \cup {"unparsed"} : UpsertPricing(m, p)

\* The handlers answer 400 to a rate that does not parse, before the store.
Edit(m) == DeletePricing(m) \/ \E p \in Prices : UpsertPricing(m, p)

Next ==
    \/ \E c \in Callers : Lookup(c)
    \/ \E m \in Models : Edit(m)
    \/ Restart

Spec == Init /\ [][Next]_vars

----------------------------------------------------------------------------
TypeOK ==
    /\ table \in Tables /\ cache \in Tables /\ lastEdit \in Tables
    /\ pc \in [Callers -> {"idle", "exact", "range", "done"}]
    /\ model \in [Callers -> Models]
    /\ snap \in [Callers -> Tables]
    /\ todo \in [Callers -> SUBSET Models]
    /\ charged \in [Callers -> Models \cup {NoRow}]

\* Whatever order the map is visited in, a request is charged by the exact row of
\* its model when the map has one, by a row that is a prefix of its name when it
\* has not, and costs $0 only when the map has neither (README.md:327).
ChargeIsJustified ==
    \A c \in Callers : pc[c] = "done" =>
        LET rows == Rows(snap[c])
            prefixes == {k \in rows : IsPrefix(k, model[c])}
        IN  CASE model[c] \in rows -> charged[c] = model[c]
              [] model[c] \notin rows /\ prefixes # {} -> charged[c] \in prefixes
              [] OTHER -> charged[c] = NoRow

\* Seeding never takes a rate back: the rate the operator last set for a model is
\* the one in force, however often the process has restarted since.
OperatorHasTheLastWord ==
    \A m \in Models : lastEdit[m] # NoRow => table[m] = lastEdit[m]

----------------------------------------------------------------------------
(* An expectation of the documentation that the code does not meet         *)

\* README.md:327: a dated variant is charged as the model it is a variant of
\* (gpt-4o-2024-08-06 as gpt-4o), so never by a row when the table has a longer
\* prefix of its name.  The seed rows hold gpt-4 beside gpt-4o.
VariantIsChargedAsItsModel ==
    \A c \in Callers : pc[c] = "done" /\ charged[c] # NoRow =>
        \A k \in Rows(snap[c]) :
            IsPrefix(k, model[c]) => Len(k) <= Len(charged[c])
=============================================================================
