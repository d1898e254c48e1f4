-------------------------- MODULE PriceLookupProofs --------------------------
(***************************************************************************)
(* Proofs about PriceLookup: for any names, rates, seed and callers, and    *)
(* for any order in which a map is visited, a request is charged by an      *)
(* entry that may charge it, and seeding keeps the operator's rates.        *)
(***************************************************************************)
EXTENDS PriceLookup, TLAPS

\* What the range loop knows half-way: there is no exact row, what is left to
\* visit are keys of the map, and no key it has visited is a prefix.
LoopInv ==
    \A c \in Callers : pc[c] = "range" =>
        /\ model[c] \notin Rows(snap[c])
        /\ todo[c] \subseteq Rows(snap[c])
        /\ \A k \in Rows(snap[c]) \ todo[c] : ~IsPrefix(k, model[c])

IInv == TypeOK /\ LoopInv /\ ChargeIsJustified /\ OperatorHasTheLastWord

\* What lookup returns for a model once it has the map: the claim made of every
\* finished lookup, as a predicate of its map, its argument and its result.
Justified(t, m, k) ==
    LET rows == Rows(t)
        prefixes == {p \in rows : IsPrefix(p, m)}
    IN  CASE m \in rows -> k = m
          [] m \notin rows /\ prefixes # {} -> k \in prefixes
          [] OTHER -> k = NoRow

\* The property, in terms of the claim.
LEMMA JustifiedIsTheClaim ==
    ChargeIsJustified <=>
        \A c \in Callers : pc[c] = "done" => Justified(snap[c], model[c], charged[c])
  BY DEF ChargeIsJustified, Justified

----------------------------------------------------------------------------
\* The invariant holds at the start.
LEMMA InitIsJustified == Init => IInv
  <1> SUFFICES ASSUME Init PROVE IInv
    OBVIOUS
  <1> USE SeedAssumption
  <1>1. TypeOK
    BY DEF Init, TypeOK, Tables, Empty
  <1>2. LoopInv /\ ChargeIsJustified
    BY DEF Init, LoopInv, ChargeIsJustified
  <1>3. OperatorHasTheLastWord
    BY DEF Init, OperatorHasTheLastWord, Empty
  <1> QED
    BY <1>1, <1>2, <1>3 DEF IInv

\* Every step keeps the types.
LEMMA TypeStep == TypeOK /\ [Next]_vars => TypeOK'
  <1> SUFFICES ASSUME TypeOK, [Next]_vars PROVE TypeOK'
    OBVIOUS
  <1> USE SeedAssumption DEF TypeOK, Tables
  <1>1. ASSUME NEW c \in Callers, GetCache(c) PROVE TypeOK'
    BY <1>1 DEF GetCache, Goto, tableVars
  <1>2. ASSUME NEW c \in Callers, ExactMatch(c) PROVE TypeOK'
    BY <1>2 DEF ExactMatch, Return, Goto, tableVars
  <1>3. ASSUME NEW c \in Callers, NoExactMatch(c) PROVE TypeOK'
    BY <1>3 DEF NoExactMatch, Goto, Rows, tableVars
  <1>4. ASSUME NEW c \in Callers, Visit(c) PROVE TypeOK'
    <2>1. PICK k \in todo[c] :
              \/ Return(c, "range", k) /\ UNCHANGED todo
              \/ todo' = [todo EXCEPT ![c] = @ \ {k}] /\ UNCHANGED <<pc, charged>>
      BY <1>4 DEF Visit
    <2>2. k \in Models /\ todo[c] \ {k} \in SUBSET Models
      OBVIOUS
    <2>3. UNCHANGED <<table, lastEdit, cache, model, snap>>
      BY <1>4 DEF Visit, tableVars
    <2> QED
      BY <2>1, <2>2, <2>3, ZenonT(30) DEF Return, Goto
  <1>5. ASSUME NEW c \in Callers, NoEntry(c) PROVE TypeOK'
    BY <1>5 DEF NoEntry, Return, Goto, tableVars
  <1>6. ASSUME NEW c \in Callers, Again(c) PROVE TypeOK'
    BY <1>6 DEF Again, Goto, Empty, tableVars
  <1>7. ASSUME NEW m \in Models, Edit(m) PROVE TypeOK'
    <2>1. PICK p \in Prices \cup {NoRow} :
             table' = [table EXCEPT ![m] = p] /\ lastEdit' = [lastEdit EXCEPT ![m] = p]
      BY <1>7 DEF Edit, DeletePricing, UpsertPricing
    <2>2. UNCHANGED <<cache, lookupVars>>
      BY <1>7 DEF Edit, DeletePricing, UpsertPricing
    <2>3. table' \in Tables /\ lastEdit' \in Tables
      BY <2>1
    <2> QED
      BY <2>2, <2>3 DEF lookupVars
  <1>8. CASE Restart
    BY <1>8 DEF Restart, Seeded, Empty
  <1>9. CASE UNCHANGED vars
    BY <1>9 DEF vars, tableVars, lookupVars
  <1> QED
    BY <1>1, <1>2, <1>3, <1>4, <1>5, <1>6, <1>7, <1>8, <1>9 DEF Next, Lookup

\* A key that is not visited again was no prefix; the loop does nothing else.
LEMMA LoopStep == IInv /\ [Next]_vars => LoopInv'
  <1> SUFFICES ASSUME IInv, [Next]_vars, NEW d \in Callers, pc'[d] = "range"
               PROVE  /\ model'[d] \notin Rows(snap'[d])
                      /\ todo'[d] \subseteq Rows(snap'[d])
                      /\ \A k \in Rows(snap'[d]) \ todo'[d] : ~IsPrefix(k, model'[d])
    BY DEF LoopInv
  <1> DEFINE Goal == /\ model'[d] \notin Rows(snap'[d])
                     /\ todo'[d] \subseteq Rows(snap'[d])
                     /\ \A k \in Rows(snap'[d]) \ todo'[d] : ~IsPrefix(k, model'[d])
  <1> USE DEF IInv, TypeOK, LoopInv
  <1>1. ASSUME NEW c \in Callers, GetCache(c) PROVE Goal
    BY <1>1 DEF GetCache, Goto
  <1>2. ASSUME NEW c \in Callers, ExactMatch(c) PROVE Goal
    BY <1>2 DEF ExactMatch, Return, Goto
  <1>3. ASSUME NEW c \in Callers, NoExactMatch(c) PROVE Goal
    BY <1>3 DEF NoExactMatch, Goto
  <1>4. ASSUME NEW c \in Callers, Visit(c) PROVE Goal
    BY <1>4 DEF Visit, Return, Goto
  <1>5. ASSUME NEW c \in Callers, NoEntry(c) PROVE Goal
    BY <1>5 DEF NoEntry, Return, Goto
  <1>6. ASSUME NEW c \in Callers, Again(c) PROVE Goal
    BY <1>6 DEF Again, Goto
  <1>7. ASSUME NEW m \in Models, Edit(m) PROVE Goal
    BY <1>7 DEF Edit, DeletePricing, UpsertPricing, lookupVars
  <1>8. CASE Restart
    BY <1>8 DEF Restart
  <1>9. CASE UNCHANGED vars
    BY <1>9 DEF vars, lookupVars
  <1> QED
    BY <1>1, <1>2, <1>3, <1>4, <1>5, <1>6, <1>7, <1>8, <1>9 DEF Next, Lookup

\* A lookup returns at the exact row, at the first prefix or after the last key.
LEMMA ChargeStep == IInv /\ [Next]_vars => ChargeIsJustified'
  <1> SUFFICES ASSUME IInv, [Next]_vars, NEW d \in Callers, pc'[d] = "done"
               PROVE  Justified(snap'[d], model'[d], charged'[d])
    BY DEF ChargeIsJustified, Justified
  <1> DEFINE Goal == Justified(snap'[d], model'[d], charged'[d])
  <1>0. pc[d] = "done" => Justified(snap[d], model[d], charged[d])
    BY JustifiedIsTheClaim DEF IInv
  <1> USE DEF IInv, TypeOK
  <1>1. ASSUME NEW c \in Callers, GetCache(c) PROVE Goal
    BY <1>1, <1>0 DEF GetCache, Goto
  <1>2. ASSUME NEW c \in Callers, ExactMatch(c) PROVE Goal
    <2>1. CASE c = d
      BY <1>2, <2>1 DEF ExactMatch, Return, Goto, Justified
    <2>2. CASE c # d
      BY <1>2, <2>2, <1>0 DEF ExactMatch, Return, Goto
    <2> QED
      BY <2>1, <2>2
  <1>3. ASSUME NEW c \in Callers, NoExactMatch(c) PROVE Goal
    BY <1>3, <1>0 DEF NoExactMatch, Goto
  <1>4. ASSUME NEW c \in Callers, Visit(c) PROVE Goal
    <2>1. PICK k \in todo[c] :
              \/ IsPrefix(k, model[c]) /\ Return(c, "range", k)
              \/ pc' = pc /\ charged' = charged
      BY <1>4 DEF Visit
    <2>2. CASE pc' = pc /\ charged' = charged
      BY <1>4, <2>2, <1>0 DEF Visit
    <2>3. CASE IsPrefix(k, model[c]) /\ Return(c, "range", k) /\ c = d
      <3>1. model[d] \notin Rows(snap[d]) /\ k \in Rows(snap[d])
        BY <1>4, <2>3 DEF Visit, LoopInv
      <3> QED
        BY <1>4, <2>3, <3>1 DEF Visit, Return, Goto, Justified
    <2>4. CASE IsPrefix(k, model[c]) /\ Return(c, "range", k) /\ c # d
      BY <1>4, <2>4, <1>0 DEF Visit, Return, Goto
    <2> QED
      BY <2>1, <2>2, <2>3, <2>4
  <1>5. ASSUME NEW c \in Callers, NoEntry(c) PROVE Goal
    <2>1. CASE c = d
      <3>1. /\ model[d] \notin Rows(snap[d])
            /\ \A k \in Rows(snap[d]) : ~IsPrefix(k, model[d])
        BY <1>5, <2>1 DEF NoEntry, Return, Goto, LoopInv
      <3>2. charged'[d] = NoRow /\ snap' = snap /\ model' = model
        BY <1>5, <2>1 DEF NoEntry, Return
      <3> QED
        BY <3>1, <3>2 DEF Justified
    <2>2. CASE c # d
      BY <1>5, <2>2, <1>0 DEF NoEntry, Return, Goto
    <2> QED
      BY <2>1, <2>2
  <1>6. ASSUME NEW c \in Callers, Again(c) PROVE Goal
    BY <1>6, <1>0 DEF Again, Goto
  <1>7. ASSUME NEW m \in Models, Edit(m) PROVE Goal
    BY <1>7, <1>0 DEF Edit, DeletePricing, UpsertPricing, lookupVars
  <1>8. CASE Restart
    BY <1>8 DEF Restart
  <1>9. CASE UNCHANGED vars
    BY <1>9, <1>0 DEF vars, lookupVars
  <1> QED
    BY <1>1, <1>2, <1>3, <1>4, <1>5, <1>6, <1>7, <1>8, <1>9 DEF Next, Lookup

\* Edits write the table and its history alike; seeding fills holes only.
LEMMA EditStep == IInv /\ [Next]_vars => OperatorHasTheLastWord'
  <1> SUFFICES ASSUME IInv, [Next]_vars PROVE OperatorHasTheLastWord'
    OBVIOUS
  <1> USE DEF IInv, TypeOK, Tables, OperatorHasTheLastWord
  <1>1. ASSUME NEW m \in Models, Edit(m) PROVE OperatorHasTheLastWord'
    <2>1. CASE DeletePricing(m)
      BY <2>1 DEF DeletePricing
    <2>2. ASSUME NEW p \in Prices, UpsertPricing(m, p) PROVE OperatorHasTheLastWord'
      BY <2>2 DEF UpsertPricing
    <2> QED
      BY <1>1, <2>1, <2>2 DEF Edit
  <1>2. CASE Restart
    BY <1>2 DEF Restart, Seeded
  <1>3. CASE UNCHANGED tableVars
    BY <1>3 DEF tableVars
  <1>4. ASSUME NEW c \in Callers, Lookup(c) PROVE UNCHANGED tableVars
    BY <1>4 DEF Lookup, GetCache, ExactMatch, NoExactMatch, Visit, NoEntry, Again
  <1> QED
    BY <1>1, <1>2, <1>3, <1>4 DEF Next, vars

----------------------------------------------------------------------------
\* The inductive invariant holds throughout.
THEOREM Invariance == Spec => []IInv
  <1>1. IInv /\ [Next]_vars => IInv'
    BY TypeStep, LoopStep, ChargeStep, EditStep DEF IInv
  <1> QED
    BY InitIsJustified, <1>1, PTL DEF Spec

\* Every variable keeps its type.
THEOREM TypeCorrect == Spec => []TypeOK
  <1>1. IInv => TypeOK
    BY DEF IInv
  <1> QED
    BY Invariance, <1>1, PTL

\* Whatever order the map is visited in, lookup returns an entry that may charge
\* its argument, and none only when no entry may.
THEOREM ChargesAreJustified == Spec => []ChargeIsJustified
  <1>1. IInv => ChargeIsJustified
    BY DEF IInv
  <1> QED
    BY Invariance, <1>1, PTL

\* A rate the operator set is in force until they change or delete it, through
\* any number of restarts and seedings.
THEOREM SeedingKeepsEdits == Spec => []OperatorHasTheLastWord
  <1>1. IInv => OperatorHasTheLastWord
    BY DEF IInv
  <1> QED
    BY Invariance, <1>1, PTL

----------------------------------------------------------------------------
(* Where a dated variant is charged as its model after all                 *)

\* A lookup whose map leaves nothing to the order of the visit: it has the model
\* itself, or at most one row that is a prefix of it.
Unambiguous(c) ==
    \/ model[c] \in Rows(snap[c])
    \/ \A j, k \in Rows(snap[c]) :
          IsPrefix(j, model[c]) /\ IsPrefix(k, model[c]) => j = k

\* README.md:327 of these lookups: a finished one charged the longest row that is
\* a prefix of its model.
VariantOfOneModel ==
    \A c \in Callers : pc[c] = "done" /\ charged[c] # NoRow /\ Unambiguous(c) =>
        \A k \in Rows(snap[c]) :
            IsPrefix(k, model[c]) => Len(k) <= Len(charged[c])

\* What README.md:327 promises fails only of a table that has two prefixes of one
\* model and no row for the model itself; with any other the order in which Go
\* visits the map makes no difference.
THEOREM UnambiguousVariants == Spec => []VariantOfOneModel
  <1>1. IInv => VariantOfOneModel
    <2> SUFFICES ASSUME IInv, NEW c \in Callers,
                        pc[c] = "done", charged[c] # NoRow, Unambiguous(c),
                        NEW k \in Rows(snap[c]), IsPrefix(k, model[c])
                 PROVE  Len(k) <= Len(charged[c])
      BY DEF VariantOfOneModel
    <2>1. Justified(snap[c], model[c], charged[c])
      BY JustifiedIsTheClaim DEF IInv
    <2>2. k \in Seq(STRING) /\ model[c] \in Seq(STRING)
      BY NamesAssumption DEF Rows, IInv, TypeOK
    <2>3. CASE model[c] \in Rows(snap[c])
      <3>1. charged[c] = model[c]
        BY <2>1, <2>3 DEF Justified
      <3> QED
        BY <3>1 DEF IsPrefix
    <2>4. CASE model[c] \notin Rows(snap[c])
      <3>1. charged[c] \in Rows(snap[c]) /\ IsPrefix(charged[c], model[c])
        BY <2>1, <2>4 DEF Justified
      <3>2. k = charged[c]
        BY <2>4, <3>1 DEF Unambiguous
      <3> QED
        BY <2>2, <3>2
    <2> QED
      BY <2>3, <2>4
  <1> QED
    BY Invariance, <1>1, PTL
=============================================================================
