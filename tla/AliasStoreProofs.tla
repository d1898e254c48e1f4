-------------------------- MODULE AliasStoreProofs --------------------------
(***************************************************************************)
(* Proofs about AliasStore: for any patterns in any order, any models and   *)
(* any number of requests and editors, MatchAlias resolves a request to the *)
(* alias README.md names.                                                   *)
(***************************************************************************)
EXTENDS AliasStore, TLAPS

\* The enabled patterns among those the loop has been past.
Visited(r) == {Order[i] : i \in 1..(next[r] - 1)}
Covering(r) == {p \in Enabled(aliases[r]) : Covers(p, model[r])}

\* Half-way: the model is none of the enabled patterns visited, and best is the
\* longest of those that cover it.
LoopInv ==
    \A r \in Requests : pc[r] = "loop" =>
        /\ model[r] \notin Visited(r) \cap Enabled(aliases[r])
        /\ best[r] = None => Visited(r) \cap Covering(r) = {}
        /\ best[r] # None =>
              /\ best[r] \in Covering(r)
              /\ \A p \in (Visited(r) \cap Covering(r)) \ {best[r]} : Len(p) < Len(best[r])

\* Nobody holds the alias of a pattern in deleted, nor can get hold of it.
NobodyToggles ==
    \A p \in deleted : \A e \in Editors : epc[e] = "toggle" => pattern[e] # p

IInv ==
    /\ TypeOK
    /\ LoopInv /\ LongestMatchWins
    /\ NobodyToggles /\ DeletedStaysDeleted

\* The claim made of a finished MatchAlias, of its rows, argument and result.
Resolved(t, m, a) ==
    LET enabled == Enabled(t)
        covering == {p \in enabled : Covers(p, m)}
    IN  CASE m \in enabled -> a = m
          [] m \notin enabled /\ covering # {} ->
                a \in covering /\ \A p \in covering \ {a} : Len(p) < Len(a)
          [] OTHER -> a = None

\* The property, in terms of the claim.
LEMMA ResolvedIsTheClaim ==
    LongestMatchWins <=>
        \A r \in Requests : pc[r] = "done" => Resolved(aliases[r], model[r], best[r])
  BY DEF LongestMatchWins, Resolved

\* Two patterns of one length that cover one model are the same pattern.
LEMMA EqualLengthsCoverAlike ==
    ASSUME NEW p \in Patterns, NEW b \in Patterns, NEW m \in Models,
           Covers(p, m), Covers(b, m), Len(p) = Len(b)
    PROVE  p = b
  <1>1. /\ p \in Seq(STRING) /\ p # << >>
        /\ b \in Seq(STRING) /\ b # << >>
        /\ m \in Seq(STRING)
    BY NamesAssumption DEF Patterns
  <1> DEFINE n == Len(p)
  <1>2. n \in Nat \ {0} /\ Len(b) = n
    BY <1>1
  <1>3. /\ Prefix(p) \in Seq(STRING) /\ Len(Prefix(p)) = n - 1
        /\ Prefix(b) \in Seq(STRING) /\ Len(Prefix(b)) = n - 1
    BY <1>1, <1>2 DEF Prefix
  <1>4. p[n] = b[n]
    BY <1>2 DEF Covers, IsWild
  <1>5. ASSUME NEW i \in 1..(n - 1) PROVE p[i] = b[i]
    <2>1. Prefix(p)[i] = p[i] /\ Prefix(b)[i] = b[i]
      BY <1>1, <1>2, <1>5 DEF Prefix
    <2>2. /\ SubSeq(Prefix(p), 1, n - 1) = SubSeq(m, 1, n - 1)
          /\ SubSeq(Prefix(b), 1, n - 1) = SubSeq(m, 1, n - 1)
      BY <1>3 DEF Covers, IsPrefix
    <2>3. /\ SubSeq(Prefix(p), 1, n - 1)[i] = Prefix(p)[i]
          /\ SubSeq(Prefix(b), 1, n - 1)[i] = Prefix(b)[i]
      BY <1>2, <1>3
    <2> QED
      BY <2>1, <2>2, <2>3
  <1>6. \A i \in 1..n : p[i] = b[i]
    BY <1>2, <1>4, <1>5
  <1> QED
    BY <1>1, <1>2, <1>6

----------------------------------------------------------------------------
\* The invariant holds at the start.
LEMMA InitIsResolved == Init => IInv
  <1> SUFFICES ASSUME Init PROVE IInv
    OBVIOUS
  <1>1. Len(Order) \in Nat
    BY NamesAssumption
  <1>2. TypeOK
    BY <1>1 DEF Init, TypeOK, NoAliases, Rows
  <1>3. LoopInv /\ LongestMatchWins
    BY DEF Init, LoopInv, LongestMatchWins
  <1>4. NobodyToggles /\ DeletedStaysDeleted
    BY DEF Init, NobodyToggles, DeletedStaysDeleted
  <1> QED
    BY <1>2, <1>3, <1>4 DEF IInv

\* Every step keeps the types.
LEMMA TypeStep == TypeOK /\ [Next]_vars => TypeOK'
  <1> SUFFICES ASSUME TypeOK, [Next]_vars PROVE TypeOK'
    OBVIOUS
  <1>0. Len(Order) \in Nat /\ None \in Rows /\ None \notin Rows \ {None}
    BY NamesAssumption DEF Rows
  <1> USE DEF TypeOK
  <1>1. ASSUME NEW r \in Requests, ListAliases(r) PROVE TypeOK'
    BY <1>0, <1>1 DEF ListAliases, Goto, editorVars
  <1>2. ASSUME NEW r \in Requests, ExactMatch(r) PROVE TypeOK'
    BY <1>2 DEF ExactMatch, Goto, Enabled, editorVars
  <1>3. ASSUME NEW r \in Requests, NextAlias(r) PROVE TypeOK'
    <2>1. next[r] + 1 \in 1..(Len(Order) + 1)
      BY <1>0, <1>3 DEF NextAlias, InLoop
    <2>2. best' \in [Requests -> Patterns \cup {None}]
      BY <1>3 DEF NextAlias, Enabled
    <2> QED
      BY <1>3, <2>1, <2>2 DEF NextAlias, editorVars
  <1>4. ASSUME NEW r \in Requests, EndOfList(r) PROVE TypeOK'
    BY <1>4 DEF EndOfList, Goto, editorVars
  <1>5. ASSUME NEW r \in Requests, Again(r) PROVE TypeOK'
    BY <1>0, <1>5 DEF Again, Goto, NoAliases, editorVars
  <1>6. ASSUME NEW p \in Patterns, Delete(p) PROVE TypeOK'
    BY <1>0, <1>6 DEF Delete, requestVars, editorVars
  <1>7. ASSUME NEW p \in Patterns, NEW a \in Rows, Upsert(p, a) PROVE TypeOK'
    BY <1>7 DEF Upsert, requestVars, editorVars
  <1>8. ASSUME NEW e \in Editors, GetAlias(e) PROVE TypeOK'
    <2>1. PICK p \in Patterns : /\ pattern' = [pattern EXCEPT ![e] = p]
                                /\ row' = [row EXCEPT ![e] = table[p]]
      BY <1>8 DEF GetAlias
    <2> QED
      BY <1>8, <2>1 DEF GetAlias, requestVars
  <1>9. ASSUME NEW e \in Editors, UpsertToggled(e) PROVE TypeOK'
    <2>1. [row[e] EXCEPT !.enabled = ~row[e].enabled] \in Rows
      BY <1>9 DEF UpsertToggled, Rows
    <2> QED
      BY <1>0, <1>9, <2>1 DEF UpsertToggled, requestVars
  <1>10. CASE UNCHANGED vars
    BY <1>10 DEF vars, requestVars, editorVars
  <1> QED
    BY <1>1, <1>2, <1>3, <1>4, <1>5, <1>6, <1>7, <1>8, <1>9, <1>10
       DEF Next, Match, Edit

\* The page's steps do not reach a MatchAlias in progress.
LEMMA PageStep ==
    ASSUME \/ \E p \in Patterns : Edit(p)
           \/ \E e \in Editors : GetAlias(e) \/ UpsertToggled(e)
           \/ UNCHANGED vars
    PROVE  UNCHANGED requestVars
  BY DEF Edit, Delete, Upsert, GetAlias, UpsertToggled, vars

----------------------------------------------------------------------------
\* One iteration: the candidate joins the patterns visited, as the new best when
\* it is longer than the old one; a shorter one leaves it.
LEMMA IterationKeepsBest ==
    ASSUME IInv, NEW r \in Requests, NextAlias(r)
    PROVE  /\ model'[r] \notin Visited(r)' \cap Enabled(aliases'[r])
           /\ best'[r] = None => Visited(r)' \cap Covering(r)' = {}
           /\ best'[r] # None =>
                 /\ best'[r] \in Covering(r)'
                 /\ \A p \in (Visited(r)' \cap Covering(r)') \ {best'[r]} :
                       Len(p) < Len(best'[r])
  <1> DEFINE q == Candidate(r)
  <1>1. next[r] \in 1..Len(Order) /\ Len(Order) \in Nat /\ next'[r] = next[r] + 1
    BY NamesAssumption DEF NextAlias, InLoop, IInv, TypeOK
  <1>2. Visited(r)' = Visited(r) \cup {q}
    <2>1. 1..(next'[r] - 1) = (1..(next[r] - 1)) \cup {next[r]}
      BY <1>1
    <2> QED
      BY <2>1 DEF Visited, Candidate
  <1>3. q \in Patterns /\ model[r] \in Models
    BY <1>1 DEF Patterns, Candidate, IInv, TypeOK
  <1>4. aliases' = aliases /\ model' = model /\ pc[r] = "loop"
    BY DEF NextAlias, InLoop
  <1>5. Covering(r)' = Covering(r)
    BY <1>4 DEF Covering
  <1>6. ~(q \in Enabled(aliases[r]) /\ q = model[r])
    BY DEF NextAlias
  <1>7. /\ model[r] \notin Visited(r) \cap Enabled(aliases[r])
        /\ best[r] = None => Visited(r) \cap Covering(r) = {}
        /\ best[r] # None =>
              /\ best[r] \in Covering(r)
              /\ \A p \in (Visited(r) \cap Covering(r)) \ {best[r]} : Len(p) < Len(best[r])
    BY <1>4 DEF IInv, LoopInv
  <1>8. model'[r] \notin Visited(r)' \cap Enabled(aliases'[r])
    BY <1>2, <1>4, <1>6, <1>7
  <1>9. q # None
    BY <1>3, NoneAssumption
  <1>10. \A p \in Patterns : Len(p) \in Nat
    BY NamesAssumption DEF Patterns
  <1>11. CASE q \in Covering(r) /\ Longer(q, best[r])
    <2>1. best'[r] = q
      BY <1>11 DEF NextAlias, Covering, IInv, TypeOK
    <2>2. \A p \in (Visited(r) \cap Covering(r)) : p = q \/ Len(p) < Len(q)
      <3>1. CASE best[r] = None
        BY <3>1, <1>7
      <3>2. CASE best[r] # None
        BY <3>2, <1>7, <1>10, <1>11 DEF Longer, Covering, Enabled
      <3> QED
        BY <3>1, <3>2
    <2> QED
      BY <2>1, <2>2, <1>2, <1>5, <1>8, <1>9, <1>11
  <1>12. CASE q \notin Covering(r)
    <2>1. best' = best
      BY <1>12 DEF NextAlias, Covering
    <2> QED
      BY <2>1, <1>2, <1>5, <1>7, <1>8, <1>12
  <1>13. CASE q \in Covering(r) /\ ~Longer(q, best[r])
    <2>1. best' = best
      BY <1>13 DEF NextAlias
    <2>2. best[r] # None /\ ~(Len(q) > Len(best[r]))
      BY <1>13 DEF Longer
    <2>3. best[r] \in Covering(r) /\ best[r] \in Patterns /\ Covers(best[r], model[r])
      BY <2>2, <1>7 DEF Covering, Enabled
    <2>4. q = best[r] \/ Len(q) < Len(best[r])
      <3>1. CASE Len(q) = Len(best[r])
        BY <3>1, <2>3, <1>3, <1>13, EqualLengthsCoverAlike DEF Covering
      <3> QED
        BY <3>1, <2>2, <2>3, <1>3, <1>10
    <2> QED
      BY <2>1, <2>2, <2>3, <2>4, <1>2, <1>5, <1>7, <1>8
  <1> QED
    BY <1>11, <1>12, <1>13

\* Every step keeps what the loop knows.
LEMMA LoopStep == IInv /\ [Next]_vars => LoopInv'
  <1> SUFFICES ASSUME IInv, [Next]_vars, NEW d \in Requests, pc'[d] = "loop"
               PROVE  /\ model'[d] \notin Visited(d)' \cap Enabled(aliases'[d])
                      /\ best'[d] = None => Visited(d)' \cap Covering(d)' = {}
                      /\ best'[d] # None =>
                            /\ best'[d] \in Covering(d)'
                            /\ \A p \in (Visited(d)' \cap Covering(d)') \ {best'[d]} :
                                  Len(p) < Len(best'[d])
    BY DEF LoopInv
  <1> DEFINE Goal ==
        /\ model'[d] \notin Visited(d)' \cap Enabled(aliases'[d])
        /\ best'[d] = None => Visited(d)' \cap Covering(d)' = {}
        /\ best'[d] # None =>
              /\ best'[d] \in Covering(d)'
              /\ \A p \in (Visited(d)' \cap Covering(d)') \ {best'[d]} :
                    Len(p) < Len(best'[d])
  <1>0. ASSUME pc[d] = "loop", model'[d] = model[d], aliases'[d] = aliases[d],
               next'[d] = next[d], best'[d] = best[d]
        PROVE  Goal
    BY <1>0 DEF IInv, LoopInv, Visited, Covering
  <1>1. ASSUME NEW r \in Requests, ListAliases(r) PROVE Goal
    <2>1. CASE r = d
      <3>1. next'[d] = 1 /\ best'[d] = None
        BY <1>1, <2>1 DEF ListAliases, IInv, TypeOK
      <3>2. Visited(d)' = {}
        BY <3>1 DEF Visited
      <3> QED
        BY <3>1, <3>2
    <2>2. CASE r # d
      BY <1>0, <1>1, <2>2 DEF ListAliases, Goto, IInv, TypeOK
    <2> QED
      BY <2>1, <2>2
  <1>2. ASSUME NEW r \in Requests, ExactMatch(r) PROVE Goal
    BY <1>0, <1>2 DEF ExactMatch, Goto, IInv, TypeOK
  <1>3. ASSUME NEW r \in Requests, NextAlias(r) PROVE Goal
    <2>1. CASE r = d
      BY <1>3, <2>1, IterationKeepsBest DEF IInv
    <2>2. CASE r # d
      BY <1>0, <1>3, <2>2 DEF NextAlias, IInv, TypeOK
    <2> QED
      BY <2>1, <2>2
  <1>4. ASSUME NEW r \in Requests, EndOfList(r) PROVE Goal
    BY <1>0, <1>4 DEF EndOfList, Goto, IInv, TypeOK
  <1>5. ASSUME NEW r \in Requests, Again(r) PROVE Goal
    BY <1>0, <1>5 DEF Again, Goto, IInv, TypeOK
  <1>6. CASE UNCHANGED requestVars
    BY <1>0, <1>6 DEF requestVars
  <1> QED
    BY <1>1, <1>2, <1>3, <1>4, <1>5, <1>6, PageStep DEF Next, Match

\* MatchAlias returns at the exact pattern, or when it has visited them all.
LEMMA ResultStep == IInv /\ [Next]_vars => LongestMatchWins'
  <1> SUFFICES ASSUME IInv, [Next]_vars, NEW d \in Requests, pc'[d] = "done"
               PROVE  Resolved(aliases'[d], model'[d], best'[d])
    BY DEF LongestMatchWins, Resolved
  <1> DEFINE Goal == Resolved(aliases'[d], model'[d], best'[d])
  <1>0. ASSUME pc[d] = "done", model'[d] = model[d], aliases'[d] = aliases[d],
               best'[d] = best[d]
        PROVE  Goal
    BY <1>0, ResolvedIsTheClaim DEF IInv
  <1>1. ASSUME NEW r \in Requests, ListAliases(r) PROVE Goal
    BY <1>0, <1>1 DEF ListAliases, Goto, IInv, TypeOK
  <1>2. ASSUME NEW r \in Requests, ExactMatch(r) PROVE Goal
    <2>1. CASE r = d
      BY <1>2, <2>1 DEF ExactMatch, Resolved, IInv, TypeOK
    <2>2. CASE r # d
      BY <1>0, <1>2, <2>2 DEF ExactMatch, Goto, IInv, TypeOK
    <2> QED
      BY <2>1, <2>2
  <1>3. ASSUME NEW r \in Requests, NextAlias(r) PROVE Goal
    BY <1>0, <1>3 DEF NextAlias, InLoop, IInv, TypeOK
  <1>4. ASSUME NEW r \in Requests, EndOfList(r) PROVE Goal
    <2>1. CASE r = d
      <3>1. Visited(d) = Patterns
        <4>1. next[d] - 1 = Len(Order)
          BY <1>4, <2>1, NamesAssumption DEF EndOfList, IInv, TypeOK
        <4> QED
          BY <4>1 DEF Visited, Patterns
      <3>2. Covering(d) \subseteq Visited(d) /\ Enabled(aliases[d]) \subseteq Visited(d)
        BY <3>1 DEF Covering, Enabled
      <3>3. /\ model[d] \notin Enabled(aliases[d])
            /\ best[d] = None => Covering(d) = {}
            /\ best[d] # None =>
                  /\ best[d] \in Covering(d)
                  /\ \A p \in Covering(d) \ {best[d]} : Len(p) < Len(best[d])
        BY <1>4, <2>1, <3>2 DEF EndOfList, Goto, IInv, LoopInv
      <3>4. aliases' = aliases /\ model' = model /\ best' = best
        BY <1>4 DEF EndOfList
      <3> QED
        BY <3>3, <3>4 DEF Resolved, Covering
    <2>2. CASE r # d
      BY <1>0, <1>4, <2>2 DEF EndOfList, Goto, IInv, TypeOK
    <2> QED
      BY <2>1, <2>2
  <1>5. ASSUME NEW r \in Requests, Again(r) PROVE Goal
    BY <1>0, <1>5 DEF Again, Goto, IInv, TypeOK
  <1>6. CASE UNCHANGED requestVars
    BY <1>0, <1>6 DEF requestVars
  <1> QED
    BY <1>1, <1>2, <1>3, <1>4, <1>5, <1>6, PageStep DEF Next, Match

\* A toggle writes a pattern it holds, so none of deleted; and it reads a row that
\* exists, so it gets hold of none.
LEMMA DeletedStep ==
    IInv /\ [Next]_vars => NobodyToggles' /\ DeletedStaysDeleted'
  <1> SUFFICES ASSUME IInv, [Next]_vars PROVE NobodyToggles' /\ DeletedStaysDeleted'
    OBVIOUS
  <1> USE DEF IInv, TypeOK, NobodyToggles, DeletedStaysDeleted
  <1>1. ASSUME NEW p \in Patterns, Delete(p) PROVE NobodyToggles' /\ DeletedStaysDeleted'
    BY <1>1 DEF Delete, editorVars
  <1>2. ASSUME NEW p \in Patterns, NEW a \in Rows, Upsert(p, a)
        PROVE  NobodyToggles' /\ DeletedStaysDeleted'
    BY <1>2 DEF Upsert, editorVars
  <1>3. ASSUME NEW e \in Editors, GetAlias(e)
        PROVE  NobodyToggles' /\ DeletedStaysDeleted'
    <2>1. PICK p \in Patterns : table[p] # None /\ pattern' = [pattern EXCEPT ![e] = p]
      BY <1>3 DEF GetAlias
    <2> QED
      BY <1>3, <2>1 DEF GetAlias
  <1>4. ASSUME NEW e \in Editors, UpsertToggled(e)
        PROVE  NobodyToggles' /\ DeletedStaysDeleted'
    BY <1>4 DEF UpsertToggled
  <1>5. ASSUME NEW r \in Requests, Match(r) PROVE UNCHANGED <<table, deleted, editorVars>>
    BY <1>5 DEF Match, ListAliases, ExactMatch, NextAlias, EndOfList, Again
  <1>6. CASE UNCHANGED <<table, deleted, editorVars>>
    BY <1>6 DEF editorVars
  <1> QED
    BY <1>1, <1>2, <1>3, <1>4, <1>5, <1>6 DEF Next, Edit, vars

----------------------------------------------------------------------------
\* The inductive invariant holds throughout.
THEOREM Invariance == Spec => []IInv
  <1>1. IInv /\ [Next]_vars => IInv'
    BY TypeStep, LoopStep, ResultStep, DeletedStep DEF IInv
  <1> QED
    BY InitIsResolved, <1>1, PTL DEF Spec

\* Every variable keeps its type.
THEOREM TypeCorrect == Spec => []TypeOK
  <1>1. IInv => TypeOK
    BY DEF IInv
  <1> QED
    BY Invariance, <1>1, PTL

\* MatchAlias returns the enabled pattern that is the model, or else the longest
\* that covers it, or none when there is neither.
THEOREM LongestMatchIsReturned == Spec => []LongestMatchWins
  <1>1. IInv => LongestMatchWins
    BY DEF IInv
  <1> QED
    BY Invariance, <1>1, PTL

\* An alias deleted while nobody was toggling it is gone until it is entered again.
THEOREM DeletionsHold == Spec => []DeletedStaysDeleted
  <1>1. IInv => DeletedStaysDeleted
    BY DEF IInv
  <1> QED
    BY Invariance, <1>1, PTL

----------------------------------------------------------------------------
(* MatchAlias is a function of the rows and the model                      *)

\* Two requests for one model that were given the same enabled aliases.
SameQuestion(r, s) ==
    /\ pc[r] = "done" /\ pc[s] = "done"
    /\ model[r] = model[s]
    /\ Enabled(aliases[r]) = Enabled(aliases[s])

\* README.md:114 is a rule and not a preference: such requests are sent to the same
\* alias, whatever rows are disabled or edited between them.
OneAnswer == \A r, s \in Requests : SameQuestion(r, s) => best[r] = best[s]

\* What a finished MatchAlias returned is determined: of two patterns that are both
\* the longest to cover a model neither is longer, so they are one.
THEOREM ResolutionIsUnique == Spec => []OneAnswer
  <1>1. IInv => OneAnswer
    <2> SUFFICES ASSUME IInv, NEW r \in Requests, NEW s \in Requests, SameQuestion(r, s)
                 PROVE  best[r] = best[s]
      BY DEF OneAnswer
    <2> DEFINE enabled == Enabled(aliases[r])
               covering == {p \in enabled : Covers(p, model[r])}
    <2>1. /\ Resolved(aliases[r], model[r], best[r])
          /\ Resolved(aliases[s], model[r], best[s])
          /\ Enabled(aliases[s]) = enabled
      BY ResolvedIsTheClaim DEF SameQuestion, IInv
    <2>2. CASE model[r] \in enabled
      BY <2>1, <2>2 DEF Resolved
    <2>3. CASE model[r] \notin enabled /\ covering = {}
      BY <2>1, <2>3 DEF Resolved
    <2>4. CASE model[r] \notin enabled /\ covering # {}
      <3>1. /\ best[r] \in covering /\ best[s] \in covering
            /\ \A p \in covering \ {best[r]} : Len(p) < Len(best[r])
            /\ \A p \in covering \ {best[s]} : Len(p) < Len(best[s])
        BY <2>1, <2>4 DEF Resolved
      <3>2. Len(best[r]) \in Nat /\ Len(best[s]) \in Nat
        BY <3>1, NamesAssumption DEF Enabled, Patterns
      <3> QED
        BY <3>1, <3>2
    <2> QED
      BY <2>2, <2>3, <2>4
  <1> QED
    BY Invariance, <1>1, PTL
=============================================================================
