----------------------------- MODULE AliasStore -----------------------------
(***************************************************************************)
(* Model aliases: the resolution every proxied request starts with         *)
(* (MatchAlias in store/aliases.go, called by proxy/handler.go) and the    *)
(* alias page that edits, toggles and deletes aliases meanwhile            *)
(* (dashboard/server.go).                                                  *)
(*                                                                         *)
(* Names and patterns are sequences of fragments; a pattern whose last     *)
(* fragment is Star covers every model that starts with the rest of it.    *)
(***************************************************************************)
EXTENDS Naturals, Sequences, SequencesExt

CONSTANTS
    Order,     \* every pattern, in the byte order of ORDER BY pattern
    Models,    \* requested model names
    Targets,   \* target models of an alias
    Star,      \* the wildcard
    None,      \* no alias
    Requests,  \* proxied requests
    Editors    \* handlers of the alias page

Patterns == {Order[i] : i \in 1..Len(Order)}

ASSUME NamesAssumption ==
    /\ Order \in Seq(Seq(STRING) \ {<< >>}) /\ Models \subseteq Seq(STRING)
    /\ \A i, j \in 1..Len(Order) : Order[i] = Order[j] => i = j
ASSUME NoneAssumption ==
    None \notin Patterns /\ None \notin [target : Targets, enabled : BOOLEAN]

\* A row of model_aliases, or None.
Rows == [target : Targets, enabled : BOOLEAN] \cup {None}

VARIABLES
    table,     \* model_aliases
    pc,        \* where each MatchAlias is
    model,     \* its argument
    aliases,   \* what ListAliases returned to it
    next,      \* the position its loop looks at next
    best,      \* the longest prefix so far; in the end, what it returned
    epc,       \* what each editor does: "idle" or "toggle"
    row,       \* the alias a toggle has read
    pattern,   \* the pattern it is about
    deleted    \* history: patterns deleted while nobody was toggling them and
               \* not entered again since

requestVars == <<pc, model, aliases, next, best>>
editorVars == <<epc, row, pattern>>
vars == <<table, deleted, requestVars, editorVars>>

NoAliases == [p \in Patterns |-> None]

Init ==
    /\ table = NoAliases /\ deleted = {}
    /\ pc = [r \in Requests |-> "idle"]
    /\ model \in [Requests -> Models]
    /\ aliases = [r \in Requests |-> NoAliases]
    /\ next = [r \in Requests |-> 1]
    /\ best = [r \in Requests |-> None]
    /\ epc = [e \in Editors |-> "idle"]
    /\ row = [e \in Editors |-> None]
    /\ pattern \in [Editors -> Patterns]

Goto(r, from, to) == pc[r] = from /\ pc' = [pc EXCEPT ![r] = to]

----------------------------------------------------------------------------
(* MatchAlias                                                              *)

Enabled(t) == {p \in Patterns : t[p] # None /\ t[p].enabled}

\* strings.CutSuffix(pattern, "*") and strings.HasPrefix.
IsWild(p) == p[Len(p)] = Star
Prefix(p) == SubSeq(p, 1, Len(p) - 1)
Covers(p, m) == IsWild(p) /\ IsPrefix(Prefix(p), m)

\* A mutated form: the first prefix wins.
First(p, b) == b = None

Longer(p, b) == b = None \/ Len(p) > Len(b)

\* One query: the rows of one moment.
ListAliases(r) ==
    /\ Goto(r, "idle", "loop")
    /\ \E m \in Models : model' = [model EXCEPT ![r] = m]
    /\ aliases' = [aliases EXCEPT ![r] = table]
    /\ next' = [next EXCEPT ![r] = 1]
    /\ best' = [best EXCEPT ![r] = None]
    /\ UNCHANGED <<table, deleted, editorVars>>

Candidate(r) == Order[next[r]]
InLoop(r) == pc[r] = "loop" /\ next[r] <= Len(Order)

\* An iteration that returns: an enabled pattern that is the model itself.
ExactMatch(r) ==
    /\ InLoop(r)
    /\ Candidate(r) \in Enabled(aliases[r]) /\ Candidate(r) = model[r]
    /\ Goto(r, "loop", "done")
    /\ best' = [best EXCEPT ![r] = Candidate(r)]
    /\ UNCHANGED <<table, deleted, model, aliases, next, editorVars>>

\* Any other iteration.
NextAlias(r) ==
    /\ InLoop(r)
    /\ ~(Candidate(r) \in Enabled(aliases[r]) /\ Candidate(r) = model[r])
    /\ best' = IF /\ Candidate(r) \in Enabled(aliases[r])
                  /\ Covers(Candidate(r), model[r])
                  /\ Longer(Candidate(r), best[r])
               THEN [best EXCEPT ![r] = Candidate(r)]
               ELSE best
    /\ next' = [next EXCEPT ![r] = @ + 1]
    /\ UNCHANGED <<table, deleted, pc, model, aliases, editorVars>>

EndOfList(r) ==
    /\ next[r] > Len(Order)
    /\ Goto(r, "loop", "done")
    /\ UNCHANGED <<table, deleted, model, aliases, next, best, editorVars>>

\* The request goes its way; the handler takes another one.
Again(r) ==
    /\ Goto(r, "done", "idle")
    /\ aliases' = [aliases EXCEPT ![r] = NoAliases]
    /\ next' = [next EXCEPT ![r] = 1]
    /\ best' = [best EXCEPT ![r] = None]
    /\ UNCHANGED <<table, deleted, model, editorVars>>

----------------------------------------------------------------------------
(* The alias page                                                          *)

\* aliasUpsert: a new alias, or new values for an old one.
Upsert(p, a) ==
    /\ table' = [table EXCEPT ![p] = a]
    /\ deleted' = deleted \ {p}
    /\ UNCHANGED <<requestVars, editorVars>>

Delete(p) ==
    /\ table' = [table EXCEPT ![p] = None]
    /\ deleted' = IF \E e \in Editors : epc[e] = "toggle" /\ pattern[e] = p
                  THEN deleted ELSE deleted \cup {p}
    /\ UNCHANGED <<requestVars, editorVars>>

\* Two mutated forms: a nil alias is toggled too; the alias is the one the page
\* showed instead of the one in the table.
GetAliasUnchecked(e) ==
    /\ epc[e] = "idle"
    /\ \E p \in Patterns :
          /\ pattern' = [pattern EXCEPT ![e] = p]
          /\ row' = [row EXCEPT ![e] = table[p]]
    /\ epc' = [epc EXCEPT ![e] = "toggle"]
    /\ UNCHANGED <<table, deleted, requestVars>>

GetAliasFromPage(e) ==
    /\ epc[e] = "idle"
    /\ \E p \in Patterns, a \in Rows \ {None} :
          /\ pattern' = [pattern EXCEPT ![e] = p]
          /\ row' = [row EXCEPT ![e] = a]
    /\ epc' = [epc EXCEPT ![e] = "toggle"]
    /\ UNCHANGED <<table, deleted, requestVars>>

\* handleAliasItem, toggle: GetAlias; nothing else when there is no such alias ...
GetAlias(e) ==
    /\ epc[e] = "idle"
    /\ \E p \in Patterns :
          /\ table[p] # None
          /\ pattern' = [pattern EXCEPT ![e] = p]
          /\ row' = [row EXCEPT ![e] = table[p]]
    /\ epc' = [epc EXCEPT ![e] = "toggle"]
    /\ UNCHANGED <<table, deleted, requestVars>>

\* ... and UpsertAlias of what was read, with the other Enabled.
UpsertToggled(e) ==
    /\ epc[e] = "toggle"
    /\ table' = [table EXCEPT ![pattern[e]] =
                    [row[e] EXCEPT !.enabled = ~row[e].enabled]]
    /\ epc' = [epc EXCEPT ![e] = "idle"]
    /\ row' = [row EXCEPT ![e] = None]
    /\ UNCHANGED <<deleted, pattern, requestVars>>

----------------------------------------------------------------------------
Match(r) ==
    \/ ListAliases(r) \/ ExactMatch(r) \/ NextAlias(r) \/ EndOfList(r) \/ Again(r)

Edit(p) == Delete(p) \/ \E a \in Rows \ {None} : Upsert(p, a)

Next ==
    \/ \E r \in Requests : Match(r)
    \/ \E p \in Patterns : Edit(p)
    \/ \E e \in Editors : GetAlias(e) \/ UpsertToggled(e)

Spec == Init /\ [][Next]_vars

----------------------------------------------------------------------------
TypeOK ==
    /\ table \in [Patterns -> Rows] /\ deleted \subseteq Patterns
    /\ pc \in [Requests -> {"idle", "loop", "done"}]
    /\ model \in [Requests -> Models]
    /\ aliases \in [Requests -> [Patterns -> Rows]]
    /\ next \in [Requests -> 1..(Len(Order) + 1)]
    /\ best \in [Requests -> Patterns \cup {None}]
    /\ epc \in [Editors -> {"idle", "toggle"}]
    /\ row \in [Editors -> Rows]
    /\ pattern \in [Editors -> Patterns]
    /\ \A e \in Editors : epc[e] = "toggle" => row[e] # None

\* README.md:114: "Exact patterns win; otherwise the longest prefix* match
\* applies": what MatchAlias returns is the one enabled pattern this names, or
\* none, although its loop meets the patterns in an order that knows nothing of
\* either rule.
LongestMatchWins ==
    \A r \in Requests : pc[r] = "done" =>
        LET enabled == Enabled(aliases[r])
            covering == {p \in enabled : Covers(p, model[r])}
        IN  CASE model[r] \in enabled -> best[r] = model[r]
              [] model[r] \notin enabled /\ covering # {} ->
                    /\ best[r] \in covering
                    /\ \A p \in covering \ {best[r]} : Len(p) < Len(best[r])
              [] OTHER -> best[r] = None

\* dashboard/dashboard_test.go:158: "alias should be deleted".  It is until somebody
\* enters it again, unless a toggle had already read it: that one writes it back.
DeletedStaysDeleted == \A p \in deleted : table[p] = None
=============================================================================
