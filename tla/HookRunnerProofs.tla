-------------------------- MODULE HookRunnerProofs --------------------------
(***************************************************************************)
(* Proofs about HookRunner: for any number of hooks, requests and          *)
(* dashboard handlers, and whatever hooks do, no enabled hook is passed    *)
(* over, no verdict is overruled and edits accumulate.                     *)
(***************************************************************************)
EXTENDS HookRunner, TLAPS

\* What discover has planned so far lies before the entry it looks at next.
PlanIsSorted ==
    \A r \in Requests : \A i \in 1..Len(plan[r]) :
        /\ plan[r][i] < scan[r]
        /\ \A j \in 1..Len(plan[r]) : i < j => plan[r][i] < plan[r][j]

BeforeTheRuns ==
    \A r \in Requests :
        /\ pc[r] = "new" => scan[r] = 1 /\ plan[r] = << >>
        /\ pc[r] \in {"new", "scan"} => ran[r] = << >>

\* Between two entries the hooks enabled all along are planned up to the entry,
\* and everything planned was enabled at some time.
PlanTracksToggles ==
    \A r \in Requests : pc[r] # "new" =>
        /\ \A i \in 1..Len(plan[r]) : plan[r][i] \in everOn[r]
        /\ \A h \in alwaysOn[r] : h < scan[r] => \E i \in 1..Len(plan[r]) : plan[r][i] = h
        /\ pc[r] = "scan" => alwaysOn[r] \subseteq enabled /\ enabled \subseteq everOn[r]

\* The runs are those of the first hooks of the plan.
RunsFollowPlan ==
    \A r \in Requests :
        /\ Len(ran[r]) <= Len(plan[r])
        /\ \A i \in 1..Len(ran[r]) : ran[r][i].hook = plan[r][i]
        /\ pc[r] \in {"run", "output"} => Len(ran[r]) < Len(plan[r])
        /\ pc[r] \in {"passed", "sent", "dropped"} => Len(ran[r]) = Len(plan[r])

\* A blocking run is the last, and the gate is blocked by nothing else.
BlocksAreFinal ==
    \A r \in Requests :
        /\ \A i \in 1..Len(ran[r]) :
              Blocks(ran[r][i].outcome) => i = Len(ran[r]) /\ pc[r] = "blocked"
        /\ pc[r] = "blocked" =>
              Len(ran[r]) > 0 /\ Blocks(ran[r][Len(ran[r])].outcome)

IsEdit(run) == run.outcome.end = "exit0" /\ run.outcome.out \in {"modify", "unusable"}
EditOf(run) == IF run.outcome.out = "modify" THEN run.hook ELSE Unusable

\* The first n of some runs leave the body b, with the last edit among them named: an
\* invariant can carry it on, where EditedBy would need a maximum to exist first.
Leave(runs, n, b) ==
    \/ b = Original /\ \A i \in 1..n : ~IsEdit(runs[i])
    \/ \E m \in 1..n : /\ IsEdit(runs[m]) /\ b = EditOf(runs[m])
                      /\ \A i \in 1..n : IsEdit(runs[i]) => i <= m

\* currentReq is what the runs so far have left.
BodyIsEdited ==
    \A r \in Requests :
        /\ Leave(ran[r], Len(ran[r]), body[r])
        /\ \A i \in 1..Len(ran[r]) : Leave(ran[r], i - 1, ran[r][i].input)

\* A run that the client's leaving cut short or kept from starting leaves a trace
\* that client.Do sees.
CutShort == {"cancelled", "abort"}
CutsAreSeen ==
    \A r \in Requests :
        /\ \A i \in 1..Len(ran[r]) : ran[r][i].outcome.end \in CutShort => ctx[r] = "done"
        /\ pc[r] = "output" /\ outcome[r].end \in CutShort => ctx[r] = "done"
        /\ pc[r] = "sent" => ctx[r] = "live"

IInv ==
    /\ TypeOK
    /\ PlanIsSorted /\ BeforeTheRuns /\ PlanTracksToggles
    /\ RunsFollowPlan /\ BlocksAreFinal
    /\ BodyIsEdited
    /\ CutsAreSeen

----------------------------------------------------------------------------
(* Steps                                                                   *)

\* exec returns to the loop of r, at once or after a run.
Concludes(r, from, o) ==
    Conclude(r, from, o) /\ UNCHANGED <<ctx, scan, plan, outcome, toggleVars>>

\* The steps of r that change nothing but its place.
Moves(r) ==
    \/ EndScan(r) \/ EndOfHooks(r) \/ Send(r)
    \/ /\ MoreHooks(r) /\ ctx[r] = "live" /\ Goto(r, "next", "run")
       /\ UNCHANGED <<reqVars, toggleVars>>

\* Next, with its steps grouped by what they change.
LEMMA NextBySteps ==
    ASSUME [Next]_vars
    PROVE  \/ \E r \in Requests :
                 \/ Discover(r) \/ ScanEntry(r) \/ Moves(r)
                 \/ MoreHooks(r) /\ ctx[r] = "live"
                    /\ Concludes(r, "next", [end |-> "system", out |-> "empty"])
                 \/ MoreHooks(r) /\ ctx[r] = "done"
                    /\ Concludes(r, "next", [end |-> "cancelled", out |-> "empty"])
                 \/ HookEnds(r)
                 \/ Concludes(r, "output", outcome[r])
                 \/ Disconnect(r)
           \/ \E t \in Togglers : ReadState(t) \/ SetEnabled(t)
           \/ UNCHANGED vars
  <1>1. ASSUME NEW r \in Requests, StartHook(r)
        PROVE  \/ Moves(r)
               \/ MoreHooks(r) /\ ctx[r] = "live"
                  /\ Concludes(r, "next", [end |-> "system", out |-> "empty"])
               \/ MoreHooks(r) /\ ctx[r] = "done"
                  /\ Concludes(r, "next", [end |-> "cancelled", out |-> "empty"])
    BY <1>1 DEF StartHook, Moves, Concludes, reqVars
  <1> QED
    BY <1>1 DEF Next, GateStep, Moves, RunReturns, Concludes

\* A move leaves everything but the place alone.
LEMMA MovesOnly == ASSUME NEW r \in Requests, Moves(r)
                   PROVE  UNCHANGED <<reqVars, toggleVars>>
  BY DEF Moves, EndScan, EndOfHooks, Send

\* What is recorded of a run.
Record(r, o) == [hook |-> NextHook(r), input |-> body[r], outcome |-> o]

\* The next hook is in the plan as long as the runs are behind it.
LEMMA NextHookIsAHook ==
    ASSUME TypeOK, NEW r \in Requests, Len(ran[r]) < Len(plan[r])
    PROVE  NextHook(r) \in Hooks
  <1>1. plan[r] \in Seq(Hooks) /\ Len(ran[r]) \in Nat
    BY DEF TypeOK
  <1>2. Len(ran[r]) + 1 \in 1..Len(plan[r])
    BY <1>1
  <1> QED
    BY <1>1, <1>2 DEF NextHook

\* A concluded run is appended to the runs of its request, and of no other.
LEMMA ConcludeAppends ==
    ASSUME TypeOK, NEW r \in Requests, NEW from, NEW o, Concludes(r, from, o)
    PROVE  /\ Len(ran[r]) \in Nat /\ Len(ran'[r]) = Len(ran[r]) + 1
           /\ ran'[r][Len(ran[r]) + 1] = Record(r, o)
           /\ \A i \in 1..Len(ran[r]) : ran'[r][i] = ran[r][i]
           /\ \A q \in Requests \ {r} :
                  ran'[q] = ran[q] /\ pc'[q] = pc[q] /\ body'[q] = body[q]
           /\ pc[r] = from
           /\ \/ Blocks(o) /\ pc'[r] = "blocked" /\ body'[r] = body[r]
              \/ ~Blocks(o) /\ pc'[r] = "next" /\ body'[r] = BodyAfter(NextHook(r), body[r], o)
  <1>1. ran[r] \in Seq(Runs) /\ ran' = [ran EXCEPT ![r] = Append(@, Record(r, o))]
    BY DEF TypeOK, Concludes, Conclude, Record
  <1>2. ran'[r] = Append(ran[r], Record(r, o)) /\ \A q \in Requests \ {r} : ran'[q] = ran[q]
    BY <1>1 DEF TypeOK
  <1>3. /\ Len(ran[r]) \in Nat /\ Len(ran'[r]) = Len(ran[r]) + 1
        /\ ran'[r][Len(ran[r]) + 1] = Record(r, o)
        /\ \A i \in 1..Len(ran[r]) : ran'[r][i] = ran[r][i]
    BY <1>1, <1>2
  <1>4. /\ \A q \in Requests \ {r} : pc'[q] = pc[q] /\ body'[q] = body[q]
        /\ pc[r] = from
        /\ \/ Blocks(o) /\ pc'[r] = "blocked" /\ body'[r] = body[r]
           \/ ~Blocks(o) /\ pc'[r] = "next" /\ body'[r] = BodyAfter(NextHook(r), body[r], o)
    BY DEF TypeOK, Concludes, Conclude, Goto
  <1> QED
    BY <1>2, <1>3, <1>4

----------------------------------------------------------------------------
(* Types                                                                   *)

\* The types hold at the start.
LEMMA InitTypes == Init => TypeOK
  BY HooksAssumption DEF Init, TypeOK, Hooks, Bodies, Outcomes

\* The end of a run keeps the types.
LEMMA ConcludeTypes ==
    ASSUME TypeOK, NEW r \in Requests, NEW from, NEW o \in Outcomes, Concludes(r, from, o),
           Len(ran[r]) < Len(plan[r])
    PROVE  TypeOK'
  <1> USE DEF TypeOK
  <1>1. NextHook(r) \in Hooks
    BY NextHookIsAHook
  <1>2. Record(r, o) \in Runs
    BY <1>1 DEF Record, Runs
  <1>3. ran' \in [Requests -> Seq(Runs)]
    <2>1. ran' = [ran EXCEPT ![r] = Append(@, Record(r, o))]
      BY DEF Concludes, Conclude, Record
    <2>2. Append(ran[r], Record(r, o)) \in Seq(Runs)
      BY <1>2
    <2> QED
      BY <2>1, <2>2
  <1>4. body' \in [Requests -> Bodies]
    <2>1. body[r] \in Bodies
      OBVIOUS
    <2>2. BodyAfter(NextHook(r), body[r], o) \in Bodies
      BY <1>1, <2>1 DEF BodyAfter, Bodies
    <2>3. UNCHANGED body \/ body' = [body EXCEPT ![r] = BodyAfter(NextHook(r), @, o)]
      BY DEF Concludes, Conclude
    <2> QED
      BY <2>2, <2>3
  <1>5. lastRun' \in [Hooks -> {"never", "ok", "failed", "error"}]
    BY <1>1 DEF Concludes, Conclude, StatusClass
  <1>6. pc' \in [Requests -> {"new", "scan", "next", "run", "output", "passed",
                              "blocked", "sent", "dropped"}]
    BY DEF Concludes, Conclude, Goto
  <1> QED
    BY <1>3, <1>4, <1>5, <1>6 DEF Concludes, toggleVars

\* Every step keeps the types; RunReturns needs a hook left in the plan.
LEMMA TypeStep ==
    ASSUME TypeOK, RunsFollowPlan, [Next]_vars
    PROVE  TypeOK'
  <1> USE DEF TypeOK
  <1>1. ASSUME NEW r \in Requests, Discover(r) PROVE TypeOK'
    BY <1>1 DEF Discover, Goto, reqVars
  <1>2. ASSUME NEW r \in Requests, ScanEntry(r) PROVE TypeOK'
    <2>1. scan[r] \in Hooks /\ scan[r] + 1 \in 1..(NHooks + 1)
      BY <1>2, HooksAssumption DEF ScanEntry, Hooks
    <2>2. Append(plan[r], scan[r]) \in Seq(Hooks)
      BY <2>1
    <2>3. scan' \in [Requests -> 1..(NHooks + 1)] /\ plan' \in [Requests -> Seq(Hooks)]
      BY <1>2, <2>1, <2>2 DEF ScanEntry
    <2> QED
      BY <1>2, <2>3 DEF ScanEntry, toggleVars
  <1>3. ASSUME NEW r \in Requests, Moves(r) PROVE TypeOK'
    <2>1. UNCHANGED <<reqVars, toggleVars>>
      BY <1>3, MovesOnly
    <2>2. pc' \in [Requests -> {"new", "scan", "next", "run", "output", "passed",
                                "blocked", "sent", "dropped"}]
      <3>1. PICK p \in {"next", "passed", "sent", "dropped", "run"} :
                   pc' = [pc EXCEPT ![r] = p]
        BY <1>3 DEF Moves, EndScan, EndOfHooks, Send, Goto
      <3> QED
        BY <3>1
    <2> QED
      BY <2>1, <2>2 DEF reqVars, toggleVars
  <1>4. ASSUME NEW r \in Requests, NEW e \in {"system", "cancelled"}, MoreHooks(r),
               Concludes(r, "next", [end |-> e, out |-> "empty"])
        PROVE  TypeOK'
    <2>1. [end |-> e, out |-> "empty"] \in Outcomes
      BY DEF Outcomes
    <2> QED
      BY <1>4, <2>1, ConcludeTypes DEF MoreHooks
  <1>5. ASSUME NEW r \in Requests, HookEnds(r) PROVE TypeOK'
    BY <1>5 DEF HookEnds, Goto, toggleVars
  <1>6. ASSUME NEW r \in Requests, Concludes(r, "output", outcome[r]) PROVE TypeOK'
    <2>1. Len(ran[r]) < Len(plan[r])
      BY <1>6 DEF Concludes, Conclude, RunsFollowPlan
    <2> QED
      BY <1>6, <2>1, ConcludeTypes
  <1>7. ASSUME NEW r \in Requests, Disconnect(r) PROVE TypeOK'
    BY <1>7 DEF Disconnect, toggleVars
  <1>8. ASSUME NEW t \in Togglers, ReadState(t) PROVE TypeOK'
    BY <1>8 DEF ReadState, reqVars
  <1>9. ASSUME NEW t \in Togglers, SetEnabled(t) PROVE TypeOK'
    <2>1. target[t].hook \in Hooks /\ enabled' \subseteq Hooks
      BY <1>9 DEF SetEnabled
    <2> QED
      BY <1>9, <2>1 DEF SetEnabled, reqVars
  <1>10. CASE UNCHANGED vars
    BY <1>10 DEF vars, reqVars, toggleVars
  <1> QED
    BY <1>1, <1>2, <1>3, <1>4, <1>5, <1>6, <1>7, <1>8, <1>9, <1>10, NextBySteps

----------------------------------------------------------------------------
(* discover                                                                *)

PlanInv == PlanIsSorted /\ BeforeTheRuns /\ PlanTracksToggles

\* What the other steps leave to the plan's invariants.
PlanIsUntouched ==
    /\ UNCHANGED <<plan, scan, everOn, alwaysOn, enabled>>
    /\ \A q \in Requests :
          /\ pc'[q] \in {"new", "scan"} => pc'[q] = pc[q] /\ ran'[q] = ran[q]
          /\ pc[q] = "new" => pc'[q] = "new"

\* The loop over the hooks does not touch what discover made ...
LEMMA RunsLeaveThePlan ==
    ASSUME TypeOK, NEW r \in Requests, NEW from \in {"next", "output"}, NEW o,
           Concludes(r, from, o)
    PROVE  PlanIsUntouched
  <1>1. UNCHANGED <<plan, scan, everOn, alwaysOn, enabled>>
    BY DEF Concludes, toggleVars
  <1>2. pc'[r] \in {"next", "blocked"} /\ pc[r] \in {"next", "output"}
    BY ConcludeAppends
  <1>3. \A q \in Requests \ {r} : ran'[q] = ran[q] /\ pc'[q] = pc[q]
    BY ConcludeAppends
  <1> QED
    BY <1>1, <1>2, <1>3 DEF PlanIsUntouched

\* ... nor do the other steps of a request after its scan.
LEMMA MovesLeaveThePlan ==
    ASSUME TypeOK, NEW r \in Requests, Moves(r) \/ HookEnds(r) \/ Disconnect(r)
    PROVE  PlanIsUntouched
  <1> USE DEF TypeOK, PlanIsUntouched
  <1>1. CASE Moves(r)
    <2>1. UNCHANGED <<reqVars, toggleVars>>
      BY <1>1, MovesOnly
    <2>2. PICK p \in {"next", "passed", "sent", "dropped", "run"} :
               pc' = [pc EXCEPT ![r] = p]
      BY <1>1 DEF Moves, EndScan, EndOfHooks, Send, Goto
    <2>3. pc[r] # "new"
      BY <1>1 DEF Moves, EndScan, EndOfHooks, Send, Goto
    <2>4. pc'[r] \notin {"new", "scan"} /\ \A q \in Requests \ {r} : pc'[q] = pc[q]
      BY <2>2
    <2> QED
      BY <2>1, <2>3, <2>4 DEF reqVars, toggleVars
  <1>2. CASE HookEnds(r)
    BY <1>2 DEF HookEnds, Goto, toggleVars
  <1>3. CASE Disconnect(r)
    BY <1>3 DEF Disconnect, toggleVars
  <1> QED
    BY <1>1, <1>2, <1>3

\* Every step keeps the plan sorted and between the toggles.
LEMMA PlanStep ==
    ASSUME TypeOK, PlanInv, [Next]_vars
    PROVE  PlanInv'
  <1> USE DEF PlanInv, PlanIsSorted, BeforeTheRuns, PlanTracksToggles
  <1>1. ASSUME NEW r \in Requests, Discover(r) PROVE PlanInv'
    <2>1. /\ scan[r] = 1 /\ plan[r] = << >> /\ ran[r] = << >>
          /\ UNCHANGED <<scan, plan, ran, enabled>>
      BY <1>1 DEF Discover, Goto, reqVars
    <2>2. /\ everOn' = [everOn EXCEPT ![r] = enabled]
          /\ alwaysOn' = [alwaysOn EXCEPT ![r] = enabled]
          /\ pc'[r] \in {"scan", "passed"} /\ \A q \in Requests \ {r} : pc'[q] = pc[q]
      BY <1>1 DEF Discover, Goto, TypeOK
    <2>3. ASSUME NEW h \in enabled PROVE ~(h < 1)
      BY <2>3 DEF TypeOK, Hooks
    <2>4. PlanIsSorted' /\ BeforeTheRuns'
      BY <2>1, <2>2
    <2>5. PlanTracksToggles'
      BY <2>1, <2>2, <2>3 DEF TypeOK
    <2> QED
      BY <2>4, <2>5
  <1>2. ASSUME NEW r \in Requests, ScanEntry(r) PROVE PlanInv'
    <2> DEFINE k == scan[r]
               n == Len(plan[r])
    <2>1. /\ pc[r] = "scan" /\ k \in Hooks /\ k \in Nat /\ n \in Nat
          /\ plan[r] \in Seq(Hooks) /\ scan'[r] = k + 1
          /\ UNCHANGED <<pc, ran, enabled, everOn, alwaysOn>>
          /\ \A q \in Requests \ {r} : plan'[q] = plan[q] /\ scan'[q] = scan[q]
      BY <1>2, HooksAssumption DEF ScanEntry, TypeOK, Hooks, toggleVars
    <2>2. \A i \in 1..n : plan[r][i] \in Nat
      <3>1. \A i \in 1..n : plan[r][i] \in Hooks
        BY <2>1
      <3> QED
        BY <3>1, HooksAssumption DEF Hooks
    <2>3. CASE k \in enabled
      <3>1. /\ Len(plan'[r]) = n + 1 /\ plan'[r][n + 1] = k
            /\ \A i \in 1..n : plan'[r][i] = plan[r][i]
        BY <1>2, <2>1, <2>3 DEF ScanEntry, TypeOK
      <3>2. \A i \in 1..(n + 1) : i \in 1..n \/ i = n + 1
        BY <2>1
      <3>3. PlanIsSorted'
        <4>1. ASSUME NEW i \in 1..(n + 1)
              PROVE  /\ plan'[r][i] < k + 1
                     /\ \A j \in 1..(n + 1) : i < j => plan'[r][i] < plan'[r][j]
          <5>1. CASE i = n + 1
            BY <2>1, <3>1, <5>1
          <5>2. CASE i \in 1..n
            <6>1. plan'[r][i] = plan[r][i] /\ plan[r][i] < k /\ plan[r][i] \in Nat
              BY <2>1, <2>2, <3>1, <5>2
            <6>2. ASSUME NEW j \in 1..(n + 1), i < j PROVE plan'[r][i] < plan'[r][j]
              BY <2>1, <3>1, <3>2, <5>2, <6>1, <6>2
            <6> QED
              BY <2>1, <6>1, <6>2
          <5> QED
            BY <3>2, <5>1, <5>2
        <4> QED
          BY <2>1, <3>1, <4>1, SMTT(20)
      <3>4. BeforeTheRuns'
        BY <2>1
      <3>5. ASSUME NEW h \in alwaysOn[r], h < k + 1
            PROVE  \E i \in 1..(n + 1) : plan'[r][i] = h
        <4>1. h \in Nat
          BY <3>5 DEF TypeOK, Hooks
        <4>2. CASE h = k
          BY <2>1, <3>1, <4>2, SMTT(20)
        <4>3. CASE h # k
          <5>1. h < k
            BY <2>1, <3>5, <4>1, <4>3
          <5>2. PICK i \in 1..n : plan[r][i] = h
            BY <2>1, <5>1
          <5> QED
            BY <2>1, <3>1, <5>2, SMTT(20)
        <4> QED
          BY <4>2, <4>3
      <3>6. \A i \in 1..(n + 1) : plan'[r][i] \in everOn[r]
        BY <2>1, <2>3, <3>1, <3>2, ZenonT(30)
      <3>7. PlanTracksToggles'
        <4>1. ASSUME NEW q \in Requests, pc'[q] # "new"
              PROVE  /\ \A i \in 1..Len(plan'[q]) : plan'[q][i] \in everOn'[q]
                     /\ \A h \in alwaysOn'[q] : h < scan'[q] =>
                           \E i \in 1..Len(plan'[q]) : plan'[q][i] = h
                     /\ pc'[q] = "scan" => alwaysOn'[q] \subseteq enabled' /\ enabled' \subseteq everOn'[q]
          <5>1. CASE q = r
            BY <2>1, <3>1, <3>5, <3>6, <5>1
          <5>2. CASE q # r
            BY <2>1, <4>1, <5>2
          <5> QED
            BY <5>1, <5>2
        <4> QED
          BY <4>1
      <3> QED
        BY <3>3, <3>4, <3>7
    <2>4. CASE k \notin enabled
      <3>1. plan' = plan
        BY <1>2, <2>4 DEF ScanEntry
      <3>2. PlanIsSorted'
        BY <2>1, <2>2, <3>1
      <3>3. ASSUME NEW h \in alwaysOn[r], h < k + 1 PROVE h < k
        <4>1. h \in Nat /\ h # k
          BY <2>1, <2>4, <3>3 DEF TypeOK, Hooks
        <4> QED
          BY <2>1, <3>3, <4>1
      <3>4. PlanTracksToggles'
        BY <2>1, <3>1, <3>3
      <3> QED
        BY <2>1, <3>1, <3>2, <3>4
    <2> QED
      BY <2>3, <2>4
  <1>3. ASSUME PlanIsUntouched PROVE PlanInv'
    BY <1>3 DEF PlanIsUntouched
  <1>4. ASSUME NEW t \in Togglers, ReadState(t) PROVE PlanInv'
    BY <1>4 DEF ReadState, reqVars
  <1>5. ASSUME NEW t \in Togglers, SetEnabled(t) PROVE PlanInv'
    <2>1. /\ UNCHANGED <<pc, plan, scan, ran>>
          /\ \A q \in Requests :
                /\ everOn'[q] = IF pc[q] = "scan" THEN everOn[q] \cup enabled' ELSE everOn[q]
                /\ alwaysOn'[q] = IF pc[q] = "scan" THEN alwaysOn[q] \cap enabled'
                                                    ELSE alwaysOn[q]
      BY <1>5 DEF SetEnabled, reqVars
    <2>2. PlanIsSorted' /\ BeforeTheRuns'
      BY <2>1
    <2>3. ASSUME NEW q \in Requests, pc'[q] # "new"
          PROVE  /\ \A i \in 1..Len(plan'[q]) : plan'[q][i] \in everOn'[q]
                 /\ \A h \in alwaysOn'[q] : h < scan'[q] =>
                       \E i \in 1..Len(plan'[q]) : plan'[q][i] = h
                 /\ pc'[q] = "scan" =>
                       alwaysOn'[q] \subseteq enabled' /\ enabled' \subseteq everOn'[q]
      <3>1. everOn[q] \subseteq everOn'[q] /\ alwaysOn'[q] \subseteq alwaysOn[q]
        BY <2>1
      <3>2. \A i \in 1..Len(plan'[q]) : plan'[q][i] \in everOn'[q]
        BY <2>1, <2>3, <3>1
      <3>3. \A h \in alwaysOn'[q] : h < scan'[q] =>
                \E i \in 1..Len(plan'[q]) : plan'[q][i] = h
        BY <2>1, <2>3, <3>1
      <3>4. pc'[q] = "scan" => alwaysOn'[q] \subseteq enabled' /\ enabled' \subseteq everOn'[q]
        BY <2>1
      <3> QED
        BY <3>2, <3>3, <3>4
    <2> QED
      BY <2>2, <2>3
  <1>6. CASE UNCHANGED vars
    BY <1>6 DEF vars, reqVars, toggleVars
  <1> QED
    BY <1>1, <1>2, <1>3, <1>4, <1>5, <1>6, NextBySteps, RunsLeaveThePlan, MovesLeaveThePlan

----------------------------------------------------------------------------
(* The loop of RunPreRequest                                               *)

RunsInv == RunsFollowPlan /\ BlocksAreFinal /\ CutsAreSeen

\* The end of a run extends the runs by the next hook's, and blocks if it should.
LEMMA ConcludeKeepsRuns ==
    ASSUME TypeOK, RunsInv, NEW r \in Requests, NEW from \in {"next", "output"},
           NEW o \in Outcomes, Concludes(r, from, o), Len(ran[r]) < Len(plan[r]),
           o.end \in CutShort => ctx[r] = "done"
    PROVE  RunsInv'
  <1> DEFINE n == Len(ran[r])
  <1>1. /\ n \in Nat /\ Len(plan[r]) \in Nat
        /\ Len(ran'[r]) = n + 1 /\ ran'[r][n + 1] = Record(r, o)
        /\ \A i \in 1..n : ran'[r][i] = ran[r][i]
        /\ \A q \in Requests \ {r} : ran'[q] = ran[q] /\ pc'[q] = pc[q]
        /\ pc[r] \in {"next", "output"}
        /\ (Blocks(o) /\ pc'[r] = "blocked") \/ (~Blocks(o) /\ pc'[r] = "next")
    BY ConcludeAppends DEF TypeOK
  <1>2. UNCHANGED <<ctx, plan, outcome>>
    BY DEF Concludes
  <1>3. \A i \in 1..(n + 1) : i \in 1..n \/ i = n + 1
    BY <1>1
  <1>4. Record(r, o).hook = plan[r][n + 1] /\ Record(r, o).outcome = o
    <2>1. NextHook(r) = plan[r][n + 1]
      BY DEF NextHook
    <2>2. Record(r, o).hook = NextHook(r) /\ Record(r, o).outcome = o
      BY DEF Record
    <2> QED
      BY <2>1, <2>2
  <1>5. RunsFollowPlan'
    <2>1. /\ n + 1 <= Len(plan[r])
          /\ \A i \in 1..(n + 1) : ran'[r][i].hook = plan[r][i]
      BY <1>1, <1>3, <1>4, SMTT(20) DEF RunsInv, RunsFollowPlan
    <2> QED
      BY <1>1, <1>2, <2>1 DEF RunsInv, RunsFollowPlan
  <1>6. BlocksAreFinal'
    <2>1. ASSUME NEW i \in 1..n PROVE ~Blocks(ran'[r][i].outcome)
      <3>1. ~Blocks(ran[r][i].outcome)
        BY <1>1 DEF RunsInv, BlocksAreFinal
      <3>2. ran'[r][i] = ran[r][i]
        BY <1>1
      <3> QED
        BY <3>1, <3>2
    <2>2. ran'[r][n + 1].outcome = o
      BY <1>1, <1>4
    <2>3. /\ \A i \in 1..(n + 1) :
                Blocks(ran'[r][i].outcome) => i = n + 1 /\ pc'[r] = "blocked"
          /\ pc'[r] = "blocked" => n + 1 > 0 /\ Blocks(ran'[r][n + 1].outcome)
      BY <1>1, <1>3, <2>1, <2>2
    <2> QED
      BY <1>1, <2>3, SMTT(20) DEF RunsInv, BlocksAreFinal, Blocks, IsError, ExitCodeIsZero
  <1>7. CutsAreSeen'
    <2>1. \A i \in 1..(n + 1) : ran'[r][i].outcome.end \in CutShort => ctx[r] = "done"
      BY <1>1, <1>3, <1>4 DEF RunsInv, CutsAreSeen
    <2> QED
      BY <1>1, <1>2, <2>1 DEF RunsInv, CutsAreSeen
  <1> QED
    BY <1>5, <1>6, <1>7 DEF RunsInv

\* Every step keeps the runs a prefix of the plan with no verdict overruled.
LEMMA RunsStep ==
    ASSUME TypeOK, PlanInv, RunsInv, [Next]_vars
    PROVE  RunsInv'
  <1>0. \A r \in Requests : pc[r] \in {"new", "scan"} => ran[r] = << >> /\ Len(ran[r]) = 0
    BY DEF PlanInv, BeforeTheRuns
  <1>1. ASSUME NEW r \in Requests, Discover(r) PROVE RunsInv'
    <2>1. /\ plan[r] = << >> /\ ran[r] = << >> /\ UNCHANGED <<plan, ran, ctx, outcome>>
          /\ pc'[r] \in {"scan", "passed"} /\ \A q \in Requests \ {r} : pc'[q] = pc[q]
      BY <1>1 DEF Discover, Goto, reqVars, TypeOK, PlanInv, BeforeTheRuns
    <2> QED
      BY <2>1 DEF RunsInv, RunsFollowPlan, BlocksAreFinal, CutsAreSeen
  <1>2. ASSUME NEW r \in Requests, ScanEntry(r) PROVE RunsInv'
    <2>1. /\ pc[r] = "scan" /\ UNCHANGED <<pc, ran, ctx, outcome>>
          /\ \A q \in Requests \ {r} : plan'[q] = plan[q]
      BY <1>2 DEF ScanEntry, TypeOK
    <2>2. Len(plan'[r]) \in Nat
      <3>1. plan'[r] \in Seq(Hooks)
        BY <1>2, TypeStep DEF TypeOK, RunsInv
      <3> QED
        BY <3>1
    <2> QED
      BY <1>0, <2>1, <2>2 DEF RunsInv, RunsFollowPlan, BlocksAreFinal, CutsAreSeen
  <1>3. ASSUME NEW r \in Requests, Moves(r) PROVE RunsInv'
    <2>1. UNCHANGED <<plan, ran, ctx, outcome>>
      BY <1>3, MovesOnly DEF reqVars
    <2>2. /\ pc[r] \in {"scan", "next", "passed"} /\ pc'[r] \in {"next", "passed", "sent", "dropped", "run"}
          /\ \A q \in Requests \ {r} : pc'[q] = pc[q]
          /\ pc'[r] = "run" => Len(ran[r]) < Len(plan[r])
          /\ pc'[r] = "passed" => Len(ran[r]) = Len(plan[r])
          /\ pc'[r] \in {"sent", "dropped"} => pc[r] = "passed"
          /\ pc'[r] = "sent" => ctx[r] = "live"
      BY <1>3 DEF Moves, EndScan, EndOfHooks, Send, Goto, MoreHooks, TypeOK
    <2> QED
      BY <2>1, <2>2 DEF RunsInv, RunsFollowPlan, BlocksAreFinal, CutsAreSeen
  <1>4. ASSUME NEW r \in Requests, NEW e \in {"system", "cancelled"}, MoreHooks(r),
               e = "cancelled" => ctx[r] = "done",
               Concludes(r, "next", [end |-> e, out |-> "empty"])
        PROVE  RunsInv'
    <2>1. /\ [end |-> e, out |-> "empty"] \in Outcomes
          /\ [end |-> e, out |-> "empty"].end \in CutShort => ctx[r] = "done"
      BY <1>4 DEF Outcomes, CutShort
    <2> QED
      BY <1>4, <2>1, ConcludeKeepsRuns DEF MoreHooks
  <1>5. ASSUME NEW r \in Requests, HookEnds(r) PROVE RunsInv'
    <2>1. /\ pc[r] = "run" /\ pc'[r] = "output" /\ UNCHANGED <<plan, ran, ctx>>
          /\ \A q \in Requests \ {r} : pc'[q] = pc[q] /\ outcome'[q] = outcome[q]
          /\ outcome'[r].end \in CutShort => ctx[r] = "done"
      BY <1>5 DEF HookEnds, Goto, TypeOK, CutShort
    <2> QED
      BY <2>1, SMTT(20) DEF RunsInv, RunsFollowPlan, BlocksAreFinal, CutsAreSeen
  <1>6. ASSUME NEW r \in Requests, Concludes(r, "output", outcome[r]) PROVE RunsInv'
    <2>1. pc[r] = "output"
      BY <1>6 DEF Concludes, Conclude
    <2>2. Len(ran[r]) < Len(plan[r]) /\ (outcome[r].end \in CutShort => ctx[r] = "done")
      BY <2>1 DEF RunsInv, RunsFollowPlan, CutsAreSeen
    <2>3. outcome[r] \in Outcomes
      BY DEF TypeOK
    <2> QED
      BY <1>6, <2>2, <2>3, ConcludeKeepsRuns
  <1>7. ASSUME NEW r \in Requests, Disconnect(r) PROVE RunsInv'
    <2>1. /\ pc[r] # "sent" /\ UNCHANGED <<pc, plan, ran, outcome>> /\ ctx'[r] = "done"
          /\ \A q \in Requests \ {r} : ctx'[q] = ctx[q]
      BY <1>7 DEF Disconnect, TypeOK
    <2> QED
      BY <2>1 DEF RunsInv, RunsFollowPlan, BlocksAreFinal, CutsAreSeen
  <1>8. CASE UNCHANGED vars \/ \E t \in Togglers : ReadState(t) \/ SetEnabled(t)
    <2>1. UNCHANGED <<pc, ctx, plan, ran, outcome>>
      BY <1>8 DEF vars, ReadState, SetEnabled, reqVars
    <2> QED
      BY <2>1 DEF RunsInv, RunsFollowPlan, BlocksAreFinal, CutsAreSeen
  <1> QED
    BY <1>1, <1>2, <1>3, <1>4, <1>5, <1>6, <1>7, <1>8, NextBySteps

----------------------------------------------------------------------------
(* The body                                                                *)

\* The relation of the invariant determines the function of the property.
LEMMA LeaveIsEditedBy ==
    ASSUME NEW r \in Requests, NEW n \in Nat, NEW b, Leave(ran[r], n, b)
    PROVE  b = EditedBy(r, n)
  <1> DEFINE edits == {i \in 1..n : /\ ran[r][i].outcome.end = "exit0"
                                    /\ ran[r][i].outcome.out \in {"modify", "unusable"}}
             last == CHOOSE i \in edits : \A j \in edits : j <= i
  <1>1. \A i \in 1..n : i \in edits <=> IsEdit(ran[r][i])
    BY DEF IsEdit
  <1>2. CASE b = Original /\ \A i \in 1..n : ~IsEdit(ran[r][i])
    <2>1. edits = {}
      BY <1>1, <1>2
    <2> QED
      BY <1>2, <2>1 DEF EditedBy
  <1>3. ASSUME NEW m \in 1..n, IsEdit(ran[r][m]), b = EditOf(ran[r][m]),
               \A i \in 1..n : IsEdit(ran[r][i]) => i <= m
        PROVE  b = EditedBy(r, n)
    <2>1. m \in edits /\ \A j \in edits : j <= m
      BY <1>1, <1>3
    <2>2. last \in edits /\ \A j \in edits : j <= last
      BY <2>1
    <2>3. last = m
      <3>1. last <= m /\ m <= last /\ last \in 1..n
        BY <2>1, <2>2
      <3> HIDE DEF last
      <3> QED
        BY <3>1
    <2>4. EditedBy(r, n) = IF ran[r][last].outcome.out = "modify" THEN ran[r][last].hook
                                                                  ELSE Unusable
      BY <2>1 DEF EditedBy
    <2> QED
      BY <1>3, <2>3, <2>4 DEF EditOf
  <1> QED
    BY <1>2, <1>3 DEF Leave

\* Later runs do not change what earlier ones left ...
LEMMA LeaveIsStable ==
    ASSUME NEW runs, NEW more, NEW n \in Nat, NEW b, Leave(runs, n, b),
           \A i \in 1..n : more[i] = runs[i]
    PROVE  Leave(more, n, b)
  <1>1. CASE b = Original /\ \A i \in 1..n : ~IsEdit(runs[i])
    BY <1>1 DEF Leave
  <1>2. ASSUME NEW m \in 1..n, IsEdit(runs[m]), b = EditOf(runs[m]),
               \A i \in 1..n : IsEdit(runs[i]) => i <= m
        PROVE  Leave(more, n, b)
    BY <1>2 DEF Leave
  <1> QED
    BY <1>1, <1>2 DEF Leave

\* ... and one more run replaces it by its edit, or leaves it.
LEMMA LeaveAfterRun ==
    ASSUME NEW runs, NEW more, NEW n \in Nat, NEW b, Leave(runs, n, b),
           \A i \in 1..n : more[i] = runs[i],
           NEW c, c = IF IsEdit(more[n + 1]) THEN EditOf(more[n + 1]) ELSE b
    PROVE  Leave(more, n + 1, c)
  <1>1. n + 1 \in 1..(n + 1) /\ \A i \in 1..(n + 1) : i <= n + 1
    OBVIOUS
  <1>2. \A i \in 1..(n + 1) : i \in 1..n \/ i = n + 1
    OBVIOUS
  <1>3. CASE IsEdit(more[n + 1])
    BY <1>1, <1>3 DEF Leave
  <1>4. CASE ~IsEdit(more[n + 1])
    <2>1. Leave(more, n, b)
      BY LeaveIsStable
    <2>2. CASE b = Original /\ \A i \in 1..n : ~IsEdit(more[i])
      BY <1>2, <1>4, <2>2 DEF Leave
    <2>3. ASSUME NEW m \in 1..n, IsEdit(more[m]), b = EditOf(more[m]),
                 \A i \in 1..n : IsEdit(more[i]) => i <= m
          PROVE  Leave(more, n + 1, b)
      <3>1. m \in 1..(n + 1) /\ \A i \in 1..(n + 1) : IsEdit(more[i]) => i <= m
        BY <1>2, <1>4, <2>3
      <3> QED
        BY <2>3, <3>1 DEF Leave
    <2> QED
      BY <1>4, <2>1, <2>2, <2>3 DEF Leave
  <1> QED
    BY <1>3, <1>4

\* The loop body and the definition of an edit agree: what RunPreRequest makes of a
\* run is to take its edit, if it is one, and to keep the body otherwise.
LEMMA EditOrKeep ==
    ASSUME TypeOK, NEW r \in Requests, NEW from, NEW o \in Outcomes, Concludes(r, from, o)
    PROVE  body'[r] = IF IsEdit(Record(r, o)) THEN EditOf(Record(r, o)) ELSE body[r]
  <1>1. Record(r, o).outcome = o /\ Record(r, o).hook = NextHook(r)
    BY DEF Record
  <1>2. \/ Blocks(o) /\ body'[r] = body[r]
        \/ ~Blocks(o) /\ body'[r] = BodyAfter(NextHook(r), body[r], o)
    BY ConcludeAppends
  <1>3. IsEdit(Record(r, o)) <=> o.end = "exit0" /\ o.out \in {"modify", "unusable"}
    BY <1>1 DEF IsEdit
  <1>4. EditOf(Record(r, o)) = IF o.out = "modify" THEN NextHook(r) ELSE Unusable
    BY <1>1 DEF EditOf
  <1>5. CASE Blocks(o)
    BY <1>2, <1>3, <1>5 DEF Blocks, IsError, ExitCodeIsZero
  <1>6. CASE ~Blocks(o)
    <2>1. CASE o.end = "exit0" /\ o.out = "modify"
      BY <1>2, <1>3, <1>4, <1>6, <2>1 DEF BodyAfter, IsError
    <2>2. CASE o.end = "exit0" /\ o.out = "unusable"
      BY <1>2, <1>3, <1>4, <1>6, <2>2 DEF BodyAfter, IsError
    <2>3. CASE ~(o.end = "exit0" /\ o.out \in {"modify", "unusable"})
      <3>1. body'[r] = BodyAfter(NextHook(r), body[r], o) /\ ~IsEdit(Record(r, o))
        BY <1>2, <1>3, <1>6, <2>3
      <3>2. CASE IsError(o)
        <4>1. o.out \notin {"modify", "unusable"}
          BY <3>2 DEF IsError, Outcomes, Started
        <4> QED
          BY <3>1, <3>2, <4>1 DEF BodyAfter
      <3>3. CASE ~IsError(o)
        <4>1. o.end = "exit0" /\ o.out # "block"
          BY <1>6, <3>3 DEF Blocks, ExitCodeIsZero
        <4> QED
          BY <2>3, <3>1, <3>3, <4>1 DEF BodyAfter
      <3> QED
        BY <3>2, <3>3
    <2> QED
      BY <2>1, <2>2, <2>3
  <1> QED
    BY <1>5, <1>6

\* Every step keeps the body what the runs have left.
LEMMA BodyStep ==
    ASSUME TypeOK, RunsInv, BodyIsEdited, [Next]_vars
    PROVE  BodyIsEdited'
  <1>1. \A r \in Requests : Len(ran[r]) \in Nat
    BY DEF TypeOK
  <1>2. ASSUME NEW r \in Requests, NEW from, NEW o \in Outcomes, Concludes(r, from, o)
        PROVE  BodyIsEdited'
    <2> DEFINE n == Len(ran[r])
    <2>1. /\ n \in Nat /\ Len(ran'[r]) = n + 1 /\ ran'[r][n + 1] = Record(r, o)
          /\ \A i \in 1..n : ran'[r][i] = ran[r][i]
          /\ \A q \in Requests \ {r} : ran'[q] = ran[q] /\ body'[q] = body[q]
      BY <1>2, ConcludeAppends
    <2>2. body'[r] = IF IsEdit(Record(r, o)) THEN EditOf(Record(r, o)) ELSE body[r]
      BY <1>2, EditOrKeep
    <2>3. Leave(ran[r], n, body[r]) /\ \A i \in 1..n : Leave(ran[r], i - 1, ran[r][i].input)
      BY DEF BodyIsEdited
    <2> HIDE DEF n
    <2>4. Leave(ran'[r], n + 1, body'[r])
      BY <2>1, <2>2, <2>3, LeaveAfterRun
    <2>5. ASSUME NEW i \in 1..(n + 1) PROVE Leave(ran'[r], i - 1, ran'[r][i].input)
      <3>1. CASE i \in 1..n
        <4>1. i - 1 \in Nat /\ \A j \in 1..(i - 1) : ran'[r][j] = ran[r][j]
          BY <2>1, <3>1
        <4>2. Leave(ran[r], i - 1, ran[r][i].input) /\ ran'[r][i] = ran[r][i]
          BY <2>1, <2>3, <3>1
        <4> QED
          BY <4>1, <4>2, LeaveIsStable
      <3>2. CASE i = n + 1
        <4>1. i - 1 = n /\ ran'[r][i].input = body[r]
          BY <2>1, <3>2 DEF Record
        <4>2. Leave(ran'[r], n, body[r])
          BY <2>1, <2>3, LeaveIsStable
        <4> QED
          BY <4>1, <4>2
      <3> QED
        BY <2>1, <3>1, <3>2
    <2> QED
      BY <2>1, <2>4, <2>5 DEF BodyIsEdited
  <1>3. CASE UNCHANGED <<ran, body>>
    BY <1>3 DEF BodyIsEdited
  <1>4. ASSUME NEW r \in Requests, NEW e \in {"system", "cancelled"},
               Concludes(r, "next", [end |-> e, out |-> "empty"])
        PROVE  BodyIsEdited'
    <2>1. [end |-> e, out |-> "empty"] \in Outcomes
      BY DEF Outcomes
    <2> QED
      BY <1>2, <1>4, <2>1
  <1>5. ASSUME NEW r \in Requests, Concludes(r, "output", outcome[r]) PROVE BodyIsEdited'
    <2>1. outcome[r] \in Outcomes
      BY DEF TypeOK
    <2> QED
      BY <1>2, <1>5, <2>1
  <1>6. ASSUME NEW r \in Requests,
               Discover(r) \/ ScanEntry(r) \/ Moves(r) \/ HookEnds(r) \/ Disconnect(r)
        PROVE  UNCHANGED <<ran, body>>
    BY <1>6, MovesOnly DEF Discover, ScanEntry, HookEnds, Disconnect, reqVars
  <1>7. ASSUME UNCHANGED vars \/ \E t \in Togglers : ReadState(t) \/ SetEnabled(t)
        PROVE  UNCHANGED <<ran, body>>
    BY <1>7 DEF vars, ReadState, SetEnabled, reqVars
  <1> QED
    BY <1>3, <1>4, <1>5, <1>6, <1>7, NextBySteps

----------------------------------------------------------------------------
(* The theorems                                                            *)

\* The invariant holds at the start.
LEMMA InitHolds == Init => IInv
  <1> SUFFICES ASSUME Init PROVE IInv
    OBVIOUS
  <1>1. TypeOK
    BY InitTypes
  <1>2. \A r \in Requests : /\ pc[r] = "new" /\ ctx[r] = "live" /\ scan[r] = 1
                            /\ plan[r] = << >> /\ ran[r] = << >> /\ body[r] = Original
    BY DEF Init
  <1>3. PlanIsSorted /\ BeforeTheRuns /\ PlanTracksToggles
    BY <1>2 DEF PlanIsSorted, BeforeTheRuns, PlanTracksToggles
  <1>4. RunsFollowPlan /\ BlocksAreFinal /\ CutsAreSeen
    BY <1>2 DEF RunsFollowPlan, BlocksAreFinal, CutsAreSeen
  <1>5. BodyIsEdited
    BY <1>2 DEF BodyIsEdited, Leave
  <1> QED
    BY <1>1, <1>3, <1>4, <1>5 DEF IInv

\* The inductive invariant of the gate.
THEOREM Invariance == Spec => []IInv
  <1>1. IInv /\ [Next]_vars => IInv'
    <2> SUFFICES ASSUME IInv, [Next]_vars PROVE IInv'
      OBVIOUS
    <2>1. TypeOK /\ PlanInv /\ RunsInv /\ BodyIsEdited
      BY DEF IInv, PlanInv, RunsInv
    <2>2. TypeOK' /\ PlanInv' /\ RunsInv' /\ BodyIsEdited'
      BY <2>1, TypeStep, PlanStep, RunsStep, BodyStep DEF RunsInv
    <2> QED
      BY <2>2 DEF IInv, PlanInv, RunsInv
  <1> QED
    BY <1>1, InitHolds, PTL DEF Spec

\* Every variable of the gate stays in its type (the structures of hooks/runner.go).
THEOREM TypeCorrect == Spec => []TypeOK
  <1>1. IInv => TypeOK
    BY DEF IInv
  <1> QED
    BY <1>1, Invariance, PTL

\* RunPreRequest: for any set of hooks the planned ones run in order, all of them
\* before a pass, and a verdict to block is final.
THEOREM GateCompletes == Spec => []GateIsComplete
  <1>1. IInv => GateIsComplete
    <2> SUFFICES ASSUME IInv, NEW r \in Requests
                 PROVE  /\ \A i \in 1..Len(ran[r]) : ran[r][i].hook = plan[r][i]
                        /\ \A i, j \in 1..Len(plan[r]) : i < j => plan[r][i] < plan[r][j]
                        /\ pc[r] \in {"passed", "sent"} => Len(ran[r]) = Len(plan[r])
                        /\ \A i \in 1..Len(ran[r]) :
                              LET o == ran[r][i].outcome
                              IN  o.out = "block" \/ (o.end = "exit1" /\ o.out # "garbage") =>
                                     i = Len(ran[r]) /\ pc[r] = "blocked"
                        /\ pc[r] = "blocked" =>
                              LET o == ran[r][Len(ran[r])].outcome
                              IN  o.out = "block" \/ o.end \in {"exit1", "timeout", "abort"}
      BY DEF GateIsComplete
    <2>1. /\ \A i \in 1..Len(ran[r]) : ran[r][i].hook = plan[r][i]
          /\ \A i, j \in 1..Len(plan[r]) : i < j => plan[r][i] < plan[r][j]
          /\ pc[r] \in {"passed", "sent"} => Len(ran[r]) = Len(plan[r])
      BY DEF IInv, PlanIsSorted, RunsFollowPlan
    <2>2. \A i \in 1..Len(ran[r]) : ran[r][i].outcome \in Outcomes
      <3>1. ran[r] \in Seq(Runs)
        BY DEF IInv, TypeOK
      <3>2. \A i \in 1..Len(ran[r]) : ran[r][i] \in Runs
        BY <3>1
      <3> QED
        BY <3>2 DEF Runs
    <2>3. ASSUME NEW o \in Outcomes, o.out = "block" \/ (o.end = "exit1" /\ o.out # "garbage")
          PROVE  Blocks(o)
      BY <2>3 DEF Outcomes, Started, Blocks, IsError, ExitCodeIsZero
    <2>4. ASSUME NEW o \in Outcomes, Blocks(o)
          PROVE  o.out = "block" \/ o.end \in {"exit1", "timeout", "abort"}
      BY <2>4 DEF Outcomes, Started, Blocks, IsError, ExitCodeIsZero
    <2>5. ASSUME NEW i \in 1..Len(ran[r]), Blocks(ran[r][i].outcome)
          PROVE  i = Len(ran[r]) /\ pc[r] = "blocked"
      BY <2>5 DEF IInv, BlocksAreFinal
    <2>6. ASSUME pc[r] = "blocked"
          PROVE  ran[r][Len(ran[r])].outcome \in Outcomes /\ Blocks(ran[r][Len(ran[r])].outcome)
      <3>1. Len(ran[r]) > 0 /\ Blocks(ran[r][Len(ran[r])].outcome)
        BY <2>6 DEF IInv, BlocksAreFinal
      <3>2. Len(ran[r]) \in 1..Len(ran[r])
        BY <3>1 DEF IInv, TypeOK
      <3> QED
        BY <2>2, <3>1, <3>2
    <2> QED
      BY <2>1, <2>2, <2>3, <2>4, <2>5, <2>6
  <1> QED
    BY <1>1, Invariance, PTL

\* Every hook is handed the latest successful edit before it, and the provider the
\* last of all (README.md:128).
THEOREM EditsSerial == Spec => []EditsAreSerial
  <1>1. IInv => EditsAreSerial
    <2> SUFFICES ASSUME IInv, NEW r \in Requests
                 PROVE  /\ \A i \in 1..Len(ran[r]) : ran[r][i].input = EditedBy(r, i - 1)
                        /\ body[r] = EditedBy(r, Len(ran[r]))
      BY DEF EditsAreSerial, Forwarded
    <2>1. Len(ran[r]) \in Nat /\ Leave(ran[r], Len(ran[r]), body[r])
      BY DEF IInv, TypeOK, BodyIsEdited
    <2>2. ASSUME NEW i \in 1..Len(ran[r])
          PROVE  i - 1 \in Nat /\ Leave(ran[r], i - 1, ran[r][i].input)
      BY <2>1, <2>2 DEF IInv, BodyIsEdited
    <2> QED
      BY <2>1, <2>2, LeaveIsEditedBy
  <1> QED
    BY <1>1, Invariance, PTL

\* What discover plans lies between the hooks enabled all through its scan and those
\* enabled at some time of it, however many toggles fall into it.
THEOREM PlansFollowToggles == Spec => []PlanFollowsToggles
  <1>1. IInv => PlanFollowsToggles
    <2> SUFFICES ASSUME IInv, NEW r \in Requests, pc[r] \notin {"new", "scan"}, scan[r] > NHooks
                 PROVE  /\ \A i \in 1..Len(plan[r]) : plan[r][i] \in everOn[r]
                        /\ \A h \in alwaysOn[r] : \E i \in 1..Len(plan[r]) : plan[r][i] = h
      BY DEF PlanFollowsToggles
    <2>1. \A h \in alwaysOn[r] : h < scan[r]
      BY HooksAssumption DEF IInv, TypeOK, Hooks
    <2> QED
      BY <2>1 DEF IInv, PlanTracksToggles
  <1> QED
    BY <1>1, Invariance, PTL

\* A gate that the client's leaving opened is never gone through to the provider.
THEOREM SkippedGatesNeverSend == Spec => []SkippedGateIsNeverSent
  <1>1. IInv => SkippedGateIsNeverSent
    BY DEF IInv, CutsAreSeen, CutShort, SkippedGateIsNeverSent
  <1> QED
    BY <1>1, Invariance, PTL

----------------------------------------------------------------------------
(* The runner implements the gate                                          *)

\* A request has a client until it enters, and no hook runs before the scan is over.
ScanComesFirst ==
    \A r \in Requests :
        /\ pc[r] = "new" => ctx[r] = "live"
        /\ pc[r] \in {"next", "run", "output"} => scan[r] > NHooks

\* Every step keeps the scan before the runs.
LEMMA ScanComesFirstStep ==
    ASSUME TypeOK, ScanComesFirst, [Next]_vars
    PROVE  ScanComesFirst'
  <1> USE DEF TypeOK, ScanComesFirst
  <1>1. ASSUME NEW r \in Requests, Discover(r) PROVE ScanComesFirst'
    BY <1>1 DEF Discover, Goto, reqVars
  <1>2. ASSUME NEW r \in Requests, ScanEntry(r) PROVE ScanComesFirst'
    BY <1>2 DEF ScanEntry
  <1>3. ASSUME NEW r \in Requests, Moves(r) PROVE ScanComesFirst'
    <2>1. UNCHANGED <<ctx, scan>>
      BY <1>3, MovesOnly DEF reqVars
    <2> QED
      BY <1>3, <2>1 DEF Moves, EndScan, EndOfHooks, Send, Goto
  <1>4. ASSUME NEW r \in Requests, NEW from \in {"next", "output"}, NEW o, Concludes(r, from, o)
        PROVE  ScanComesFirst'
    <2>1. /\ \A q \in Requests \ {r} : pc'[q] = pc[q]
          /\ pc[r] = from /\ pc'[r] \in {"blocked", "next"}
          /\ UNCHANGED <<ctx, scan>>
      BY <1>4, ConcludeAppends DEF Concludes
    <2> QED
      BY <2>1
  <1>5. ASSUME NEW r \in Requests, HookEnds(r) PROVE ScanComesFirst'
    BY <1>5 DEF HookEnds, Goto
  <1>6. ASSUME NEW r \in Requests, Disconnect(r) PROVE ScanComesFirst'
    BY <1>6 DEF Disconnect
  <1>7. CASE UNCHANGED vars \/ \E t \in Togglers : ReadState(t) \/ SetEnabled(t)
    BY <1>7 DEF vars, ReadState, SetEnabled, reqVars
  <1> QED
    BY <1>1, <1>2, <1>3, <1>4, <1>5, <1>6, <1>7, NextBySteps

\* What the gate does not see.
LEMMA GateStutter ==
    ASSUME UNCHANGED <<enabled, alwaysOn, ran, body>>,
           \A q \in Requests : /\ GateState(q)' = GateState(q)
                               /\ pc'[q] = "sent" <=> pc[q] = "sent"
    PROVE  UNCHANGED AbstractGate!vars
  <1>1. \A q \in Requests : HooksRun(q)' = HooksRun(q) /\ Forwarded(q)' = Forwarded(q)
    BY DEF HooksRun, Forwarded
  <1> QED
    BY <1>1 DEF AbstractGate!vars

\* discover enters, the client leaves, and client.Do sends or does not.
LEMMA GateMoves ==
    ASSUME IInv, ScanComesFirst, NEW r \in Requests,
           Discover(r) \/ Disconnect(r) \/ Send(r)
    PROVE  AbstractGate!Next
  <1> DEFINE state == [q \in Requests |-> GateState(q)]
             done == [q \in Requests |-> HooksRun(q)]
             forwarded == [q \in Requests |-> IF pc[q] = "sent" THEN Forwarded(q) ELSE Nothing]
  <1>0. TypeOK /\ CutsAreSeen /\ ScanComesFirst
    BY DEF IInv
  <1>1. /\ UNCHANGED <<enabled, ran, body>>
        /\ \A q \in Requests \ {r} : /\ pc'[q] = pc[q] /\ ctx'[q] = ctx[q]
                                     /\ scan'[q] = scan[q]
    BY <1>0 DEF Discover, Disconnect, Send, Goto, reqVars, toggleVars, TypeOK
  <1>2. done' = done /\ \A q \in Requests : Forwarded(q)' = Forwarded(q)
    BY <1>1 DEF HooksRun, Forwarded
  <1>3. \A q \in Requests \ {r} : GateState(q)' = GateState(q)
    BY <1>1 DEF GateState
  <1>4. state' = [state EXCEPT ![r] = GateState(r)']
    BY <1>3
  <1>5. CASE Discover(r)
    <2>1. /\ pc[r] = "new" /\ pc'[r] \in {"scan", "passed"} /\ ctx'[r] = "live"
          /\ scan'[r] = scan[r]
          /\ alwaysOn' = [alwaysOn EXCEPT ![r] = enabled]
      BY <1>0, <1>5 DEF Discover, Goto, reqVars, TypeOK, ScanComesFirst
    <2>2. state[r] = "waiting" /\ GateState(r)' \in {"gate", "open"}
      BY <2>1 DEF GateState
    <2>3. forwarded' = forwarded
      BY <1>1, <1>2, <2>1
    <2>4. AbstractGate!Enter(r)
      BY <1>1, <1>2, <1>4, <2>1, <2>2, <2>3 DEF AbstractGate!Enter, AbstractGate!Become
    <2> QED
      BY <2>4 DEF AbstractGate!Next
  <1>6. CASE Disconnect(r)
    <2>1. /\ pc[r] \notin {"new", "blocked", "sent", "dropped"} /\ ctx[r] = "live"
          /\ pc' = pc /\ ctx'[r] = "done" /\ UNCHANGED alwaysOn
      BY <1>0, <1>6 DEF Disconnect, toggleVars, TypeOK
    <2>2. state[r] \in {"gate", "open"} /\ GateState(r)' = "abandoned"
      BY <2>1 DEF GateState
    <2>3. forwarded' = forwarded
      BY <1>1, <1>2, <2>1
    <2>4. AbstractGate!Abandon(r)
      BY <1>1, <1>2, <1>4, <2>1, <2>2, <2>3 DEF AbstractGate!Abandon, AbstractGate!Become
    <2> QED
      BY <2>4 DEF AbstractGate!Next
  <1>7. CASE Send(r)
    <2>1. /\ pc[r] = "passed" /\ UNCHANGED <<ctx, scan, alwaysOn>>
          /\ \/ ctx[r] = "live" /\ pc'[r] = "sent"
             \/ ctx[r] = "done" /\ pc'[r] = "dropped"
      BY <1>0, <1>7 DEF Send, Goto, reqVars, toggleVars, TypeOK
    <2>2. CASE ctx[r] = "live" /\ pc'[r] = "sent"
      <3>1. /\ GateState(r)' = "forwarded"
            /\ state[r] = IF scan[r] <= NHooks THEN "open" ELSE "gate"
        BY <2>1, <2>2 DEF GateState
      <3>2. ASSUME scan[r] > NHooks PROVE alwaysOn[r] \subseteq done[r]
        <4>0. alwaysOn[r] \subseteq 1..NHooks /\ scan[r] \in Int /\ NHooks \in Int
          BY <1>0, HooksAssumption DEF TypeOK, Hooks
        <4>3. \A h \in alwaysOn[r] : h < scan[r]
          BY <3>2, <4>0
        <4>1. \A h \in alwaysOn[r] : \E i \in 1..Len(plan[r]) : plan[r][i] = h
          BY <2>1, <4>3 DEF IInv, PlanTracksToggles
        <4>2. /\ Len(ran[r]) = Len(plan[r])
              /\ \A i \in 1..Len(ran[r]) : ran[r][i].hook = plan[r][i]
          BY <2>1 DEF IInv, RunsFollowPlan
        <4> QED
          BY <4>1, <4>2 DEF HooksRun
      <3>3. forwarded' = [forwarded EXCEPT ![r] = Forwarded(r)]
        BY <1>1, <1>2, <2>2
      <3>4. state[r] = "gate" => scan[r] > NHooks
        BY <3>1, HooksAssumption, <1>0 DEF TypeOK
      <3>5. AbstractGate!Forward(r)
        BY <1>1, <1>2, <1>4, <2>1, <3>1, <3>2, <3>3, <3>4
           DEF AbstractGate!Forward, AbstractGate!Become, Forwarded
      <3> QED
        BY <3>5 DEF AbstractGate!Next
    <2>3. CASE ctx[r] = "done" /\ pc'[r] = "dropped"
      <3>1. state[r] = "abandoned" /\ GateState(r)' = "dropped"
        BY <2>1, <2>3 DEF GateState
      <3>2. forwarded' = forwarded
        BY <1>1, <1>2, <2>1, <2>3
      <3>3. AbstractGate!Drop(r)
        BY <1>1, <1>2, <1>4, <2>1, <3>1, <3>2 DEF AbstractGate!Drop, AbstractGate!Become
      <3> QED
        BY <3>3 DEF AbstractGate!Next
    <2> QED
      BY <2>1, <2>2, <2>3
  <1> QED
    BY <1>5, <1>6, <1>7

\* The end of a run, or a start that fails, is the hook's run for the gate.
LEMMA GateRunsHook ==
    ASSUME IInv, ScanComesFirst, NEW r \in Requests, NEW from \in {"next", "output"},
           NEW o \in Outcomes, Concludes(r, from, o), Len(ran[r]) < Len(plan[r])
    PROVE  AbstractGate!Next
  <1> DEFINE state == [q \in Requests |-> GateState(q)]
             done == [q \in Requests |-> HooksRun(q)]
             forwarded == [q \in Requests |-> IF pc[q] = "sent" THEN Forwarded(q) ELSE Nothing]
             n == Len(ran[r])
             h == NextHook(r)
  <1>0. TypeOK
    BY DEF IInv
  <1>1. UNCHANGED <<enabled, ctx, scan, alwaysOn>>
    BY DEF Concludes, toggleVars
  <1>2. /\ n \in Nat /\ Len(ran'[r]) = n + 1 /\ ran'[r][n + 1] = Record(r, o)
        /\ \A i \in 1..n : ran'[r][i] = ran[r][i]
        /\ \A q \in Requests \ {r} : ran'[q] = ran[q] /\ pc'[q] = pc[q] /\ body'[q] = body[q]
        /\ pc[r] = from
        /\ \/ Blocks(o) /\ pc'[r] = "blocked" /\ body'[r] = body[r]
           \/ ~Blocks(o) /\ pc'[r] = "next" /\ body'[r] = BodyAfter(h, body[r], o)
    BY <1>0, ConcludeAppends
  <1>3. h \in Hooks
    BY <1>0, NextHookIsAHook
  <1>4. \A g \in done[r] : g < h
    <2>1. plan[r] \in Seq(Hooks) /\ n + 1 \in 1..Len(plan[r])
      BY <1>0, <1>2 DEF TypeOK
    <2>2. ASSUME NEW i \in 1..n PROVE ran[r][i].hook < h
      <3>1. i \in 1..Len(plan[r]) /\ i < n + 1
        BY <1>2, <2>1
      <3>2. ran[r][i].hook = plan[r][i] /\ plan[r][i] < plan[r][n + 1]
        BY <2>1, <3>1 DEF IInv, RunsFollowPlan, PlanIsSorted
      <3> QED
        BY <3>2 DEF NextHook
    <2> QED
      BY <2>2 DEF HooksRun
  <1>5. done' = [done EXCEPT ![r] = @ \cup {h}]
    <2>1. Record(r, o).hook = h
      BY DEF Record
    <2>2. \A i \in 1..(n + 1) : i \in 1..n \/ i = n + 1
      BY <1>2
    <2>3. n + 1 \in 1..(n + 1) /\ \A i \in 1..n : i \in 1..(n + 1)
      BY <1>2
    <2>4. HooksRun(r)' = HooksRun(r) \cup {h}
      <3>1. HooksRun(r)' = {ran'[r][i].hook : i \in 1..(n + 1)}
        BY <1>2 DEF HooksRun
      <3>2. HooksRun(r) = {ran[r][i].hook : i \in 1..n}
        BY DEF HooksRun
      <3> HIDE DEF n, h
      <3> QED
        BY <1>2, <2>1, <2>2, <2>3, <3>1, <3>2
    <2>5. \A q \in Requests \ {r} : HooksRun(q)' = HooksRun(q)
      BY <1>2 DEF HooksRun
    <2> HIDE DEF h
    <2> QED
      BY <2>4, <2>5
  <1>6. forwarded' = forwarded
    BY <1>2 DEF Forwarded
  <1>7. \A q \in Requests \ {r} : GateState(q)' = GateState(q)
    BY <1>1, <1>2 DEF GateState
  <1>8. GateState(r) \in {"gate", "abandoned"}
    BY <1>0, <1>2 DEF GateState, TypeOK
  <1>9. CASE Blocks(o)
    <2>1. pc'[r] = "blocked" /\ body' = body
      BY <1>0, <1>2, <1>9 DEF Concludes, Conclude, TypeOK
    <2>2. GateState(r)' = "blocked"
      BY <2>1 DEF GateState
    <2>3. state' = [state EXCEPT ![r] = "blocked"] /\ state[r] \in {"gate", "abandoned"}
      BY <1>7, <1>8, <2>2
    <2>4. AbstractGate!RunHook(r, h)
      BY <1>1, <1>4, <1>5, <1>6, <2>1, <2>3 DEF AbstractGate!RunHook, AbstractGate!Become
    <2> QED
      BY <1>3, <2>4 DEF AbstractGate!Next
  <1>10. CASE ~Blocks(o)
    <2>1. pc'[r] = "next" /\ body'[r] = BodyAfter(h, body[r], o)
      BY <1>2, <1>10
    <2>2. BodyAfter(h, body[r], o) \in {body[r], h, Unusable}
      BY DEF BodyAfter
    <2>3. body' = [body EXCEPT ![r] = BodyAfter(h, body[r], o)]
      BY <1>2, <1>10 DEF Concludes, Conclude
    <2>4. GateState(r)' = GateState(r)
      BY <1>0, <1>1, <1>2, <2>1 DEF GateState
    <2>5. state' = state /\ state[r] \in {"gate", "abandoned"}
      BY <1>7, <1>8, <2>4
    <2>6. AbstractGate!RunHook(r, h)
      BY <1>1, <1>4, <1>5, <1>6, <2>2, <2>3, <2>5 DEF AbstractGate!RunHook
    <2> QED
      BY <1>3, <2>6 DEF AbstractGate!Next
  <1> QED
    BY <1>9, <1>10

\* Every step of the runner is a step of the gate or none.
LEMMA GateNext ==
    ASSUME IInv, IInv', ScanComesFirst, [Next]_vars
    PROVE  [AbstractGate!Next]_(AbstractGate!vars)
  <1>0. TypeOK /\ TypeOK'
    BY DEF IInv
  <1>1. ASSUME NEW r \in Requests, Discover(r) \/ Disconnect(r) \/ Send(r)
        PROVE  AbstractGate!Next
    BY <1>1, GateMoves
  <1>2. ASSUME NEW r \in Requests, NEW from \in {"next", "output"}, NEW o \in Outcomes,
               Concludes(r, from, o), Len(ran[r]) < Len(plan[r])
        PROVE  AbstractGate!Next
    BY <1>2, GateRunsHook
  <1>3. ASSUME NEW r \in Requests, ScanEntry(r) PROVE UNCHANGED AbstractGate!vars
    <2>1. pc[r] = "scan" /\ UNCHANGED <<pc, ctx, enabled, alwaysOn, ran, body>>
          /\ \A q \in Requests \ {r} : scan'[q] = scan[q]
      BY <1>0, <1>3 DEF ScanEntry, toggleVars, TypeOK
    <2>2. \A q \in Requests : GateState(q)' = GateState(q)
      BY <2>1 DEF GateState
    <2> QED
      BY <2>1, <2>2, GateStutter
  <1>4. ASSUME NEW r \in Requests, Moves(r), ~Send(r) PROVE UNCHANGED AbstractGate!vars
    <2>1. UNCHANGED <<ctx, scan, enabled, alwaysOn, ran, body>>
      BY <1>4, MovesOnly DEF reqVars, toggleVars
    <2>2. /\ pc[r] \in {"scan", "next"} /\ pc'[r] \in {"next", "run", "passed"}
          /\ pc'[r] = "passed" => pc[r] = "next"
          /\ \A q \in Requests \ {r} : pc'[q] = pc[q]
      BY <1>0, <1>4 DEF Moves, EndScan, EndOfHooks, Goto, TypeOK
    <2>3. pc'[r] = "passed" => ~(scan[r] <= NHooks)
      BY <1>0, <2>2, HooksAssumption DEF ScanComesFirst, TypeOK
    <2>4. GateState(r)' = GateState(r)
      BY <2>1, <2>2, <2>3 DEF GateState
    <2>5. \A q \in Requests \ {r} : GateState(q)' = GateState(q)
      BY <2>1, <2>2 DEF GateState
    <2> QED
      BY <2>1, <2>2, <2>4, <2>5, GateStutter
  <1>5. ASSUME NEW r \in Requests, HookEnds(r) PROVE UNCHANGED AbstractGate!vars
    <2>1. /\ UNCHANGED <<ctx, scan, enabled, alwaysOn, ran, body>>
          /\ pc[r] = "run" /\ pc'[r] = "output"
          /\ \A q \in Requests \ {r} : pc'[q] = pc[q]
      BY <1>0, <1>5 DEF HookEnds, Goto, toggleVars, TypeOK
    <2>2. GateState(r)' = GateState(r)
      BY <2>1 DEF GateState
    <2>3. \A q \in Requests \ {r} : GateState(q)' = GateState(q)
      BY <2>1 DEF GateState
    <2> QED
      BY <2>1, <2>2, <2>3, GateStutter
  <1>6. ASSUME NEW t \in Togglers, ReadState(t) PROVE UNCHANGED AbstractGate!vars
    BY <1>6, GateStutter DEF ReadState, reqVars, GateState
  <1>7. ASSUME NEW t \in Togglers, SetEnabled(t) PROVE AbstractGate!Toggle
    <2>1. /\ UNCHANGED <<pc, ctx, scan, ran, body>>
          /\ \A q \in Requests : alwaysOn'[q] \in {alwaysOn[q], alwaysOn[q] \cap enabled'}
      BY <1>0, <1>7 DEF SetEnabled, reqVars
    <2>2. enabled' \in SUBSET Hooks /\ alwaysOn' \in [Requests -> SUBSET Hooks]
      BY <1>0 DEF TypeOK
    <2>3. \A q \in Requests : /\ GateState(q)' = GateState(q) /\ HooksRun(q)' = HooksRun(q)
                              /\ Forwarded(q)' = Forwarded(q)
      BY <2>1 DEF GateState, HooksRun, Forwarded
    <2> QED
      BY <2>1, <2>2, <2>3 DEF AbstractGate!Toggle
  <1>8. CASE UNCHANGED vars
    BY <1>8, GateStutter DEF vars, reqVars, toggleVars, GateState
  <1>9. ASSUME NEW r \in Requests, NEW e \in {"system", "cancelled"}, MoreHooks(r),
               Concludes(r, "next", [end |-> e, out |-> "empty"])
        PROVE  AbstractGate!Next
    <2>1. [end |-> e, out |-> "empty"] \in Outcomes
      BY DEF Outcomes
    <2> QED
      BY <1>2, <1>9, <2>1 DEF MoreHooks
  <1>10. ASSUME NEW r \in Requests, Concludes(r, "output", outcome[r]) PROVE AbstractGate!Next
    <2>1. Len(ran[r]) < Len(plan[r])
      BY <1>10 DEF IInv, RunsFollowPlan, Concludes, Conclude
    <2>2. outcome[r] \in Outcomes
      BY <1>0 DEF TypeOK
    <2> QED
      BY <1>2, <1>10, <2>1, <2>2
  <1>11. ASSUME NEW r \in Requests, Moves(r)
         PROVE  AbstractGate!Next \/ UNCHANGED AbstractGate!vars
    BY <1>1, <1>4, <1>11
  <1>12. ASSUME NEW t \in Togglers, SetEnabled(t) PROVE AbstractGate!Next
    BY <1>7, <1>12 DEF AbstractGate!Next
  <1> QED
    BY <1>1, <1>3, <1>5, <1>6, <1>8, <1>9, <1>10, <1>11, <1>12, NextBySteps

\* RunPreRequest, the contexts, the processes and the toggles are a gate: whatever
\* hooks do, what is forwarded has been through all it had to go through, in order.
THEOREM RunnerImplementsGate == Spec => ImplementsGate
  <1>1. Init => AbstractGate!Init
    BY DEF Init, AbstractGate!Init, GateState, HooksRun
  <1>2. Init => ScanComesFirst
    BY DEF Init, ScanComesFirst
  <1>3. IInv /\ ScanComesFirst /\ [Next]_vars => ScanComesFirst'
    BY ScanComesFirstStep DEF IInv
  <1>4. IInv /\ IInv' /\ ScanComesFirst /\ [Next]_vars =>
            [AbstractGate!Next]_(AbstractGate!vars)
    BY GateNext
  <1> QED
    BY <1>1, <1>2, <1>3, <1>4, Invariance, PTL DEF Spec, ImplementsGate, AbstractGate!Spec

----------------------------------------------------------------------------
(* The steps of the gate run down                                          *)

\* Hooks still to run, three steps each, and entries still to look at: each may add
\* a hook and takes a step itself.
RunsLeft(r) == 3 * (Len(plan[r]) - Len(ran[r]))
ScansLeft(r) == 4 * (NHooks + 1 - scan[r])

\* Steps the gate of r may still take, at the most.
StepsLeft(r) ==
    IF pc[r] = "new" THEN 4 * NHooks + 5
    ELSE IF pc[r] = "scan" THEN RunsLeft(r) + ScansLeft(r) + 4
    ELSE IF pc[r] = "next" THEN RunsLeft(r) + 3
    ELSE IF pc[r] = "run" THEN RunsLeft(r) + 2
    ELSE IF pc[r] = "output" THEN RunsLeft(r) + 1
    ELSE IF pc[r] = "passed" THEN 1 ELSE 0

\* The types the counts are made of.
LEMMA CountTypes ==
    ASSUME IInv, NEW r \in Requests
    PROVE  /\ NHooks \in Nat /\ scan[r] \in 1..(NHooks + 1)
           /\ Len(plan[r]) \in Nat /\ Len(ran[r]) \in Nat /\ Len(ran[r]) <= Len(plan[r])
           /\ ScansLeft(r) \in Nat /\ RunsLeft(r) \in Nat
           /\ StepsLeft(r) \in Nat
  <1>1. NHooks \in Nat /\ scan[r] \in 1..(NHooks + 1)
    BY HooksAssumption DEF IInv, TypeOK
  <1>2. plan[r] \in Seq(Hooks) /\ ran[r] \in Seq(Runs)
    BY DEF IInv, TypeOK
  <1>3. Len(plan[r]) \in Nat /\ Len(ran[r]) \in Nat
    BY <1>2
  <1>4. Len(ran[r]) <= Len(plan[r])
    BY DEF IInv, RunsFollowPlan
  <1>5. ScansLeft(r) \in Nat /\ RunsLeft(r) \in Nat
    <2>1. \A a, b \in Nat : b <= a => 3 * (a - b) \in Nat
      OBVIOUS
    <2>2. ScansLeft(r) \in Nat
      BY <1>1 DEF ScansLeft
    <2> QED
      BY <2>1, <2>2, <1>3, <1>4 DEF RunsLeft
  <1>6. StepsLeft(r) \in Nat
    BY <1>1, <1>5 DEF StepsLeft
  <1> QED
    BY <1>1, <1>3, <1>4, <1>5, <1>6

\* A step of the gate of r, or of one of its hooks, leaves fewer.
LEMMA GateStepFalls ==
    ASSUME IInv, NEW r \in Requests, GateStep(r) \/ RunReturns(r)
    PROVE  StepsLeft(r)' < StepsLeft(r)
  <1>0. /\ pc \in [Requests -> {"new", "scan", "next", "run", "output", "passed",
                                "blocked", "sent", "dropped"}]
        /\ scan \in [Requests -> 1..(NHooks + 1)]
        /\ plan \in [Requests -> Seq(Hooks)] /\ TypeOK
    BY DEF IInv, TypeOK
  <1>1. /\ NHooks \in Nat /\ scan[r] \in 1..(NHooks + 1)
        /\ Len(plan[r]) \in Nat /\ Len(ran[r]) \in Nat /\ Len(ran[r]) <= Len(plan[r])
        /\ ScansLeft(r) \in Nat /\ RunsLeft(r) \in Nat /\ NHooks > 0
    BY CountTypes, HooksAssumption
  <1>2. ASSUME UNCHANGED <<plan, ran, scan>>
        PROVE  RunsLeft(r)' = RunsLeft(r) /\ ScansLeft(r)' = ScansLeft(r)
    BY <1>2 DEF RunsLeft, ScansLeft
  <1>3. ASSUME NEW from, NEW o, Concludes(r, from, o), from \in {"next", "output"},
               Len(ran[r]) < Len(plan[r])
        PROVE  StepsLeft(r)' < StepsLeft(r)
    <2>1. /\ Len(ran'[r]) = Len(ran[r]) + 1 /\ pc[r] = from
          /\ pc'[r] \in {"blocked", "next"} /\ plan' = plan
      BY <1>0, <1>3, ConcludeAppends DEF Concludes
    <2>2. \A a, b \in Nat : 3 * (a - (b + 1)) = 3 * (a - b) - 3
      OBVIOUS
    <2>3. RunsLeft(r)' = RunsLeft(r) - 3
      BY <2>1, <2>2, <1>1 DEF RunsLeft
    <2>4. StepsLeft(r) \in {RunsLeft(r) + 1, RunsLeft(r) + 3} /\ RunsLeft(r) \in Nat
      BY <2>1, <1>1, <1>3 DEF StepsLeft
    <2>5. StepsLeft(r)' \in {0, RunsLeft(r)}
      BY <2>1, <2>3, <2>4 DEF StepsLeft
    <2> QED
      BY <2>4, <2>5
  <1>4. CASE Discover(r)
    <2>1. /\ pc[r] = "new" /\ pc'[r] \in {"scan", "passed"}
          /\ UNCHANGED <<plan, ran, scan>>
      BY <1>0, <1>4 DEF Discover, Goto, reqVars
    <2>2. scan[r] = 1 /\ plan[r] = << >> /\ ran[r] = << >>
      BY <2>1 DEF IInv, BeforeTheRuns
    <2>3. RunsLeft(r) = 0 /\ ScansLeft(r) = 4 * NHooks
      BY <2>2, <1>1 DEF RunsLeft, ScansLeft
    <2> QED
      BY <2>1, <2>3, <1>1, <1>2 DEF StepsLeft
  <1>5. CASE ScanEntry(r)
    <2>1. /\ pc[r] = "scan" /\ pc'[r] = "scan" /\ scan'[r] = scan[r] + 1 /\ ran' = ran
          /\ scan[r] \in Hooks
          /\ plan'[r] = plan[r] \/ plan'[r] = Append(plan[r], scan[r])
      BY <1>0, <1>1, <1>5 DEF ScanEntry, Hooks
    <2>2. plan[r] \in Seq(Hooks)
      BY <1>0
    <2>3. Len(plan'[r]) \in {Len(plan[r]), Len(plan[r]) + 1}
      BY <2>1, <2>2
    <2>4. \A a, b \in Nat : 3 * (a + 1 - b) = 3 * (a - b) + 3
      OBVIOUS
    <2>5. RunsLeft(r)' \in {RunsLeft(r), RunsLeft(r) + 3}
      <3>1. RunsLeft(r)' = 3 * (Len(plan'[r]) - Len(ran[r]))
        BY <2>1 DEF RunsLeft
      <3>2. RunsLeft(r) = 3 * (Len(plan[r]) - Len(ran[r]))
        BY DEF RunsLeft
      <3>3. CASE Len(plan'[r]) = Len(plan[r])
        BY <3>1, <3>2, <3>3
      <3>4. CASE Len(plan'[r]) = Len(plan[r]) + 1
        <4> DEFINE a == Len(plan[r])
                   b == Len(ran[r])
        <4>1. a \in Nat /\ b \in Nat /\ RunsLeft(r) = 3 * (a - b)
          BY <3>2, <1>1
        <4>2. RunsLeft(r)' = 3 * (a + 1 - b)
          BY <3>1, <3>4
        <4> HIDE DEF a, b
        <4> QED
          BY <4>1, <4>2, <2>4
      <3> QED
        BY <2>3, <3>3, <3>4
    <2>6. ScansLeft(r)' = ScansLeft(r) - 4
      BY <2>1, <1>1 DEF ScansLeft
    <2> QED
      BY <2>1, <2>5, <2>6, <1>1 DEF StepsLeft
  <1>6. CASE Moves(r)
    <2>1. UNCHANGED <<plan, ran, scan>>
      BY <1>6, MovesOnly DEF reqVars
    <2>2. \/ pc[r] = "scan" /\ pc'[r] = "next"
          \/ pc[r] = "next" /\ pc'[r] \in {"passed", "run"}
          \/ pc[r] = "passed" /\ pc'[r] \in {"sent", "dropped"}
      BY <1>0, <1>6 DEF Moves, EndScan, EndOfHooks, Send, Goto
    <2>3. CASE pc[r] = "scan" /\ pc'[r] = "next"
      BY <2>1, <2>3, <1>1, <1>2 DEF StepsLeft
    <2>4. CASE pc[r] = "next" /\ pc'[r] \in {"passed", "run"}
      BY <2>1, <2>4, <1>1, <1>2 DEF StepsLeft
    <2>5. CASE pc[r] = "passed" /\ pc'[r] \in {"sent", "dropped"}
      BY <2>1, <2>5, <1>1, <1>2 DEF StepsLeft
    <2> QED
      BY <2>2, <2>3, <2>4, <2>5
  <1>7. CASE HookEnds(r)
    <2>1. pc[r] = "run" /\ pc'[r] = "output" /\ UNCHANGED <<plan, ran, scan>>
      BY <1>0, <1>7 DEF HookEnds, Goto
    <2> QED
      BY <2>1, <1>1, <1>2 DEF StepsLeft
  <1>8. CASE StartHook(r)
    <2>1. Len(ran[r]) < Len(plan[r])
      BY <1>8 DEF StartHook, MoreHooks
    <2>2. \/ Moves(r)
          \/ Concludes(r, "next", [end |-> "system", out |-> "empty"])
          \/ Concludes(r, "next", [end |-> "cancelled", out |-> "empty"])
      BY <1>8 DEF StartHook, Moves, Concludes, reqVars
    <2> QED
      BY <2>1, <2>2, <1>3, <1>6
  <1>9. CASE RunReturns(r)
    <2>1. Concludes(r, "output", outcome[r]) /\ pc[r] = "output"
      BY <1>9 DEF RunReturns, Concludes, Conclude
    <2>2. Len(ran[r]) < Len(plan[r])
      BY <2>1 DEF IInv, RunsFollowPlan
    <2> QED
      BY <2>1, <2>2, <1>3
  <1> QED
    BY <1>4, <1>5, <1>6, <1>7, <1>8, <1>9 DEF GateStep, Moves

\* No other step changes the counts of q.
LEMMA OthersKeepSteps ==
    ASSUME IInv, [Next]_vars, NEW q \in Requests, ~(GateStep(q) \/ RunReturns(q))
    PROVE  StepsLeft(q)' = StepsLeft(q)
  <1>0. TypeOK
    BY DEF IInv
  <1> SUFFICES /\ pc'[q] = pc[q] /\ scan'[q] = scan[q]
               /\ plan'[q] = plan[q] /\ ran'[q] = ran[q]
    BY DEF StepsLeft, RunsLeft, ScansLeft
  <1>1. ASSUME NEW r \in Requests, r # q, GateStep(r) \/ RunReturns(r)
        PROVE  /\ pc'[q] = pc[q] /\ scan'[q] = scan[q]
               /\ plan'[q] = plan[q] /\ ran'[q] = ran[q]
    <2>1. CASE Discover(r) \/ ScanEntry(r) \/ EndScan(r)
      BY <1>0, <1>1, <2>1 DEF TypeOK, Discover, ScanEntry, EndScan, Goto, reqVars
    <2>2. CASE HookEnds(r) \/ EndOfHooks(r) \/ Send(r)
      BY <1>0, <1>1, <2>2 DEF TypeOK, HookEnds, EndOfHooks, Send, Goto, reqVars
    <2>3. CASE StartHook(r) \/ RunReturns(r)
      BY <1>0, <1>1, <2>3 DEF TypeOK, StartHook, RunReturns, Conclude, Goto
    <2> QED
      BY <1>1, <2>1, <2>2, <2>3 DEF GateStep
  <1>2. CASE \E r \in Requests : Disconnect(r)
    BY <1>2 DEF Disconnect
  <1>3. CASE \E t \in Togglers : ReadState(t) \/ SetEnabled(t)
    BY <1>3 DEF ReadState, SetEnabled, reqVars
  <1>4. CASE UNCHANGED vars
    BY <1>4 DEF vars, reqVars
  <1> QED
    BY <1>1, <1>2, <1>3, <1>4 DEF Next

\* Whatever hooks do, and whatever is toggled meanwhile, a gate takes at most four
\* steps for a hook and five more: each of its steps leaves fewer, and nobody
\* else's leaves more.  This is the part of GateDecides that needs no fairness; where
\* it may yet stay for good is a step that is owed by a descendant of a hook.
RunsDown ==
    [][\A r \in Requests :
          /\ StepsLeft(r)' \in 0..StepsLeft(r)
          /\ GateStep(r) \/ RunReturns(r) => StepsLeft(r)' < StepsLeft(r)]_vars

THEOREM GatesRunDown == Spec => RunsDown
  <1> DEFINE Counts == \A r \in Requests : StepsLeft(r) \in Nat
  <1>1. IInv => Counts
    BY CountTypes
  <1>2. ASSUME IInv, Counts, Counts', [Next]_vars, NEW q \in Requests
        PROVE  StepsLeft(q)' \in 0..StepsLeft(q)
    <2>1. StepsLeft(q) \in Nat /\ StepsLeft(q)' \in Nat
      BY <1>2
    <2> QED
      BY <1>2, <2>1, GateStepFalls, OthersKeepSteps
  <1>3. IInv /\ Counts /\ Counts' /\ [Next]_vars =>
          [\A r \in Requests :
              /\ StepsLeft(r)' \in 0..StepsLeft(r)
              /\ GateStep(r) \/ RunReturns(r) => StepsLeft(r)' < StepsLeft(r)]_vars
    BY <1>2, GateStepFalls
  <1> QED
    <2> HIDE DEF Counts
    <2> QED
      BY Invariance, <1>1, <1>3, PTL DEF Spec, RunsDown

----------------------------------------------------------------------------
(* README.md:262, as far as it goes                                        *)

\* A run that is an error never blocks; one that was killed by its timeout always
\* does, unless what it had printed by then is an error as well.
OnlyErrorsAreSkipped ==
    \A r \in Requests : \A i \in 1..Len(ran[r]) :
        LET o == ran[r][i].outcome
            blocked == i = Len(ran[r]) /\ pc[r] = "blocked"
        IN  /\ o.end \in {"system", "cancelled"} \/ o.out = "garbage" => ~blocked
            /\ o.end = "timeout" /\ o.out # "garbage" => blocked

\* "A hook that times out or errors at the system level is skipped": the half about
\* errors holds of every hook, and the half about timeouts of none that was
\* silent or had printed JSON when it was killed (RunPreRequest, exec).
THEOREM ErrorsSkipAndTimeoutsBlock == Spec => []OnlyErrorsAreSkipped
  <1>1. IInv => OnlyErrorsAreSkipped
    <2> SUFFICES ASSUME IInv, NEW r \in Requests, NEW i \in 1..Len(ran[r])
                 PROVE  LET o == ran[r][i].outcome
                            blocked == i = Len(ran[r]) /\ pc[r] = "blocked"
                        IN  /\ o.end \in {"system", "cancelled"} \/ o.out = "garbage"
                                  => ~blocked
                            /\ o.end = "timeout" /\ o.out # "garbage" => blocked
      BY DEF OnlyErrorsAreSkipped
    <2> DEFINE o == ran[r][i].outcome
               blocked == i = Len(ran[r]) /\ pc[r] = "blocked"
    <2>1. Blocks(o) <=> blocked
      BY DEF IInv, BlocksAreFinal
    <2> HIDE DEF blocked
    <2>2. o.end \in {"system", "cancelled"} \/ o.out = "garbage" => ~blocked
      BY <2>1 DEF Blocks, IsError
    <2>3. o.end = "timeout" /\ o.out # "garbage" => blocked
      BY <2>1 DEF Blocks, IsError, ExitCodeIsZero
    <2> QED
      BY <2>2, <2>3 DEF blocked
  <1> QED
    BY <1>1, Invariance, PTL
=============================================================================
