----------------------------- MODULE HookRunner -----------------------------
(***************************************************************************)
(* The pre-request gate: hooks/runner.go (discover, exec, RunPreRequest),  *)
(* what proxy/handler.go makes of its verdict, and the dashboard's toggle  *)
(* that enables and disables hooks meanwhile.                              *)
(*                                                                         *)
(* A hook is its rank in alphabetical order.  The body of a request is the *)
(* hook that wrote it last, Original when none did, Unusable when that     *)
(* hook wrote JSON that is no request (null, a string ...).  Time is left  *)
(* out: the five seconds of a run may pass at any moment.                  *)
(***************************************************************************)
EXTENDS Integers, Sequences, FiniteSets

CONSTANTS
    Requests,   \* requests that pass the gate concurrently
    NHooks,     \* executable files in hooks/pre-request
    Togglers,   \* dashboard handlers that toggle a hook
    Detaching   \* hooks that leave a descendant with their stdout or stderr

ASSUME HooksAssumption == NHooks \in Nat \ {0} /\ Detaching \subseteq 1..NHooks

Hooks == 1..NHooks
Original == 0
Unusable == -1

\* How a run ended and what it had printed to stdout by then.  A run that did not
\* start, or whose exit 0 raced with the end of its context, is a system error.
Started == {"exit0", "exit1", "timeout", "abort"}
Outputs == {"empty", "garbage", "proceed", "modify", "unusable", "block"}
Outcomes == [end : Started, out : Outputs]
               \cup [end : {"system", "cancelled"}, out : {"empty"}]

VARIABLES
    enabled,   \* hooks without a .disabled sidecar
    pc,        \* where each request is
    ctx,       \* its context: "live" or "done"
    scan,      \* the directory entry discover looks at next
    plan,      \* hookPaths: what discover returned
    body,      \* currentReq
    outcome,   \* what the running hook's process did, before exec returns
    ran,       \* history: the runs of the request: hook, input and outcome
    lastRun,   \* Runner.statuses: how the last saved run of each hook went
    tpc,       \* where each toggler is
    target,    \* the hook it toggles and the state it read
    everOn,    \* history: hooks enabled at some time of the request's scan
    alwaysOn   \* history: hooks enabled during all of it

reqVars == <<ctx, scan, plan, body, outcome, ran, lastRun>>
toggleVars == <<enabled, tpc, target, everOn, alwaysOn>>
vars == <<pc, reqVars, toggleVars>>

Init ==
    /\ enabled \in SUBSET Hooks
    /\ pc = [r \in Requests |-> "new"]
    /\ ctx = [r \in Requests |-> "live"]
    /\ scan = [r \in Requests |-> 1]
    /\ plan = [r \in Requests |-> << >>]
    /\ body = [r \in Requests |-> Original]
    /\ outcome = [r \in Requests |-> [end |-> "system", out |-> "empty"]]
    /\ ran = [r \in Requests |-> << >>]
    /\ lastRun = [h \in Hooks |-> "never"]
    /\ tpc = [t \in Togglers |-> "idle"]
    /\ target = [t \in Togglers |-> [hook |-> 1, wasOn |-> FALSE]]
    /\ everOn = [r \in Requests |-> {}]
    /\ alwaysOn = [r \in Requests |-> {}]

Goto(r, from, to) == pc[r] = from /\ pc' = [pc EXCEPT ![r] = to]

----------------------------------------------------------------------------
(* discover *)

\* os.ReadDir lists the directory; if it fails RunPreRequest returns the error
\* and the handler, after printing it, goes on as if there were no hooks.
Discover(r) ==
    /\ Goto(r, "new", "scan") \/ Goto(r, "new", "passed")
    /\ everOn' = [everOn EXCEPT ![r] = enabled]
    /\ alwaysOn' = [alwaysOn EXCEPT ![r] = enabled]
    /\ UNCHANGED <<reqVars, enabled, tpc, target>>

\* Two mutated forms: the sidecar is not looked at, and a bound off by one.
PlanEveryEntry(r) ==
    /\ pc[r] = "scan" /\ scan[r] <= NHooks
    /\ scan' = [scan EXCEPT ![r] = @ + 1]
    /\ plan' = [plan EXCEPT ![r] = Append(@, scan[r])]
    /\ UNCHANGED <<pc, ctx, body, outcome, ran, lastRun, toggleVars>>

ScanPastTheEnd(r) ==
    /\ pc[r] = "scan" /\ scan[r] <= NHooks + 1
    /\ scan' = [scan EXCEPT ![r] = @ + 1]
    /\ plan' = IF scan[r] \in enabled THEN [plan EXCEPT ![r] = Append(@, scan[r])]
                                      ELSE plan
    /\ UNCHANGED <<pc, ctx, body, outcome, ran, lastRun, toggleVars>>

\* One entry: os.Stat of the sidecar, at its own moment.
ScanEntry(r) ==
    /\ pc[r] = "scan" /\ scan[r] <= NHooks
    /\ scan' = [scan EXCEPT ![r] = @ + 1]
    /\ plan' = IF scan[r] \in enabled THEN [plan EXCEPT ![r] = Append(@, scan[r])]
                                      ELSE plan
    /\ UNCHANGED <<pc, ctx, body, outcome, ran, lastRun, toggleVars>>

EndScan(r) ==
    /\ scan[r] > NHooks
    /\ Goto(r, "scan", "next")
    /\ UNCHANGED <<reqVars, toggleVars>>

----------------------------------------------------------------------------
(* RunPreRequest and exec *)

NextHook(r) == plan[r][Len(ran[r]) + 1]
MoreHooks(r) == pc[r] = "next" /\ Len(ran[r]) < Len(plan[r])

\* status.Err is set: a system error, or output that is not JSON.
IsError(o) == o.end \in {"system", "cancelled"} \/ o.out = "garbage"
ExitCodeIsZero(o) == o.end = "exit0"

\* A mutated form: only the exit code blocks.
BlocksByExitCode(o) == ~IsError(o) /\ ~ExitCodeIsZero(o)

\* The verdict of the loop body on a run; an error skips the hook, whatever its
\* exit code was.
Blocks(o) == ~IsError(o) /\ (o.out = "block" \/ ~ExitCodeIsZero(o))

\* A mutated form: a hook that prints no request resets it.
BodyOrOriginal(h, b, o) ==
    CASE IsError(o) -> b
      [] o.out = "modify" -> h
      [] o.out = "unusable" -> Unusable
      [] OTHER -> Original

\* currentReq after a run that does not block.
BodyAfter(h, b, o) ==
    CASE IsError(o) -> b
      [] o.out = "modify" -> h
      [] o.out = "unusable" -> Unusable
      [] OTHER -> b

StatusClass(o) ==
    CASE IsError(o) -> "error"
      [] ExitCodeIsZero(o) -> "ok"
      [] OTHER -> "failed"

\* exec has returned: saveStatus, then block or go on to the next hook.
Conclude(r, from, o) ==
    /\ pc[r] = from
    /\ ran' = [ran EXCEPT ![r] =
                  Append(@, [hook |-> NextHook(r), input |-> body[r], outcome |-> o])]
    /\ lastRun' = [lastRun EXCEPT ![NextHook(r)] = StatusClass(o)]
    /\ \/ Blocks(o) /\ Goto(r, from, "blocked") /\ UNCHANGED body
       \/ /\ ~Blocks(o) /\ Goto(r, from, "next")
          /\ body' = [body EXCEPT ![r] = BodyAfter(NextHook(r), @, o)]

\* A mutated form: a context that is over is not noticed.
StartWhileLive(r) ==
    /\ MoreHooks(r)
    /\ ctx[r] = "live"
    /\ \/ /\ Goto(r, "next", "run")
          /\ UNCHANGED <<body, ran, lastRun>>
       \/ Conclude(r, "next", [end |-> "system", out |-> "empty"])
    /\ UNCHANGED <<ctx, scan, plan, outcome, toggleVars>>

\* cmd.Start: refuses when the context is over, or fails for its own reasons.
StartHook(r) ==
    /\ MoreHooks(r)
    /\ \/ /\ ctx[r] = "live"
          /\ Goto(r, "next", "run")
          /\ UNCHANGED <<body, ran, lastRun>>
       \/ /\ ctx[r] = "live"
          /\ Conclude(r, "next", [end |-> "system", out |-> "empty"])
       \/ /\ ctx[r] = "done"
          /\ Conclude(r, "next", [end |-> "cancelled", out |-> "empty"])
    /\ UNCHANGED <<ctx, scan, plan, outcome, toggleVars>>

\* The process exits, or is killed because its five seconds or the request's
\* context are over; killed processes have printed any part of their output.
HookEnds(r) ==
    /\ Goto(r, "run", "output")
    /\ \E o \in {o \in Outcomes : o.end # "cancelled"} :
          /\ o.end = "abort" => ctx[r] = "done"
          /\ outcome' = [outcome EXCEPT ![r] = o]
    /\ UNCHANGED <<ctx, scan, plan, body, ran, lastRun, toggleVars>>

\* cmd.Run returns once the pipes are closed: at once, unless a descendant of the
\* hook still holds them.
RunReturns(r) ==
    /\ Conclude(r, "output", outcome[r])
    /\ UNCHANGED <<ctx, scan, plan, outcome, toggleVars>>

EndOfHooks(r) ==
    /\ pc[r] = "next" /\ Len(ran[r]) = Len(plan[r])
    /\ Goto(r, "next", "passed")
    /\ UNCHANGED <<reqVars, toggleVars>>

----------------------------------------------------------------------------
(* The handler after the gate, the client and the dashboard                *)

\* The body of the upstream request: a modification is unmarshalled into the
\* request, and one that cannot be leaves it as it came.
Forwarded(r) == IF body[r] = Unusable THEN Original ELSE body[r]

\* A mutated form: the upstream request does not carry the context.
SendRegardless(r) ==
    /\ Goto(r, "passed", "sent")
    /\ UNCHANGED <<reqVars, toggleVars>>

\* client.Do sends nothing for a context that is over.
Send(r) ==
    /\ \/ ctx[r] = "live" /\ Goto(r, "passed", "sent")
       \/ ctx[r] = "done" /\ Goto(r, "passed", "dropped")
    /\ UNCHANGED <<reqVars, toggleVars>>

Disconnect(r) ==
    /\ ctx[r] = "live" /\ pc[r] \notin {"new", "blocked", "sent", "dropped"}
    /\ ctx' = [ctx EXCEPT ![r] = "done"]
    /\ UNCHANGED <<pc, scan, plan, body, outcome, ran, lastRun, toggleVars>>

\* handleHookToggle lists the hooks to find the state of one ...
ReadState(t) ==
    /\ tpc[t] = "idle"
    /\ tpc' = [tpc EXCEPT ![t] = "flip"]
    /\ \E h \in Hooks :
          target' = [target EXCEPT ![t] = [hook |-> h, wasOn |-> h \in enabled]]
    /\ UNCHANGED <<pc, reqVars, enabled, everOn, alwaysOn>>

\* ... and then creates or removes its sidecar.
SetEnabled(t) ==
    /\ tpc[t] = "flip"
    /\ tpc' = [tpc EXCEPT ![t] = "idle"]
    /\ LET h == target[t].hook IN
          /\ enabled' = IF target[t].wasOn THEN enabled \ {h} ELSE enabled \cup {h}
          /\ everOn' = [r \in Requests |->
                IF pc[r] = "scan" THEN everOn[r] \cup enabled' ELSE everOn[r]]
          /\ alwaysOn' = [r \in Requests |->
                IF pc[r] = "scan" THEN alwaysOn[r] \cap enabled' ELSE alwaysOn[r]]
    /\ UNCHANGED <<pc, reqVars, target>>

----------------------------------------------------------------------------
GateStep(r) ==
    \/ Discover(r) \/ ScanEntry(r) \/ EndScan(r)
    \/ StartHook(r) \/ HookEnds(r) \/ EndOfHooks(r) \/ Send(r)

Finished(r) == pc[r] \in {"blocked", "sent", "dropped"}

Next ==
    \/ \E r \in Requests : GateStep(r) \/ RunReturns(r) \/ Disconnect(r)
    \/ \E t \in Togglers : ReadState(t) \/ SetEnabled(t)
    \/ (\A r \in Requests : Finished(r)) /\ UNCHANGED vars

Spec == Init /\ [][Next]_vars

\* Handlers run on and a hook that does not exit is killed after its timeout; but
\* nothing makes a descendant that holds the pipes let go of them.
Fairness ==
    /\ \A r \in Requests : WF_vars(GateStep(r))
    /\ \A r \in Requests :
          WF_vars(pc[r] = "output" /\ NextHook(r) \notin Detaching /\ RunReturns(r))
    /\ \A t \in Togglers : WF_vars(SetEnabled(t))

FairSpec == Spec /\ Fairness

----------------------------------------------------------------------------
Bodies == {Unusable, Original} \cup Hooks
Runs == [hook : Hooks, input : Bodies, outcome : Outcomes]

TypeOK ==
    /\ enabled \subseteq Hooks
    /\ pc \in [Requests -> {"new", "scan", "next", "run", "output", "passed",
                            "blocked", "sent", "dropped"}]
    /\ ctx \in [Requests -> {"live", "done"}]
    /\ scan \in [Requests -> 1..(NHooks + 1)]
    /\ plan \in [Requests -> Seq(Hooks)]
    /\ body \in [Requests -> Bodies]
    /\ outcome \in [Requests -> Outcomes]
    /\ ran \in [Requests -> Seq(Runs)]
    /\ lastRun \in [Hooks -> {"never", "ok", "failed", "error"}]
    /\ tpc \in [Togglers -> {"idle", "flip"}]
    /\ target \in [Togglers -> [hook : Hooks, wasOn : BOOLEAN]]
    /\ everOn \in [Requests -> SUBSET Hooks]
    /\ alwaysOn \in [Requests -> SUBSET Hooks]

\* The gate is complete: hooks run in alphabetical order, a pass means that every
\* planned hook had its run, and no verdict is overruled: a run that printed
\* "block", or that exited 1 without printing garbage (README.md:282-285), is the
\* last one and blocks; nothing but such a run or a killed one blocks.
GateIsComplete ==
    \A r \in Requests :
        /\ \A i \in 1..Len(ran[r]) : ran[r][i].hook = plan[r][i]
        /\ \A i, j \in 1..Len(plan[r]) : i < j => plan[r][i] < plan[r][j]
        /\ pc[r] \in {"passed", "sent"} => Len(ran[r]) = Len(plan[r])
        /\ \A i \in 1..Len(ran[r]) :
              LET o == ran[r][i].outcome
              IN  o.out = "block" \/ (o.end = "exit1" /\ o.out # "garbage") =>
                     i = Len(ran[r]) /\ pc[r] = "blocked"
        /\ pc[r] = "blocked" =>
              LET o == ran[r][Len(ran[r])].outcome
              IN  o.out = "block" \/ o.end \in {"exit1", "timeout", "abort"}

\* The last edit among the first n runs of r, the body those runs leave behind.
EditedBy(r, n) ==
    LET edits == {i \in 1..n : /\ ran[r][i].outcome.end = "exit0"
                               /\ ran[r][i].outcome.out \in {"modify", "unusable"}}
        last == CHOOSE i \in edits : \A j \in edits : j <= i
    IN  IF edits = {} THEN Original
        ELSE IF ran[r][last].outcome.out = "modify" THEN ran[r][last].hook
        ELSE Unusable

\* README.md:128: "each sees the previous hook's modifications": every hook is
\* given what the latest successful edit before it left, past hooks that were
\* skipped or had nothing to say, and so is the provider when the edit is usable.
EditsAreSerial ==
    \A r \in Requests :
        /\ \A i \in 1..Len(ran[r]) : ran[r][i].input = EditedBy(r, i - 1)
        /\ pc[r] = "sent" /\ EditedBy(r, Len(ran[r])) # Unusable =>
              Forwarded(r) = EditedBy(r, Len(ran[r]))

\* A toggle takes effect between requests and never half-way: a hook disabled all
\* through discover's scan is not planned, one enabled all through it is.
PlanFollowsToggles ==
    \A r \in Requests : pc[r] \notin {"new", "scan"} /\ scan[r] > NHooks =>
        LET planned == {plan[r][i] : i \in 1..Len(plan[r])}
        IN  planned \subseteq everOn[r] /\ alwaysOn[r] \subseteq planned

\* A client that goes away makes the remaining hooks fail to start, which skips
\* them; that never opens the gate, because client.Do checks the same context.
SkippedGateIsNeverSent ==
    \A r \in Requests : pc[r] = "sent" =>
        \A i \in 1..Len(ran[r]) : ran[r][i].outcome.end \notin {"cancelled", "abort"}

\* A request of the runner as one of the gate.
GateState(r) ==
    CASE pc[r] = "new" -> "waiting"
      [] pc[r] = "sent" -> "forwarded"
      [] pc[r] \in {"blocked", "dropped"} -> pc[r]
      [] pc[r] \notin {"new", "sent", "blocked", "dropped"} /\ ctx[r] = "done" -> "abandoned"
      [] pc[r] = "passed" /\ ctx[r] = "live" /\ scan[r] <= NHooks -> "open"
      [] OTHER -> "gate"

HooksRun(r) == {ran[r][i].hook : i \in 1..Len(ran[r])}
Nothing == -2

AbstractGate == INSTANCE Gate WITH
    state <- [r \in Requests |-> GateState(r)],
    required <- alwaysOn,
    done <- [r \in Requests |-> HooksRun(r)],
    forwarded <- [r \in Requests |-> IF pc[r] = "sent" THEN Forwarded(r) ELSE Nothing]

\* Directory scans, processes that end in any way at any moment, contexts and
\* toggles together are a gate: what is forwarded has been through every hook it
\* had to go through, once and in order, and its client is still there.
ImplementsGate == AbstractGate!Spec

\* Every request leaves the gate, however its hooks behave, or gets to a hook that
\* leaves a descendant with its pipes.  Only there may it stay: the kill after the
\* timeout does not reach the descendant, for whose pipes cmd.Run waits without
\* limit, whereas README.md:262 has it that the timeout applies to every hook.
GateDecides ==
    \A r \in Requests : pc[r] = "scan" ~>
        (Finished(r) \/ (pc[r] = "output" /\ NextHook(r) \in Detaching))

----------------------------------------------------------------------------
(* Expectations of the documentation that the code does not meet           *)

LastEnd(r) == ran[r][Len(ran[r])].outcome.end

\* README.md:262: "a hook that times out or errors at the system level is skipped,
\* never blocking your request".  A killed process has an exit code (-1).
TimeoutNeverBlocks ==
    \A r \in Requests : pc[r] = "blocked" => LastEnd(r) # "timeout"
=============================================================================
