-------------------------------- MODULE Gate --------------------------------
(***************************************************************************)
(* What the pre-request hooks promise, with no word about directories,     *)
(* processes, pipes and contexts: a request is taken through hooks one     *)
(* after the other, each at most once and in their order; any of them may  *)
(* edit or block it; it is forwarded only when every hook that was enabled *)
(* all the while the hooks were looked up has had its run, or when they    *)
(* could not be looked up at all; and one whose client has left is never   *)
(* forwarded.                                                              *)
(*                                                                         *)
(* HookRunner implements it (ImplementsGate there).                        *)
(***************************************************************************)
EXTENDS Integers

CONSTANTS
    Requests,
    Hooks,      \* their ranks in alphabetical order, all above 0
    Original,   \* a body no hook has edited
    Unusable,   \* a body some hook has made no request of
    Nothing     \* no body

VARIABLES
    enabled,    \* hooks that are switched on
    state,      \* of each request: "waiting", "gate", "open", "abandoned",
                \* "blocked", "forwarded" or "dropped"
    required,   \* hooks without whose run it is not forwarded
    done,       \* hooks it has been through
    body,       \* what they have made of it
    forwarded   \* what the provider gets

vars == <<enabled, state, required, done, body, forwarded>>

Init ==
    /\ enabled \in SUBSET Hooks
    /\ state = [r \in Requests |-> "waiting"]
    /\ required = [r \in Requests |-> {}]
    /\ done = [r \in Requests |-> {}]
    /\ body = [r \in Requests |-> Original]
    /\ forwarded = [r \in Requests |-> Nothing]

Become(r, from, to) == state[r] \in from /\ state' = [state EXCEPT ![r] = to]

\* "open": the hooks cannot be looked up, which does not keep a request back.
Enter(r) ==
    /\ Become(r, {"waiting"}, "gate") \/ Become(r, {"waiting"}, "open")
    /\ required' = [required EXCEPT ![r] = enabled]
    /\ UNCHANGED <<enabled, done, body, forwarded>>

RunHook(r, h) ==
    /\ \A g \in done[r] : g < h
    /\ done' = [done EXCEPT ![r] = @ \cup {h}]
    /\ \/ /\ Become(r, {"gate", "abandoned"}, "blocked")
          /\ UNCHANGED body
       \/ /\ state[r] \in {"gate", "abandoned"} /\ UNCHANGED state
          /\ \E b \in {body[r], h, Unusable} : body' = [body EXCEPT ![r] = b]
    /\ UNCHANGED <<enabled, required, forwarded>>

Abandon(r) ==
    /\ Become(r, {"gate", "open"}, "abandoned")
    /\ UNCHANGED <<enabled, required, done, body, forwarded>>

Forward(r) ==
    /\ Become(r, {"gate", "open"}, "forwarded")
    /\ state[r] = "gate" => required[r] \subseteq done[r]
    /\ forwarded' = [forwarded EXCEPT ![r] =
                        IF body[r] = Unusable THEN Original ELSE body[r]]
    /\ UNCHANGED <<enabled, required, done, body>>

Drop(r) ==
    /\ Become(r, {"abandoned"}, "dropped")
    /\ UNCHANGED <<enabled, required, done, body, forwarded>>

\* A hook switched off need not be run by a request that is not through its lookup.
Toggle ==
    /\ enabled' \in SUBSET Hooks
    /\ required' \in [Requests -> SUBSET Hooks]
    /\ \A r \in Requests : required'[r] \in {required[r], required[r] \cap enabled'}
    /\ UNCHANGED <<state, done, body, forwarded>>

Next ==
    \/ \E r \in Requests :
          \/ Enter(r) \/ Abandon(r) \/ Forward(r) \/ Drop(r)
          \/ \E h \in Hooks : RunHook(r, h)
    \/ Toggle

Spec == Init /\ [][Next]_vars
=============================================================================
