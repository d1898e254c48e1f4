---------------------------- MODULE PriceRegister ----------------------------
(***************************************************************************)
(* What the pricing cache promises to those who cost a request, with no    *)
(* word about locks, connections or a time to live: the table is a         *)
(* register, a lookup reads it as it was at some moment since the last     *)
(* edit that had been acknowledged when the lookup began, and only a       *)
(* lookup that could not read the table may answer with an older one.      *)
(*                                                                         *)
(* PricingCache implements it (ImplementsRegister there).                  *)
(***************************************************************************)
EXTENDS Naturals

CONSTANT Readers

VARIABLES
    version,  \* edits the table has seen; 1 is the seeded table
    acked,    \* the newest edit whose author has been told that it is done
    state,    \* of each reader: "idle", "asking", or "unreadable"
    asked,    \* acked when the reader began to ask
    got       \* the version its last lookup worked on

vars == <<version, acked, state, asked, got>>

Init ==
    /\ version = 1 /\ acked = 1
    /\ state = [t \in Readers |-> "idle"]
    /\ asked = [t \in Readers |-> 0]
    /\ got = [t \in Readers |-> 0]

Become(t, from, to) == state[t] = from /\ state' = [state EXCEPT ![t] = to]

Ask(t) ==
    /\ Become(t, "idle", "asking")
    /\ asked' = [asked EXCEPT ![t] = acked]
    /\ UNCHANGED <<version, acked, got>>

\* A regular read: any version from the one that was acknowledged to the newest.
Answer(t) ==
    /\ Become(t, "asking", "idle")
    /\ \E v \in asked[t]..version : got' = [got EXCEPT ![t] = v]
    /\ UNCHANGED <<version, acked, asked>>

CannotRead(t) ==
    /\ Become(t, "asking", "unreadable")
    /\ UNCHANGED <<version, acked, asked, got>>

AnswerStale(t) ==
    /\ Become(t, "unreadable", "idle")
    /\ \E v \in 0..version : got' = [got EXCEPT ![t] = v]
    /\ UNCHANGED <<version, acked, asked>>

Edit ==
    /\ version' = version + 1
    /\ UNCHANGED <<acked, state, asked, got>>

Acknowledge ==
    /\ acked' = version
    /\ UNCHANGED <<version, state, asked, got>>

Next ==
    \/ \E t \in Readers : Ask(t) \/ Answer(t) \/ CannotRead(t) \/ AnswerStale(t)
    \/ Edit
    \/ Acknowledge

Spec == Init /\ [][Next]_vars
=============================================================================
