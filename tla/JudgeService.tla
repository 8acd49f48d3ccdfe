----------------------------- MODULE JudgeService -----------------------------
(***************************************************************************)
(* What the code runner promises its callers: a call is refused, or it is  *)
(* executed once and served.  Executions are limited to Slots, to one per  *)
(* candidate, and take a candidate's calls in their order.  How calls wait *)
(* and how the runner counts them is not part of the promise.              *)
(***************************************************************************)
EXTENDS Naturals, FiniteSets

CONSTANTS
    Calls,      \* a set of numbers, in the order of submission
    Slots       \* how many programs may execute at once

VARIABLES
    owner,      \* owner[c]: the candidate who makes call c
    state       \* state[c]: what has become of call c

vars == <<owner, state>>

Executing == {c \in Calls : state[c] = "executing"}

Init ==
    state = [c \in Calls |-> "new"]

Move(c, from, to) ==
    /\ state[c] \in from
    /\ state' = [state EXCEPT ![c] = to]
    /\ UNCHANGED owner

Wait(c) == Move(c, {"new"}, "waiting")

Refuse(c) == Move(c, {"new", "waiting"}, "refused")

Execute(c) ==
    /\ Cardinality(Executing) < Slots
    /\ \A d \in Executing : owner[d] # owner[c]
    /\ \A d \in Calls :
          state[d] = "waiting" /\ owner[d] = owner[c] => d >= c
    /\ Move(c, {"new", "waiting"}, "executing")

Serve(c) == Move(c, {"executing"}, "served")

Next == \E c \in Calls : Wait(c) \/ Refuse(c) \/ Execute(c) \/ Serve(c)

Spec == Init /\ [][Next]_vars
=============================================================================
