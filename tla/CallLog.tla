------------------------------ MODULE CallLog ------------------------------
(***************************************************************************)
(* What the dispatch agent promises, whatever its queue, worker and        *)
(* supervisor do: every call the listener picks out of the radio traffic   *)
(* is settled at most once, it is either finalised or lost, and calls are  *)
(* finalised in the order in which they were captured.                     *)
(*                                                                         *)
(* DispatchAgent.tla implements this specification (its operator           *)
(* RefinesCallLog, checked by TLC and proved in DispatchLogProofs.tla).    *)
(***************************************************************************)
EXTENDS Naturals, Sequences

CONSTANT Calls          \* the calls that can come over the radio

VARIABLES
    log,                \* the calls captured so far, oldest first
    outcome             \* [Calls -> {"unheard", "pending", "final", "lost"}]

vars == <<log, outcome>>

Init ==
    /\ log = <<>>
    /\ outcome = [c \in Calls |-> "unheard"]

\* A new call is heard and its capture begins.
Capture(c) ==
    /\ outcome[c] = "unheard"
    /\ log' = Append(log, c)
    /\ outcome' = [outcome EXCEPT ![c] = "pending"]

\* The call at position i is finalised, and no call captured after it has been.
Finalise(i) ==
    /\ outcome[log[i]] = "pending"
    /\ \A j \in DOMAIN log : j > i => outcome[log[j]] # "final"
    /\ outcome' = [outcome EXCEPT ![log[i]] = "final"]
    /\ UNCHANGED log

\* Pending calls are lost: one when the queue overflows or the worker dies, all
\* of them when the agent's process is killed.
Lose(S) ==
    /\ S # {}
    /\ \A c \in S : outcome[c] = "pending"
    /\ outcome' = [c \in Calls |-> IF c \in S THEN "lost" ELSE outcome[c]]
    /\ UNCHANGED log

Next ==
    \/ \E c \in Calls : Capture(c)
    \/ \E i \in DOMAIN log : Finalise(i)
    \/ \E S \in SUBSET Calls : Lose(S)

Spec == Init /\ [][Next]_vars
=============================================================================
