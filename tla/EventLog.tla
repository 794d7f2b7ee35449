------------------------------ MODULE EventLog ------------------------------
(***************************************************************************)
(* What the event store promises about one session: its events form one    *)
(* sequence that only grows, one event at a time, and a human message that *)
(* was accepted as an authorisation is one of them for good.               *)
(***************************************************************************)
EXTENDS Naturals, Sequences

CONSTANT Event  \* the events that may be written

VARIABLES
    log,      \* the events of the session, in the order of their seq
    accepted  \* the human messages the store has vouched for

vars == <<log, accepted>>

Logged == {log[i] : i \in DOMAIN log}

Init == log = << >> /\ accepted = {}

\* An event joins the end of the log; its writer may be told so or not.
Add ==
    /\ Len(log') = Len(log) + 1
    /\ \E e \in Event \ Logged :
         /\ log' = Append(log, e)
         /\ accepted' \in {accepted, accepted \union {e}}

Next == Add

Spec == Init /\ [][Next]_vars
=============================================================================
