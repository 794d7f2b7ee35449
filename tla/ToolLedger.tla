----------------------------- MODULE ToolLedger -----------------------------
(***************************************************************************)
(* What the tool execution journal owes to the model that declared a call: *)
(* the call runs at most once, never after its outcome was told, and what  *)
(* is told agrees with what happened.                                      *)
(***************************************************************************)
EXTENDS Naturals

CONSTANTS
    Denials,  \* outcomes saying the call did not run
    Untold    \* no outcome has been told

VARIABLES
    ran,      \* calls whose effect has happened
    told      \* call -> the outcome the durable transcript tells, or Untold

ledger == <<ran, told>>

LedgerInit ==
    /\ ran = {}
    /\ \A c \in DOMAIN told : told[c] = Untold

Run(c) ==
    /\ c \notin ran
    /\ told[c] = Untold
    /\ ran' = ran \union {c}
    /\ UNCHANGED told

Agrees(c, outcome) ==
    /\ outcome \in Denials => c \notin ran
    /\ outcome = "result" => c \in ran

\* Several outcomes may become durable at once: a save backfills all the
\* messages whose events were lost.
Tell ==
    /\ told' # told
    /\ DOMAIN told' = DOMAIN told
    /\ \A c \in DOMAIN told :
         told'[c] # told[c] => told[c] = Untold /\ Agrees(c, told'[c])
    /\ UNCHANGED ran

LedgerNext == Tell \/ \E c \in DOMAIN told : Run(c)

LedgerSpec == LedgerInit /\ [][LedgerNext]_ledger
=============================================================================
