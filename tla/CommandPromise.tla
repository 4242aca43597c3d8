--------------------------- MODULE CommandPromise ---------------------------
(***************************************************************************)
(* What the command kernel promises of a command to whoever submitted it,  *)
(* without workers, leases or attempts: how often its effect may happen,   *)
(* and what its outcome says about that effect.                            *)
(***************************************************************************)
EXTENDS Naturals

CONSTANT Commands

VARIABLES
    outcome,    \* [Commands -> what the ledger reports]
    effects,    \* [Commands -> how often the effect happened at the provider]
    licences    \* [Commands -> how often it may: once, and once per operator retry]

promiseVars == <<outcome, effects, licences>>

PromiseInit ==
    /\ outcome = [c \in Commands |-> "none"]
    /\ effects = [c \in Commands |-> 0]
    /\ licences = [c \in Commands |-> 1]

\* No operator asked for the effect a second time.
Unretried(c) == licences[c] = 1

Becomes(c, from, to) ==
    /\ outcome[c] \in from
    /\ outcome' = [outcome EXCEPT ![c] = to]

Accept(c) == Becomes(c, {"none"}, "open") /\ UNCHANGED <<effects, licences>>

\* The provider applies a request, possibly long after anyone waits for it.
Deliver(c) ==
    /\ effects[c] < licences[c]
    /\ outcome[c] # "none"
    /\ Unretried(c) => outcome[c] # "cancelled"
    /\ effects' = [effects EXCEPT ![c] = @ + 1]
    /\ UNCHANGED <<outcome, licences>>

Complete(c) ==
    /\ effects[c] > 0
    /\ Becomes(c, {"open"}, "completed")
    /\ UNCHANGED <<effects, licences>>

GiveUp(c) ==
    /\ Becomes(c, {"open"}, "failed") \/ Becomes(c, {"open", "failed"}, "dead_lettered")
    /\ UNCHANGED <<effects, licences>>

Withdraw(c) ==
    /\ Unretried(c) => effects[c] = 0
    /\ Becomes(c, {"open"}, "cancelled")
    /\ UNCHANGED <<effects, licences>>

\* The kernel itself tries again only while nothing can have happened.
TryAgain(c) ==
    /\ Unretried(c) => effects[c] = 0
    /\ Becomes(c, {"failed"}, "open")
    /\ UNCHANGED <<effects, licences>>

OperatorRetry(c) ==
    /\ Becomes(c, {"failed"}, "open")
    /\ licences' = [licences EXCEPT ![c] = @ + 1]
    /\ UNCHANGED effects

PromiseNext ==
    \E c \in Commands :
        \/ Accept(c) \/ Deliver(c) \/ Complete(c) \/ GiveUp(c)
        \/ Withdraw(c) \/ TryAgain(c) \/ OperatorRetry(c)

PromiseSpec == PromiseInit /\ [][PromiseNext]_promiseVars

=============================================================================
