----------------------------- MODULE JobSettlement -----------------------------
(****************************************************************************)
(* What the escrow program promises, without instructions, accounts, handlers, *)
(* clocks or counters: each job has a pot, filled by anybody at any time, from *)
(* which the job pays while it is active, and which goes back while it is not   *)
(* settled.  A step is one job's, and takes nothing from another job's pot.     *)
(****************************************************************************)
EXTENDS Integers

CONSTANT Jobs

VARIABLES
  stage,   \* where each job stands
  pot,     \* tokens it holds
  spent,   \* tokens it has paid out, fees included
  back     \* tokens it has returned

settlement == <<stage, pot, spent, back>>

Stages == {"none", "open", "active", "settled", "closed", "refunded"}

Init ==
  /\ stage = [j \in Jobs |-> "none"]
  /\ pot = [j \in Jobs |-> 0]
  /\ spent = [j \in Jobs |-> 0]
  /\ back = [j \in Jobs |-> 0]

\* Only job j moves on; what it pays may end up in the pots of others.
Only(j) ==
  \A k \in Jobs \ {j} :
    /\ stage'[k] = stage[k]
    /\ spent'[k] = spent[k]
    /\ back'[k] = back[k]
    /\ pot'[k] >= pot[k]

\* A job starts with whatever its pot was filled with beforehand.
Launch(j) ==
  /\ stage[j] = "none"
  /\ stage'[j] = "open"
  /\ spent'[j] = spent[j]
  /\ back'[j] = back[j]
  /\ pot'[j] >= 0

Configure(j) ==
  /\ stage[j] = "open"
  /\ stage'[j] = "active"
  /\ spent'[j] = spent[j]
  /\ back'[j] = back[j]
  /\ pot'[j] = pot[j]

\* What is paid was in the pot, and no more than what is paid leaves it: less,
\* if a recipient is the pot itself.
Pay(j) ==
  /\ stage[j] = "active"
  /\ stage'[j] \in {"active", "settled"}
  /\ back'[j] = back[j]
  /\ spent'[j] - spent[j] \in 0 .. pot[j]
  /\ pot[j] - pot'[j] \in 0 .. spent'[j] - spent[j]

\* The whole pot goes back, unless it was named as its own refund account.
Refund(j) ==
  /\ stage[j] \in {"open", "active", "refunded"}
  /\ stage'[j] = "refunded"
  /\ spent'[j] = spent[j]
  /\ pot[j] > 0
  /\ back'[j] = back[j] + pot[j]
  /\ pot'[j] \in {0, pot[j]}

Close(j) ==
  /\ stage[j] = "settled"
  /\ stage'[j] = "closed"
  /\ spent'[j] = spent[j]
  /\ back'[j] = back[j]
  /\ pot'[j] = pot[j]

Deposit ==
  /\ UNCHANGED <<stage, spent, back>>
  /\ \A j \in Jobs : pot'[j] >= pot[j]

Next ==
  \/ Deposit
  \/ \E j \in Jobs :
       /\ Only(j)
       /\ Launch(j) \/ Configure(j) \/ Pay(j) \/ Refund(j) \/ Close(j)

Spec == Init /\ [][Next]_settlement
=============================================================================
