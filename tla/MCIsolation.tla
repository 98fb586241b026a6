------------------------------ MODULE MCIsolation ------------------------------
(* Two escrows, each with a vault and a handler of its own, a payout of one that   *)
(* goes into the vault of the other, and instructions that name the other's vault, *)
(* authority or accounts.  Each handler signs for the other's escrow too, a handler *)
(* is named without having signed, and the oracles sign before Setup makes them so. *)
EXTENDS EscrowClaims, MCCalls

MCKeys == {"alice", "bob", "reputation", "recording", "wallet", "pdaA", "pdaB"}
MCOwnerOf ==
  [a \in TokenAccounts |->
     CASE a = "vaultA" -> "pdaA" [] a = "vaultB" -> "pdaB" [] OTHER -> "wallet"]
MCAuthority == [e \in Escrows |-> IF e = "A" THEN "pdaA" ELSE "pdaB"]
MCInitialLedger ==
  [a \in TokenAccounts |-> CASE a = "vaultA" -> 30 [] a = "vaultB" -> 20 [] OTHER -> 0]
MCSigners == SignedBy({"alice", "bob", "reputation", "recording"}) \cup Unsigned({"alice"})

MCInitializeCalls ==
  {InitializeWith("vaultA", "alice", "alice", "worker", 1),
   InitializeWith("vaultB", "bob", "bob", "worker", 1),
   InitializeWith("vaultA", "bob", "bob", "vaultB", 1)}

MCSetupCalls == {SetupWith("reputation", "fees", "recording", "fees", 10, 10)}

MCAmountsCalls == {Totals(20, 2)}

MCPayoutCalls ==
  {PayoutOf(v, k, r, "fees", "fees", 10) :
     v \in {"vaultA", "vaultB"}, k \in {"pdaA", "pdaB"}, r \in {"worker", "vaultB"}}

MCCancelCalls ==
  {CancelOf(v, k, r) :
     v \in {"vaultA", "vaultB"}, k \in {"pdaA", "pdaB"}, r \in {"worker", "vaultB"}}
=============================================================================
