----------------------------- MODULE MCArithmetic -----------------------------
(* A machine word of 256, so that fees overflow, the sent counter wraps when paid  *)
(* tokens come back, and durations wrap the expiry; token accounts that play two   *)
(* roles at once (recipient, fee or refund account and vault the same).            *)
EXTENDS EscrowClaims, MCCalls

MCKeys == {"launcher", "wallet", "pda"}
MCOwnerOf == [a \in TokenAccounts |-> IF a = "vault" THEN "pda" ELSE "wallet"]
MCAuthority == [e \in Escrows |-> "pda"]
MCInitialLedger == [a \in TokenAccounts |-> IF a = "vault" THEN 200 ELSE 0]
MCSigners == SignedBy({"launcher"})

MCInitializeCalls ==
  {InitializeWith("vault", "launcher", "launcher", a, 2) : a \in {"worker", "vault"}}
  \cup {InitializeWith("vault", "launcher", "launcher", "worker", d) : d \in {127, 200}}

MCSetupCalls ==
  {SetupWith("launcher", a, "launcher", "worker", s[1], s[2]) :
     a \in {"worker", "vault"}, s \in {<<2, 1>>, <<50, 50>>}}

MCAmountsCalls == {Totals(200, 2), Totals(50, 3), Totals(255, 4)}

MCPayoutCalls ==
  {PayoutOf("vault", "pda", r, a, "worker", n) :
     r \in {"worker", "vault"}, a \in {"worker", "vault"}, n \in {5, 100, 150}}

MCCancelCalls == {CancelOf("vault", "pda", a) : a \in {"worker", "vault"}}

MCWalletTransfers == {WalletMove("worker", "vault", 100)}
=============================================================================
