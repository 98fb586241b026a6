------------------------------- MODULE MCClients -------------------------------
(* One escrow and the requests of its launcher: set up twice with different        *)
(* accounts, a bulk payout in whole base units, one whose amounts are truncated one  *)
(* by one (uneven), one whose f64 sum comes out too small (rounded down), and every  *)
(* way to end the job.  Amounts in files are halves of a base unit.                 *)
EXTENDS EscrowClients, MCCalls

MCKeys == {"launcher", "oracle", "wallet", "pda"}
MCOwnerOf == [a \in TokenAccounts |-> IF a = "vault" THEN "pda" ELSE "wallet"]
MCAuthority == [e \in Escrows |-> "pda"]
MCInitialLedger == [a \in TokenAccounts |-> IF a = "purse" THEN 40 ELSE 0]
MCWalletTransfers == {WalletMove("purse", "vault", 40)}

Plain(command) == [command |-> command, escrow |-> "escrow", signer |-> "launcher"]
Create == Plain("create") @@
  [call |-> InitializeWith("vault", "launcher", "launcher", "purse", 1)]
SetupTo(account) == Plain("setup") @@
  [call |-> SetupWith("oracle", account, "oracle", account, 10, 10)]
PayTwo(first, second, rounding) == Plain("bulkPayout") @@
  [payouts |-> <<[recipient |-> "worker", ui |-> first],
                 [recipient |-> "worker", ui |-> second]>>,
   rounding |-> rounding]

MCRequest ==
  [r \in Requests |->
     CASE r = "create" -> Create
       [] r = "setup" -> SetupTo("fees")
       [] r = "setup again" -> SetupTo("worker")
       [] r = "pay" -> PayTwo(20, 20, 0)
       [] r = "uneven" -> PayTwo(21, 21, 0)
       [] r = "rounded down" -> PayTwo(20, 20, -1)
       [] r = "store" -> Plain("storeResults") @@ [results |-> "doc"]
       [] r \in {"cancel", "abort", "complete"} -> Plain(r)]
=============================================================================
