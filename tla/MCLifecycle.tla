------------------------------ MODULE MCLifecycle ------------------------------
(* One escrow of one job from launch to settlement or refund.  Money arrives in   *)
(* instalments, the totals are stored more than once, and the expiry may strike    *)
(* between any two instructions.  Or the vault, or a fee account, is an account of   *)
(* another program that only looks like a token account, and the factory a byte.    *)
EXTENDS EscrowClaims, MCCalls

MCKeys == {"launcher", "oracle", "wallet", "pda"}
MCOwnerOf == [a \in TokenAccounts |-> IF a \in {"vault", "lookalike"} THEN "pda" ELSE "wallet"]
MCAuthority == [e \in Escrows |-> "pda"]
MCInitialLedger == [a \in TokenAccounts |-> IF a \in {"purse", "foreign", "lookalike"} THEN 40 ELSE 0]
MCSigners == SignedBy({"launcher"})

\* A vault the escrow cannot sign for, a refund account of another mint and an
\* empty duration are refused.
MCInitializeCalls ==
  {InitializeWith(v, "launcher", "launcher", r, d) :
     v \in {"vault", "purse"}, r \in {"purse", "foreign"}, d \in {0, 1, 2}}
  \cup {[InitializeWith("lookalike", "launcher", "launcher", r, 2) EXCEPT !.factory = "byte"] :
          r \in {"purse", "lookalike"}}

\* So are stakes out of bounds and a fee account of another mint.
MCSetupCalls ==
  {SetupWith("oracle", "fees", "oracle", a, s[1], s[2]) :
     a \in {"fees", "foreign"}, s \in {<<10, 5>>, <<90, 10>>, <<90, 11>>, <<0, 0>>}}
  \cup {SetupWith("oracle", "fees", "oracle", "lookalike", 10, 5)}

MCAmountsCalls == {Totals(30, 2), Totals(10, 1), Totals(0, 1)}

MCPayoutCalls ==
  {PayoutOf(v, "pda", "worker", "fees", "fees", n) : v \in {"vault", "purse"}, n \in {10, 20}}
  \cup {PayoutOf(v, "pda", "worker", "fees", a, n) :
          v \in {"vault", "lookalike"}, a \in {"fees", "lookalike"}, n \in {0, 10}}

MCCancelCalls ==
  {CancelOf("vault", "pda", a) : a \in {"purse", "worker"}}
  \cup {CancelOf("lookalike", "pda", a) : a \in {"purse", "lookalike"}}

MCWalletTransfers == {WalletMove("purse", "vault", n) : n \in {10, 20}}
=============================================================================
