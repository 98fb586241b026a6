-------------------------------- MODULE MCChain --------------------------------
(* One job through the whole path: a factory, an escrow created by the command     *)
(* line or account by account, fee accounts given or created, a batch of two        *)
(* payouts or a refund, with a fee payer who cannot afford every choice.  A byte of  *)
(* another program passes for a factory and a look-alike for a token account.       *)
EXTENDS EscrowChain

MCKeys == {"launcher", "oracle", "stranger", "wallet", "pda", "pda2"}
MCMintOf == [a \in TokenAccounts |-> IF a = "foreign" THEN "other" ELSE "hmt"]
MCForeignVersion == [f \in Factories \ OwnFactories |-> 1]
MCOwnerOf ==
  [a \in TokenAccounts |->
     CASE a \in {"vault", "lookalike"} -> "pda" [] a = "refund" -> "launcher"
       [] a \in {"repfee", "recfee"} -> "oracle" [] OTHER -> "wallet"]
MCAuthority == [e \in Escrows |-> IF e = "job" THEN "pda" ELSE "pda2"]
MCBumpSeed == [e \in Escrows |-> IF e = "job" THEN 254 ELSE 255]
MCRent == [Escrow |-> 6, TokenAccount |-> 2, Mint |-> 1, Factory |-> 1]
MCMinted ==
  [a \in {"purse", "worker", "foreign"} \cup (TokenAccounts \ SplAccounts) |->
     IF a \in {"purse", "lookalike"} THEN 40 ELSE 0]

MCFactoryRequests == {[payer |-> "launcher", factory |-> "factory", version |-> v] : v \in {0, 1}}

CreateWith(factory, refund) ==
  [payer |-> "launcher", factory |-> factory, token_mint |-> "hmt", launcher |-> "launcher",
   canceler |-> "launcher", canceler_token |-> refund, escrow |-> "job",
   token_account |-> "vault", canceler_token_account |-> "refund", duration |-> 1]
MCCreateRequests ==
  {CreateWith("factory", t) : t \in {NoAccount, "purse", "foreign"}}
  \cup {CreateWith(f, a) : f \in Factories \ OwnFactories, a \in TokenAccounts \ SplAccounts}

MCSetupRequests ==
  {[payer |-> "launcher", owner |-> o, escrow |-> "job", reputation_oracle |-> "oracle",
    reputation_oracle_token |-> p, reputation_oracle_token_account |-> "repfee",
    reputation_oracle_stake |-> 10, recording_oracle |-> "oracle",
    recording_oracle_token |-> c, recording_oracle_token_account |-> "recfee",
    recording_oracle_stake |-> 5, manifest |-> "doc"] :
     o \in {"launcher", "stranger"}, p \in {NoAccount, "purse"}, c \in {NoAccount, "worker"}}

MCJobRequests ==
  {[payer |-> "launcher", factory |-> "factory", token_mint |-> "hmt2", escrow |-> "job2",
    token_account |-> "vault2", canceler_token_account |-> "refund2", duration |-> 1,
    reputation_oracle |-> "oracle", reputation_oracle_token_account |-> "repfee2",
    recording_oracle |-> "oracle", recording_oracle_token_account |-> "recfee2",
    oracle_stake |-> 50, manifest |-> "doc"]}

Call(kind, names) == [kind |-> kind, names |-> names]
Handled(kind, handler, names) ==
  Call(kind, names @@ [escrow |-> "job", trusted_handler |-> handler])

MCCalls ==
  {Call("FactoryInitialize", [factory |-> f, version |-> v]) : f \in Factories, v \in {0, 1}}
  \cup {Call("Initialize", CreateNames(r)) : r \in MCCreateRequests}
  \cup {Call("Initialize", [CreateNames(CreateWith("factory", "purse")) EXCEPT
                             !.token_account = a]) : a \in TokenAccounts \ SplAccounts}
  \cup {Handled("Setup", "launcher", SetupNames(r)) : r \in MCSetupRequests}
  \cup {Handled("StoreResults", h, [final_results_url |-> "doc", final_results_hash |-> "doc"]) :
          h \in {"oracle", "stranger"}}
  \cup {Handled("StoreFinalAmounts", "launcher", [total_amount |-> 30, total_recipients |-> 2])}
  \cup {Handled("Payout", h,
          [token_account |-> "vault", authority |-> "pda", recipient_token_account |-> "worker",
           reputation_oracle_token_account |-> p, recording_oracle_token_account |-> c,
           amount |-> n]) :
          h \in {"launcher", "oracle"}, p \in {"purse", "repfee"}, c \in {"worker", "recfee"},
          n \in {10, 20}}
  \cup {Handled("Cancel", "launcher",
          [token_account |-> "vault", authority |-> k, canceler_token_account |-> a]) :
          k \in {"pda", "pda2"}, a \in {"purse", "refund"}}
  \cup UNION {{Handled("Cancel", "launcher",
                 [token_account |-> v, authority |-> "pda", canceler_token_account |-> a]) :
                 <<v, a>> \in {<<"vault", l>>, <<l, "purse">>}} : l \in TokenAccounts \ SplAccounts}
  \cup {Handled("Complete", "oracle", [amount |-> 0])}

MCFunding == {[from |-> "purse", to |-> "vault", amount |-> 30]}
=============================================================================
