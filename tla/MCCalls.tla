-------------------------------- MODULE MCCalls --------------------------------
(* Constructors for the calls the model-checking modules submit, and the world   *)
(* they share: one mint everybody uses and one that is foreign to the escrows.    *)
EXTENDS EscrowProgram

MCMintOf == [a \in TokenAccounts |-> IF a = "foreign" THEN "other" ELSE "hmt"]

\* Each byte of another program is one that passes for a version.
MCForeignVersion == [f \in Factories \ OwnFactories |-> 1]

SignedBy(keys) == {[key |-> k, is_signer |-> TRUE] : k \in keys}
Unsigned(keys) == {[key |-> k, is_signer |-> FALSE] : k \in keys}

InitializeWith(vault, launcher, canceler, refund, duration) ==
  [factory |-> "factory", token_mint |-> "hmt", token_account |-> vault,
   launcher |-> launcher, canceler |-> canceler,
   canceler_token_account |-> refund, duration |-> duration]

SetupWith(reputation, reputation_account, recording, recording_account,
          reputation_stake, recording_stake) ==
  [reputation_oracle |-> reputation,
   reputation_oracle_token_account |-> reputation_account,
   recording_oracle |-> recording,
   recording_oracle_token_account |-> recording_account,
   reputation_oracle_stake |-> reputation_stake,
   recording_oracle_stake |-> recording_stake, manifest |-> "doc"]

Totals(amount, recipients) == [total_amount |-> amount, total_recipients |-> recipients]

PayoutOf(vault, authority, recipient, reputation_account, recording_account, amount) ==
  [token_account |-> vault, authority |-> authority,
   recipient_token_account |-> recipient,
   reputation_oracle_token_account |-> reputation_account,
   recording_oracle_token_account |-> recording_account, amount |-> amount]

CancelOf(vault, authority, refund) ==
  [token_account |-> vault, authority |-> authority, canceler_token_account |-> refund]

WalletMove(from, to, amount) == [from |-> from, to |-> to, amount |-> amount]
=============================================================================
