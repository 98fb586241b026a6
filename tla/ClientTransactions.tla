--------------------------- MODULE ClientTransactions ---------------------------
(****************************************************************************)
(* The transactions the API (human-api/src/job.rs, factory.rs, helpers.rs) and   *)
(* the command line (cli/src/main.rs) build to launch and set up a job.           *)
(*                                                                            *)
(* The code keeps three lists side by side while it builds one: the instructions, *)
(* the keypairs that will sign, and the rent it will ask the fee payer for.  A     *)
(* transaction is a record of the three.  The addresses of new accounts are those  *)
(* of fresh keypairs, part of the request here.                                   *)
(****************************************************************************)
EXTENDS EscrowWire

CONSTANT Rent    \* get_minimum_balance_for_rent_exemption, by kind of account

\* Instructions of the programs beside the escrow program
NewAccount(address, kind) == [program |-> "create_account", new |-> address, kind |-> kind]
NewMint(mint) ==
  <<NewAccount(mint, "Mint"), [program |-> "initialize_mint", mint |-> mint]>>
NewTokenAccount(address, mint, owner) ==
  <<NewAccount(address, "TokenAccount"),
    [program |-> "initialize_account", account |-> address, mint |-> mint, owner |-> owner]>>

\* An instruction of the escrow program, built for the roles and arguments named
Escrow(kind, names) ==
  LET built == Built(kind, Joined([clock |-> "clock", token_program |-> "spl_token"], names))
  IN  [program |-> "escrow", data |-> built.data, accounts |-> built.accounts]

Transaction(instructions, signers, budget) ==
  [instructions |-> instructions, signers |-> signers, budget |-> budget]

\* new_factory and command_create_factory
NewFactory(r) ==
  Transaction(<<NewAccount(r.factory, "Factory"),
                Escrow("FactoryInitialize", [factory |-> r.factory, version |-> r.version])>>,
              {r.payer, r.factory}, Rent.Factory)

-----------------------------------------------------------------------------
\* new_job.  The refund account is initialised with itself as its mint, Initialize
\* is given the vault as the refund account, and Setup the reputation oracle's fee
\* account and stake twice.
\* (oracle_stake * 100.0) as u8, the stake in thousandths: the cast drops the
\* fraction and saturates.
StakePercent(oracle_stake) == IF oracle_stake > 2559 THEN 255 ELSE oracle_stake \div 10

NewJobAccounts(r) ==
  NewMint(r.token_mint)
  \o <<NewAccount(r.escrow, "Escrow")>>
  \o NewTokenAccount(r.token_account, r.token_mint, Authority[r.escrow])
  \o NewTokenAccount(r.canceler_token_account, r.canceler_token_account, r.payer)

NewJobInitialize(r) ==
  Escrow("Initialize",
    [escrow |-> r.escrow, factory |-> r.factory, token_mint |-> r.token_mint,
     token_account |-> r.token_account, launcher |-> r.payer, canceler |-> r.payer,
     canceler_token_account |-> r.token_account, duration |-> r.duration])

NewJobSetup(r) ==
  Escrow("Setup",
    [escrow |-> r.escrow, trusted_handler |-> r.payer,
     reputation_oracle |-> r.reputation_oracle,
     reputation_oracle_token_account |-> r.reputation_oracle_token_account,
     reputation_oracle_stake |-> StakePercent(r.oracle_stake),
     recording_oracle |-> r.recording_oracle,
     recording_oracle_token_account |-> r.reputation_oracle_token_account,
     recording_oracle_stake |-> StakePercent(r.oracle_stake),
     manifest_url |-> r.manifest, manifest_hash |-> r.manifest])

NewJob(r) ==
  Transaction(
    NewJobAccounts(r) \o <<NewJobInitialize(r)>>
    \o NewTokenAccount(r.reputation_oracle_token_account, r.token_mint, r.reputation_oracle)
    \o NewTokenAccount(r.recording_oracle_token_account, r.token_mint, r.recording_oracle)
    \o <<NewJobSetup(r)>>,
    {r.payer, r.token_mint, r.escrow, r.token_account, r.canceler_token_account,
     r.reputation_oracle_token_account, r.recording_oracle_token_account},
    Rent.Mint + Rent.Escrow + 4 * Rent.TokenAccount)

-----------------------------------------------------------------------------
\* command_create: a refund account is created unless one is given.
RefundAccount(r) ==
  IF r.canceler_token = NoAccount THEN r.canceler_token_account ELSE r.canceler_token

CreateNames(r) ==
  [escrow |-> r.escrow, factory |-> r.factory, token_mint |-> r.token_mint,
   token_account |-> r.token_account, launcher |-> r.launcher, canceler |-> r.canceler,
   canceler_token_account |-> RefundAccount(r), duration |-> r.duration]

\* as if the rent of the optional account had not been added
BugNoRefundRent(r) == Rent.TokenAccount + Rent.Escrow

CreateBudget(r) ==
  Rent.TokenAccount + Rent.Escrow
  + (IF r.canceler_token = NoAccount THEN Rent.TokenAccount ELSE 0)

CommandCreate(r) ==
  LET creates == r.canceler_token = NoAccount
      vault == NewTokenAccount(r.token_account, r.token_mint, Authority[r.escrow])
  IN  Transaction(
        <<vault[1], NewAccount(r.escrow, "Escrow"), vault[2]>>
        \o (IF creates
            THEN NewTokenAccount(r.canceler_token_account, r.token_mint, r.canceler)
            ELSE <<>>)
        \o <<Escrow("Initialize", CreateNames(r))>>,
        {r.payer, r.token_account, r.escrow}
          \cup (IF creates THEN {r.canceler_token_account} ELSE {}),
        CreateBudget(r))

\* command_setup: a fee account is created for each oracle that has none, for the
\* mint in the escrow as it was read.
SetupNames(r) ==
  [escrow |-> r.escrow, trusted_handler |-> r.owner,
   reputation_oracle |-> r.reputation_oracle,
   reputation_oracle_token_account |->
     IF r.reputation_oracle_token = NoAccount THEN r.reputation_oracle_token_account
     ELSE r.reputation_oracle_token,
   reputation_oracle_stake |-> r.reputation_oracle_stake,
   recording_oracle |-> r.recording_oracle,
   recording_oracle_token_account |->
     IF r.recording_oracle_token = NoAccount THEN r.recording_oracle_token_account
     ELSE r.recording_oracle_token,
   recording_oracle_stake |-> r.recording_oracle_stake,
   manifest_url |-> r.manifest, manifest_hash |-> r.manifest]

FeeAccount(token, fresh, mint, oracle) ==
  IF token = NoAccount THEN NewTokenAccount(fresh, mint, oracle) ELSE <<>>

CommandSetup(r, mint) ==
  LET fresh == {x \in {<<r.reputation_oracle_token, r.reputation_oracle_token_account>>,
                       <<r.recording_oracle_token, r.recording_oracle_token_account>>} :
                  x[1] = NoAccount}
  IN  Transaction(
        FeeAccount(r.reputation_oracle_token, r.reputation_oracle_token_account, mint,
                   r.reputation_oracle)
        \o FeeAccount(r.recording_oracle_token, r.recording_oracle_token_account, mint,
                      r.recording_oracle)
        \o <<Escrow("Setup", SetupNames(r))>>,
        {r.payer, r.owner} \cup {x[2] : x \in fresh},
        Cardinality(fresh) * Rent.TokenAccount)
=============================================================================
