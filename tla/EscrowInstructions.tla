-------------------------- MODULE EscrowInstructions --------------------------
(****************************************************************************)
(* What each instruction of the escrow program does to the accounts it is      *)
(* given: program/src/processor.rs, one pair of operators per process_*        *)
(* function.                                                                  *)
(*                                                                            *)
(*   XAccepts(...)  the conjunction of all checks of process_x: where the code *)
(*                  returns an error, the runtime drops every effect of the    *)
(*                  transaction, so only the accepted case changes state;      *)
(*   XWrites(...)   the escrow account packed at the end of process_x;         *)
(*   XLedger(...)   the token ledger after the transfers process_x invokes.    *)
(*                                                                            *)
(* A call is a record of the accounts and arguments of one instruction, in the *)
(* order of program/src/instruction.rs; handler is the account expected to be   *)
(* the trusted handler, with its is_signer flag.                               *)
(*                                                                            *)
(* Operators named Bug... are mistakes for the mutation runs, as in TokenMath.  *)
(****************************************************************************)
EXTENDS TokenLedger

CONSTANTS
  Escrows,     \* escrow accounts, owned by the program
  Factories,   \* accounts of one byte, which is all that makes a factory
  OwnFactories,    \* those the program owns; new ones hold a zero
  ForeignVersion,  \* what the accounts of other programs hold in their byte
  Authority,   \* [Escrows -> Keys]: find_program_address of the escrow's key
  Documents,   \* a url with its hash: manifests and results
  NoKey, NoAccount, NoMint, NoFactory, NoDocument  \* COption::None, Default

\* A program-derived address is off the curve, hence no wallet's, and differs
\* from one escrow key to the next.
ASSUME AuthorityAssumption ==
  /\ Authority \in [Escrows -> Keys]
  /\ \A e, f \in Escrows : Authority[e] = Authority[f] => e = f

ASSUME FactoriesAssumption ==
  /\ OwnFactories \subseteq Factories
  /\ ForeignVersion \in [Factories \ OwnFactories -> 0 .. 255]

ASSUME DefaultsAssumption ==
  /\ NoKey \notin Keys
  /\ NoAccount \notin TokenAccounts
  /\ NoMint \notin Mints
  /\ NoFactory \notin Factories
  /\ NoDocument \notin Documents

EscrowStates == {"Uninitialized", "Launched", "Pending", "Partial", "Paid",
                 "Complete", "Cancelled"}

EscrowRecords ==
  [state: EscrowStates,
   factory: Factories \cup {NoFactory},
   expires: Timestamps,
   token_mint: Mints \cup {NoMint},
   token_account: TokenAccounts \cup {NoAccount},
   reputation_oracle: Keys \cup {NoKey},
   reputation_oracle_token_account: TokenAccounts \cup {NoAccount},
   reputation_oracle_stake: Percents,
   recording_oracle: Keys \cup {NoKey},
   recording_oracle_token_account: TokenAccounts \cup {NoAccount},
   recording_oracle_stake: Percents,
   launcher: Keys \cup {NoKey},
   canceler: Keys \cup {NoKey},
   canceler_token_account: TokenAccounts \cup {NoAccount},
   total_amount: Amounts,
   total_recipients: Amounts,
   sent_amount: Amounts,
   sent_recipients: Amounts,
   manifest: Documents \cup {NoDocument},
   final_results: Documents \cup {NoDocument}]

\* Escrow::default(), which is also what an all-zero account unpacks to
BlankEscrow ==
  [state |-> "Uninitialized",
   factory |-> NoFactory,
   expires |-> 0,
   token_mint |-> NoMint,
   token_account |-> NoAccount,
   reputation_oracle |-> NoKey,
   reputation_oracle_token_account |-> NoAccount,
   reputation_oracle_stake |-> 0,
   recording_oracle |-> NoKey,
   recording_oracle_token_account |-> NoAccount,
   recording_oracle_stake |-> 0,
   launcher |-> NoKey,
   canceler |-> NoKey,
   canceler_token_account |-> NoAccount,
   total_amount |-> 0,
   total_recipients |-> 0,
   sent_amount |-> 0,
   sent_recipients |-> 0,
   manifest |-> NoDocument,
   final_results |-> NoDocument]

Handlers == [key: Keys, is_signer: BOOLEAN]

InitializeCall ==
  [factory: Factories, token_mint: Mints, token_account: TokenAccounts,
   launcher: Keys, canceler: Keys, canceler_token_account: TokenAccounts,
   duration: Amounts]

SetupCall ==
  [reputation_oracle: Keys, reputation_oracle_token_account: TokenAccounts,
   recording_oracle: Keys, recording_oracle_token_account: TokenAccounts,
   reputation_oracle_stake: Percents, recording_oracle_stake: Percents,
   manifest: Documents]

AmountsCall == [total_amount: Amounts, total_recipients: Amounts]

\* The token program of the list is no part of a call: with any other than spl_token
\* the instructions of token_transfer are not built (TransferBuilt in EscrowChain),
\* and a payout of nothing does not look at it.
PayoutCall ==
  [token_account: TokenAccounts, authority: Keys,
   recipient_token_account: TokenAccounts,
   reputation_oracle_token_account: TokenAccounts,
   recording_oracle_token_account: TokenAccounts,
   amount: Amounts]

CancelCall ==
  [token_account: TokenAccounts, authority: Keys,
   canceler_token_account: TokenAccounts]

-----------------------------------------------------------------------------
\* is_initialized of Factory and of Escrow
FactoryInitialized(version) == version # 0
EscrowInitialized(esc) == esc.state # "Uninitialized"

\* The keys check_trusted_handler recognises.  A key of the call is never
\* NoKey, so an oracle that is COption::None recognises nobody.
TrustedKeys(esc) ==
  {esc.launcher, esc.canceler, esc.reputation_oracle, esc.recording_oracle}

\* as if the is_signer check were missing
BugUnsignedHandler(esc, handler) == handler.key \in TrustedKeys(esc)

TrustedHandler(esc, handler) ==
  /\ handler.is_signer
  /\ handler.key \in TrustedKeys(esc)

\* as if the expiry were not checked
BugNoExpiryCheck(esc, now, handler, allowed_states) ==
  /\ EscrowInitialized(esc)
  /\ esc.state \in allowed_states
  /\ TrustedHandler(esc, handler)

\* get_escrow_with_state_check
StateCheck(esc, now, handler, allowed_states) ==
  /\ EscrowInitialized(esc)
  /\ esc.expires >= now
  /\ esc.state \in allowed_states
  /\ TrustedHandler(esc, handler)

-----------------------------------------------------------------------------
FactoryInitializeAccepts(version) == ~FactoryInitialized(version)

\* The runtime refuses a transaction in which a program changed an account that
\* is not its own; storing what is there changes nothing.
OwnerAllows(f, version, v) == f \in OwnFactories \/ v = version

\* as if the owner of the vault, or the mint of the refund account, were not checked
BugAnyVault(e, esc, version, call) ==
  /\ FactoryInitialized(version)
  /\ ~EscrowInitialized(esc)
  /\ call.duration # 0
  /\ MintOf[call.token_account] = call.token_mint
  /\ MintOf[call.canceler_token_account] = call.token_mint
BugAnyRefundMint(e, esc, version, call) ==
  /\ FactoryInitialized(version)
  /\ ~EscrowInitialized(esc)
  /\ call.duration # 0
  /\ OwnerOf[call.token_account] = Authority[e]
  /\ MintOf[call.token_account] = call.token_mint

\* None of the accounts but the escrow is asked whose it is: a byte that is not
\* zero is a factory, and what unpacks as a token account is one.
InitializeAccepts(e, esc, version, call) ==
  /\ FactoryInitialized(version)
  /\ ~EscrowInitialized(esc)
  /\ call.duration # 0
  /\ OwnerOf[call.token_account] = Authority[e]
  /\ MintOf[call.token_account] = call.token_mint
  /\ MintOf[call.canceler_token_account] = call.token_mint

\* ..Default::default() covers every field not named, the factory among them.
InitializeWrites(now, call) ==
  [BlankEscrow EXCEPT
     !.state = "Launched",
     !.expires = ExpiresAt(now, call.duration),
     !.token_mint = call.token_mint,
     !.token_account = call.token_account,
     !.launcher = call.launcher,
     !.canceler = call.canceler,
     !.canceler_token_account = call.canceler_token_account]

\* as if the mint of the recording oracle's fee account were not checked
BugAnyFeeMint(esc, now, handler, call) ==
  /\ StateCheck(esc, now, handler, {"Launched"})
  /\ call.reputation_oracle_stake + call.recording_oracle_stake \in 1 .. 100
  /\ MintOf[call.reputation_oracle_token_account] = esc.token_mint

\* as if an escrow could be set up again
BugSetupAgain(esc, now, handler, call) ==
  /\ StateCheck(esc, now, handler, {"Launched", "Pending"})
  /\ call.reputation_oracle_stake + call.recording_oracle_stake \in 1 .. 100
  /\ MintOf[call.reputation_oracle_token_account] = esc.token_mint
  /\ MintOf[call.recording_oracle_token_account] = esc.token_mint

\* checked_add of two u8 fails above 255, which the bound of 100 subsumes.
SetupAccepts(esc, now, handler, call) ==
  /\ StateCheck(esc, now, handler, {"Launched"})
  /\ call.reputation_oracle_stake + call.recording_oracle_stake \in 1 .. 100
  /\ MintOf[call.reputation_oracle_token_account] = esc.token_mint
  /\ MintOf[call.recording_oracle_token_account] = esc.token_mint

SetupWrites(esc, call) ==
  [esc EXCEPT
     !.reputation_oracle = call.reputation_oracle,
     !.reputation_oracle_token_account = call.reputation_oracle_token_account,
     !.reputation_oracle_stake = call.reputation_oracle_stake,
     !.recording_oracle = call.recording_oracle,
     !.recording_oracle_token_account = call.recording_oracle_token_account,
     !.recording_oracle_stake = call.recording_oracle_stake,
     !.manifest = call.manifest,
     !.state = "Pending"]

\* as if results could be stored before the oracles are known
BugResultsBeforeSetup(esc, now, handler) ==
  StateCheck(esc, now, handler, {"Launched", "Pending", "Partial"})

StoreResultsAccepts(esc, now, handler) ==
  StateCheck(esc, now, handler, {"Pending", "Partial"})

StoreResultsWrites(esc, results) == [esc EXCEPT !.final_results = results]

\* as if the totals could still be stored once everything is paid
BugAmountsAfterPaid(esc, now, handler) ==
  StateCheck(esc, now, handler, {"Pending", "Partial", "Paid"})

StoreAmountsAccepts(esc, now, handler) ==
  StateCheck(esc, now, handler, {"Pending", "Partial"})

\* as if storing new totals started the counting afresh
BugAmountsResetSent(esc, call) ==
  [esc EXCEPT !.total_amount = call.total_amount,
              !.total_recipients = call.total_recipients,
              !.sent_amount = 0, !.sent_recipients = 0]

StoreAmountsWrites(esc, call) ==
  [esc EXCEPT !.total_amount = call.total_amount,
              !.total_recipients = call.total_recipients]

-----------------------------------------------------------------------------
\* process_payout: the amounts of the three transfers
ReputationFee(esc, amount) == Fee(amount, esc.reputation_oracle_stake)
RecordingFee(esc, amount) == Fee(amount, esc.recording_oracle_stake)
RecipientShare(esc, amount) ==
  RecipientAmount(amount, esc.reputation_oracle_stake, esc.recording_oracle_stake)

AfterRecipient(esc, ledger, call) ==
  Transferred(ledger, call.token_account, call.recipient_token_account,
              RecipientShare(esc, call.amount))
AfterReputation(esc, ledger, call) ==
  Transferred(AfterRecipient(esc, ledger, call), call.token_account,
              call.reputation_oracle_token_account, ReputationFee(esc, call.amount))
\* as if the recording fee were forgotten, or sent to the other oracle
BugNoRecordingFee(esc, ledger, call) == AfterReputation(esc, ledger, call)
BugFeesToOneOracle(esc, ledger, call) ==
  Transferred(AfterReputation(esc, ledger, call), call.token_account,
              call.reputation_oracle_token_account, RecordingFee(esc, call.amount))

PayoutLedger(esc, ledger, call) ==
  Transferred(AfterReputation(esc, ledger, call), call.token_account,
              call.recording_oracle_token_account, RecordingFee(esc, call.amount))

\* A transfer of nothing is not invoked at all.
Invokable(ledger, from, to, authority, n) ==
  n = 0 \/ CanTransfer(ledger, from, to, authority, n)

\* as if the results of invoke_signed were dropped
BugTransfersUnchecked(esc, ledger, call) == TRUE

PayoutTransfersSucceed(esc, ledger, call) ==
  /\ Invokable(ledger, call.token_account, call.recipient_token_account,
               call.authority, RecipientShare(esc, call.amount))
  /\ Invokable(AfterRecipient(esc, ledger, call), call.token_account,
               call.reputation_oracle_token_account, call.authority,
               ReputationFee(esc, call.amount))
  /\ Invokable(AfterReputation(esc, ledger, call), call.token_account,
               call.recording_oracle_token_account, call.authority,
               RecordingFee(esc, call.amount))

\* An oracle account that is COption::None equals no account of the call.
PayoutAccountsMatch(e, esc, call) ==
  /\ call.token_account = esc.token_account
  /\ call.reputation_oracle_token_account = esc.reputation_oracle_token_account
  /\ call.recording_oracle_token_account = esc.recording_oracle_token_account
  /\ call.authority = Authority[e]

WithinTotals(esc, amount) ==
  /\ WrapAdd(esc.sent_amount, amount) <= esc.total_amount
  /\ WrapAdd(esc.sent_recipients, 1) <= esc.total_recipients

PayoutAccepts(e, esc, ledger, now, handler, call) ==
  /\ StateCheck(esc, now, handler, {"Pending", "Partial"})
  /\ PayoutAccountsMatch(e, esc, call)
  /\ ledger[call.token_account] >= call.amount
  /\ WithinTotals(esc, call.amount)
  /\ PayoutTransfersSucceed(esc, ledger, call)

\* as if only what the recipient gets were counted as sent
BugCountsRecipientShare(esc, amount) ==
  [esc EXCEPT !.sent_amount = WrapAdd(@, RecipientShare(esc, amount)),
              !.sent_recipients = WrapAdd(@, 1),
              !.state = "Partial"]

\* as if the last recipient settled the escrow, whatever the amount
BugPaidByRecipients(esc, amount) ==
  [esc EXCEPT !.sent_amount = WrapAdd(@, amount),
              !.sent_recipients = WrapAdd(@, 1),
              !.state = IF WrapAdd(esc.sent_recipients, 1) = esc.total_recipients
                        THEN "Paid" ELSE "Partial"]

PayoutWrites(esc, amount) ==
  LET sent == WrapAdd(esc.sent_amount, amount)
      recipients == WrapAdd(esc.sent_recipients, 1)
  IN  [esc EXCEPT
         !.sent_amount = sent,
         !.sent_recipients = recipients,
         !.state = IF recipients = esc.total_recipients /\ sent = esc.total_amount
                   THEN "Paid" ELSE "Partial"]

-----------------------------------------------------------------------------
\* as if an escrow could be cancelled once it is paid
BugCancelPaid(e, esc, ledger, handler, call) ==
  /\ EscrowInitialized(esc)
  /\ esc.state # "Complete"
  /\ TrustedHandler(esc, handler)
  /\ call.token_account = esc.token_account
  /\ call.canceler_token_account = esc.canceler_token_account
  /\ call.authority = Authority[e]
  /\ ledger[call.token_account] # 0
  /\ CanTransfer(ledger, call.token_account, call.canceler_token_account,
                 call.authority, ledger[call.token_account])

\* process_cancel reads no clock and refuses only the two settled states.
CancelAccepts(e, esc, ledger, handler, call) ==
  /\ EscrowInitialized(esc)
  /\ esc.state \notin {"Complete", "Paid"}
  /\ TrustedHandler(esc, handler)
  /\ call.token_account = esc.token_account
  /\ call.canceler_token_account = esc.canceler_token_account
  /\ call.authority = Authority[e]
  /\ ledger[call.token_account] # 0
  /\ CanTransfer(ledger, call.token_account, call.canceler_token_account,
                 call.authority, ledger[call.token_account])

CancelLedger(ledger, call) ==
  Transferred(ledger, call.token_account, call.canceler_token_account,
              ledger[call.token_account])

\* as if Cancel forgot to store the state
BugCancelKeepsState(esc) == esc

CancelWrites(esc) == [esc EXCEPT !.state = "Cancelled"]

CompleteAccepts(esc, now, handler) == StateCheck(esc, now, handler, {"Paid"})

CompleteWrites(esc) == [esc EXCEPT !.state = "Complete"]
=============================================================================
