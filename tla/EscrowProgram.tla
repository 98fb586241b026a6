----------------------------- MODULE EscrowProgram -----------------------------
(****************************************************************************)
(* The escrow program as a state machine: the accounts it owns (factories and  *)
(* escrows), the token ledger it moves funds on, and the clock sysvar.         *)
(*                                                                            *)
(* Anybody may submit any instruction with any accounts at any time: the       *)
(* runtime executes transactions one after the other, each atomically, so an   *)
(* interleaving of single accepted instructions is what clients, handlers and  *)
(* wallets can do together.  A refused instruction changes nothing and is a    *)
(* stuttering step.  The calls are drawn from constant sets, chosen by the     *)
(* model-checking module; the proofs hold for every choice.                    *)
(****************************************************************************)
EXTENDS EscrowInstructions

CONSTANTS
  InitialLedger,     \* the token ledger before the first step
  Signers,           \* handler accounts that appear in transactions
  FactoryVersions, InitializeCalls, SetupCalls, Results, AmountsCalls,
  PayoutCalls, CancelCalls,
  WalletTransfers,   \* transfers wallets make: [from, to, amount]
  MaxWalletTransfers,  \* bound: how many of them happen
  MaxClock             \* bound: the last timestamp

ASSUME CallsAssumption ==
  /\ InitialLedger \in Ledgers
  /\ Signers \subseteq Handlers
  /\ FactoryVersions \subseteq 0 .. 255
  /\ InitializeCalls \subseteq InitializeCall
  /\ SetupCalls \subseteq SetupCall
  /\ Results \subseteq Documents
  /\ AmountsCalls \subseteq AmountsCall
  /\ PayoutCalls \subseteq PayoutCall
  /\ CancelCalls \subseteq CancelCall
  /\ WalletTransfers \subseteq [from: TokenAccounts, to: TokenAccounts, amount: Amounts]
  /\ MaxWalletTransfers \in Nat
  /\ MaxClock \in 0 .. I64 - 1

VARIABLES
  clock,      \* Clock::unix_timestamp
  version,    \* [Factories -> u8], 0 is uninitialised; a foreign one keeps its byte
  escrow,     \* [Escrows -> EscrowRecords], the unpacked escrow accounts
  balance,    \* the token ledger
  transfers   \* wallet transfers made so far

vars == <<clock, version, escrow, balance, transfers>>

TypeOK ==
  /\ clock \in 0 .. MaxClock
  /\ version \in [Factories -> 0 .. 255]
  /\ escrow \in [Escrows -> EscrowRecords]
  /\ balance \in Ledgers
  /\ transfers \in 0 .. MaxWalletTransfers

Init ==
  /\ clock = 0
  /\ version = [f \in Factories |-> IF f \in OwnFactories THEN 0 ELSE ForeignVersion[f]]
  /\ escrow = [e \in Escrows |-> BlankEscrow]
  /\ balance = InitialLedger
  /\ transfers = 0

-----------------------------------------------------------------------------
\* The cluster's clock moves on.
Tick ==
  /\ clock < MaxClock
  /\ clock' = clock + 1
  /\ UNCHANGED <<version, escrow, balance, transfers>>

\* A wallet moves its own tokens: funding an escrow, spending a payout.  A
\* program-derived authority has no private key, so no wallet signs for it.
WalletTransfer(t) ==
  /\ transfers < MaxWalletTransfers
  /\ \A e \in Escrows : OwnerOf[t.from] # Authority[e]
  /\ CanTransfer(balance, t.from, t.to, OwnerOf[t.from], t.amount)
  /\ balance' = Transferred(balance, t.from, t.to, t.amount)
  /\ transfers' = transfers + 1
  /\ UNCHANGED <<clock, version, escrow>>

-----------------------------------------------------------------------------
\* The new version is not compared with UNINITIALIZED_FACTORY_VERSION.
FactoryInitialize(f, v) ==
  /\ FactoryInitializeAccepts(version[f])
  /\ OwnerAllows(f, version[f], v)
  /\ version' = [version EXCEPT ![f] = v]
  /\ UNCHANGED <<clock, escrow, balance, transfers>>

Initialize(e, call) ==
  /\ InitializeAccepts(e, escrow[e], version[call.factory], call)
  /\ escrow' = [escrow EXCEPT ![e] = InitializeWrites(clock, call)]
  /\ UNCHANGED <<clock, version, balance, transfers>>

Setup(e, handler, call) ==
  /\ SetupAccepts(escrow[e], clock, handler, call)
  /\ escrow' = [escrow EXCEPT ![e] = SetupWrites(@, call)]
  /\ UNCHANGED <<clock, version, balance, transfers>>

StoreResults(e, handler, results) ==
  /\ StoreResultsAccepts(escrow[e], clock, handler)
  /\ escrow' = [escrow EXCEPT ![e] = StoreResultsWrites(@, results)]
  /\ UNCHANGED <<clock, version, balance, transfers>>

StoreFinalAmounts(e, handler, call) ==
  /\ StoreAmountsAccepts(escrow[e], clock, handler)
  /\ escrow' = [escrow EXCEPT ![e] = StoreAmountsWrites(@, call)]
  /\ UNCHANGED <<clock, version, balance, transfers>>

Payout(e, handler, call) ==
  /\ PayoutAccepts(e, escrow[e], balance, clock, handler, call)
  /\ escrow' = [escrow EXCEPT ![e] = PayoutWrites(@, call.amount)]
  /\ balance' = PayoutLedger(escrow[e], balance, call)
  /\ UNCHANGED <<clock, version, transfers>>

Cancel(e, handler, call) ==
  /\ CancelAccepts(e, escrow[e], balance, handler, call)
  /\ escrow' = [escrow EXCEPT ![e] = CancelWrites(@)]
  /\ balance' = CancelLedger(balance, call)
  /\ UNCHANGED <<clock, version, transfers>>

Complete(e, handler) ==
  /\ CompleteAccepts(escrow[e], clock, handler)
  /\ escrow' = [escrow EXCEPT ![e] = CompleteWrites(@)]
  /\ UNCHANGED <<clock, version, balance, transfers>>

-----------------------------------------------------------------------------
Next ==
  \/ Tick
  \/ \E t \in WalletTransfers : WalletTransfer(t)
  \/ \E f \in Factories, v \in FactoryVersions : FactoryInitialize(f, v)
  \/ \E e \in Escrows, call \in InitializeCalls : Initialize(e, call)
  \/ \E e \in Escrows, h \in Signers, call \in SetupCalls : Setup(e, h, call)
  \/ \E e \in Escrows, h \in Signers, r \in Results : StoreResults(e, h, r)
  \/ \E e \in Escrows, h \in Signers, call \in AmountsCalls : StoreFinalAmounts(e, h, call)
  \/ \E e \in Escrows, h \in Signers, call \in PayoutCalls : Payout(e, h, call)
  \/ \E e \in Escrows, h \in Signers, call \in CancelCalls : Cancel(e, h, call)
  \/ \E e \in Escrows, h \in Signers : Complete(e, h)

Spec == Init /\ [][Next]_vars

-----------------------------------------------------------------------------
(* What must never go wrong, and what no step may do.                         *)

Unsettled == {"Pending", "Partial"}
Settled == {"Paid", "Complete"}

Known(e) == EscrowInitialized(escrow[e])
Expired(e) == escrow[e].expires < clock
Vault(e) == escrow[e].token_account

\* The escrows as the jobs of JobSettlement
StageOf(state) ==
  CASE state = "Uninitialized" -> "none"
    [] state = "Launched" -> "open"
    [] state \in Unsettled -> "active"
    [] state = "Paid" -> "settled"
    [] state = "Complete" -> "closed"
    [] state = "Cancelled" -> "refunded"

Pot(e) == IF Known(e) THEN balance[Vault(e)] ELSE 0

\* How far a u64 counter advanced, when it may have wrapped once.
Advance(before, after) == IF after >= before THEN after - before ELSE after - before + U64

\* The call a client builds from the escrow account it has read.
OwnPayoutCall(e, recipient, amount) ==
  [token_account |-> Vault(e),
   authority |-> Authority[e],
   recipient_token_account |-> recipient,
   reputation_oracle_token_account |-> escrow[e].reputation_oracle_token_account,
   recording_oracle_token_account |-> escrow[e].recording_oracle_token_account,
   amount |-> amount]

PayoutAccounts(e) ==
  {Vault(e), escrow[e].reputation_oracle_token_account,
   escrow[e].recording_oracle_token_account}

OwnCancelCall(e) ==
  [token_account |-> Vault(e),
   authority |-> Authority[e],
   canceler_token_account |-> escrow[e].canceler_token_account]

(* From Setup on, through every later instruction, both oracles are known,    *)
(* their fee accounts hold the escrow's mint and their stakes make 1 to 100    *)
(* percent: process_payout relies on all of it without checking it again.      *)
OraclesFixedBySetup ==
  \A e \in Escrows : escrow[e].state \in Unsettled \cup Settled =>
    /\ escrow[e].reputation_oracle \in Keys
    /\ escrow[e].recording_oracle \in Keys
    /\ escrow[e].reputation_oracle_token_account \in TokenAccounts
    /\ escrow[e].recording_oracle_token_account \in TokenAccounts
    /\ MintOf[escrow[e].reputation_oracle_token_account] = escrow[e].token_mint
    /\ MintOf[escrow[e].recording_oracle_token_account] = escrow[e].token_mint
    /\ escrow[e].reputation_oracle_stake + escrow[e].recording_oracle_stake \in 1 .. 100

(* The state Paid, and Complete after it, is reached only with both counters   *)
(* at their totals, and the totals cannot be moved away afterwards by another  *)
(* StoreFinalAmounts (process_payout, process_store_amounts, process_complete). *)
SettledInFull ==
  \A e \in Escrows : escrow[e].state \in Settled =>
    /\ escrow[e].sent_amount = escrow[e].total_amount
    /\ escrow[e].sent_recipients = escrow[e].total_recipients

(* The vault of an initialised escrow is signed for by that escrow's derived   *)
(* authority and by no other's, so no two escrows ever pay from one vault,     *)
(* whoever initialised them with whatever accounts (process_initialize).       *)
VaultsNeverShared ==
  \A e, f \in Escrows : Known(e) /\ Known(f) =>
    /\ OwnerOf[Vault(e)] = Authority[e]
    /\ Vault(e) = Vault(f) => e = f

(* Until an escrow is settled, expired or not, cancelled already or not, every *)
(* trusted handler can send whatever is in the vault back: no check of         *)
(* process_cancel and none of the token program stands in the way, because     *)
(* process_initialize compared the mints and the authority the transfer needs.  *)
(* It did not ask whose the accounts are, so this is said of token accounts.   *)
FundsRecoverable ==
  \A e \in Escrows :
    /\ Known(e) /\ escrow[e].state \notin Settled
    /\ {Vault(e), escrow[e].canceler_token_account} \subseteq SplAccounts
    /\ balance[Vault(e)] # 0
    =>
      \A k \in TrustedKeys(escrow[e]) \ {NoKey} :
        CancelAccepts(e, escrow[e], balance, [key |-> k, is_signer |-> TRUE],
                      OwnCancelCall(e))

(* An unexpired escrow with oracles accepts from every trusted handler any     *)
(* payout the vault and the totals cover, to any account of its mint: none of  *)
(* the three transfers can be refused halfway (process_setup checked the       *)
(* mints of the fee accounts that process_payout will send to).  This, too, is *)
(* said of token accounts: setup did not ask whose the fee accounts are.       *)
PayoutsServiceable ==
  \A e \in Escrows : escrow[e].state \in Unsettled /\ ~Expired(e) =>
    \A k \in TrustedKeys(escrow[e]), a \in TokenAccounts, n \in 0 .. balance[Vault(e)] :
      /\ PayoutAccounts(e) \cup {a} \subseteq SplAccounts
      /\ MintOf[a] = escrow[e].token_mint /\ WithinTotals(escrow[e], n)
      => PayoutAccepts(e, escrow[e], balance, clock, [key |-> k, is_signer |-> TRUE],
                       OwnPayoutCall(e, a, n))

(* An escrow whose vault only looks like a token account launches, can be set up  *)
(* and can even be settled with payouts of nothing, but records no money it does  *)
(* not have: no token is ever counted as sent and no refund as made, whatever     *)
(* amount the look-alike holds (process_initialize unpacks the vault without      *)
(* asking for its owner; process_payout counts after the transfers, and           *)
(* process_cancel closes after its own).                                         *)
FalseVaultsPayNothing ==
  \A e \in Escrows : Known(e) /\ Vault(e) \notin SplAccounts =>
    /\ escrow[e].sent_amount = 0
    /\ escrow[e].state # "Cancelled"

(* Once a timestamp is past an escrow's expiry, nothing about the escrow can   *)
(* change any more except that it becomes Cancelled (get_escrow_with_state_check *)
(* is called by every other handler; process_cancel reads no clock).           *)
ExpiredOnlyCancel ==
  [][\A e \in Escrows : Known(e) /\ Expired(e) =>
       escrow'[e] \in {escrow[e], [escrow[e] EXCEPT !.state = "Cancelled"]}]_vars

(* Paid is left for Complete only, Complete and Cancelled never: the record is *)
(* frozen, totals, counters and results included, and tokens still in or later *)
(* sent to the vault of a settled escrow stay there.                           *)
SettlementIsFinal ==
  [][\A e \in Escrows :
       /\ escrow[e].state = "Paid" =>
            escrow'[e] \in {escrow[e], [escrow[e] EXCEPT !.state = "Complete"]}
       /\ escrow[e].state \in {"Complete", "Cancelled"} => escrow'[e] = escrow[e]
       /\ escrow[e].state \in Settled => balance'[Vault(e)] >= balance[Vault(e)]]_vars

(* Tokens leave a vault only in a step that accounts for them in that same     *)
(* escrow: a payout whose counter advances by at least the tokens gone and     *)
(* that counts one recipient, or a cancel that leaves the vault empty and the  *)
(* escrow Cancelled.  No other escrow's instruction, no wallet, no half-done   *)
(* payout takes any.                                                           *)
VaultDebitsAccounted ==
  [][\A e \in Escrows : Known(e) /\ balance'[Vault(e)] < balance[Vault(e)] =>
       \/ /\ Advance(escrow[e].sent_amount, escrow'[e].sent_amount)
                >= balance[Vault(e)] - balance'[Vault(e)]
          /\ Advance(escrow[e].sent_recipients, escrow'[e].sent_recipients) = 1
       \/ /\ escrow'[e].state = "Cancelled"
          /\ balance'[Vault(e)] = 0]_vars
=============================================================================
