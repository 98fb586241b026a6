----------------------------- MODULE EscrowHistory -----------------------------
(****************************************************************************)
(* The escrow program with a bookkeeper beside it.  The program keeps only two *)
(* counters per escrow; the bookkeeper writes down, payout by payout, where the *)
(* tokens went and whose signature moved them, so that the counters, the fees   *)
(* and the token ledger can be compared with what really happened.  The history *)
(* variables never constrain the program beyond the bound MaxMoves.             *)
(****************************************************************************)
EXTENDS EscrowProgram, FiniteSetsExt

CONSTANT MaxMoves   \* bound: payouts and cancels of one escrow

ASSUME MaxMovesAssumption == MaxMoves \in Nat

VARIABLES
  hist,     \* per escrow: tokens taken out of its vault, by purpose
  outside   \* per token account: initial amount, wallet transfers and shares
            \* received, that is everything but escrow debits, fees and refunds

hvars == <<vars, hist, outside>>

Histories ==
  [recipients: Nat,   \* tokens sent to recipients
   reputation: Nat,   \* fees sent to the reputation oracle
   recording: Nat,    \* fees sent to the recording oracle
   refunded: Nat,     \* tokens sent back by Cancel
   payouts: Nat,      \* accepted Payout instructions
   cancels: Nat,      \* accepted Cancel instructions
   signers: SUBSET (Keys \cup {NoKey})]  \* who signed its accepted instructions

HTypeOK ==
  /\ TypeOK
  /\ hist \in [Escrows -> Histories]
  /\ outside \in [TokenAccounts -> Int]

NoHistory ==
  [recipients |-> 0, reputation |-> 0, recording |-> 0, refunded |-> 0,
   payouts |-> 0, cancels |-> 0, signers |-> {}]

HInit ==
  /\ Init
  /\ hist = [e \in Escrows |-> NoHistory]
  /\ outside = InitialLedger

-----------------------------------------------------------------------------
\* An instruction accepted without a signature leaves NoKey in the book.
SignerOf(handler) == IF handler.is_signer THEN handler.key ELSE NoKey

\* The entries of one instruction in the book h of escrow esc
SignedBook(h, handler) == [h EXCEPT !.signers = @ \cup {SignerOf(handler)}]

PayoutBook(esc, h, handler, amount) ==
  [h EXCEPT !.recipients = @ + RecipientShare(esc, amount),
            !.reputation = @ + ReputationFee(esc, amount),
            !.recording = @ + RecordingFee(esc, amount),
            !.payouts = @ + 1,
            !.signers = @ \cup {SignerOf(handler)}]

CancelBook(h, handler, n) ==
  [h EXCEPT !.refunded = @ + n,
            !.cancels = @ + 1,
            !.signers = @ \cup {SignerOf(handler)}]

Signed(e, handler) == hist' = [hist EXCEPT ![e] = SignedBook(@, handler)]

HTick == Tick /\ UNCHANGED <<hist, outside>>

HWalletTransfer(t) ==
  /\ WalletTransfer(t)
  /\ outside' = [a \in TokenAccounts |->
                   outside[a] + (IF a = t.to THEN t.amount ELSE 0)
                              - (IF a = t.from THEN t.amount ELSE 0)]
  /\ UNCHANGED hist

HFactoryInitialize(f, v) == FactoryInitialize(f, v) /\ UNCHANGED <<hist, outside>>

\* Initialize is signed by whoever pays for the transaction, no handler.
HInitialize(e, call) == Initialize(e, call) /\ UNCHANGED <<hist, outside>>

HSetup(e, handler, call) ==
  /\ Setup(e, handler, call)
  /\ Signed(e, handler)
  /\ UNCHANGED outside

HStoreResults(e, handler, results) ==
  /\ StoreResults(e, handler, results)
  /\ Signed(e, handler)
  /\ UNCHANGED outside

HStoreFinalAmounts(e, handler, call) ==
  /\ StoreFinalAmounts(e, handler, call)
  /\ Signed(e, handler)
  /\ UNCHANGED outside

HPayout(e, handler, call) ==
  /\ hist[e].payouts + hist[e].cancels < MaxMoves
  /\ Payout(e, handler, call)
  /\ hist' = [hist EXCEPT ![e] = PayoutBook(escrow[e], @, handler, call.amount)]
  /\ outside' = [outside EXCEPT ![call.recipient_token_account] =
                   @ + RecipientShare(escrow[e], call.amount)]

HCancel(e, handler, call) ==
  /\ hist[e].payouts + hist[e].cancels < MaxMoves
  /\ Cancel(e, handler, call)
  /\ hist' = [hist EXCEPT ![e] = CancelBook(@, handler, balance[call.token_account])]
  /\ UNCHANGED outside

HComplete(e, handler) ==
  /\ Complete(e, handler)
  /\ Signed(e, handler)
  /\ UNCHANGED outside

HNext ==
  \/ HTick
  \/ \E t \in WalletTransfers : HWalletTransfer(t)
  \/ \E f \in Factories, v \in FactoryVersions : HFactoryInitialize(f, v)
  \/ \E e \in Escrows, call \in InitializeCalls : HInitialize(e, call)
  \/ \E e \in Escrows, h \in Signers, call \in SetupCalls : HSetup(e, h, call)
  \/ \E e \in Escrows, h \in Signers, r \in Results : HStoreResults(e, h, r)
  \/ \E e \in Escrows, h \in Signers, call \in AmountsCalls : HStoreFinalAmounts(e, h, call)
  \/ \E e \in Escrows, h \in Signers, call \in PayoutCalls : HPayout(e, h, call)
  \/ \E e \in Escrows, h \in Signers, call \in CancelCalls : HCancel(e, h, call)
  \/ \E e \in Escrows, h \in Signers : HComplete(e, h)

HSpec == HInit /\ [][HNext]_hvars

-----------------------------------------------------------------------------
\* Everything the payouts of e took out of its vault
PaidOut(e) == hist[e].recipients + hist[e].reputation + hist[e].recording

(* The escrow's counters agree with what its payouts really moved, to the last *)
(* token and modulo the width of the counter: the three shares of a payout add *)
(* up to the amount counted, whatever the stakes, the rounding, an overflow of *)
(* a fee or a wrap of sent_amount.                                             *)
CountersMatchLedger ==
  \A e \in Escrows :
    /\ escrow[e].sent_amount = PaidOut(e) % U64
    /\ escrow[e].sent_recipients = hist[e].payouts % U64

(* Over the whole life of an escrow neither oracle receives more than its      *)
(* percentage of what was paid out.                                            *)
FeesNeverExceedStakes ==
  \A e \in Escrows :
    /\ 100 * hist[e].reputation <= escrow[e].reputation_oracle_stake * PaidOut(e)
    /\ 100 * hist[e].recording <= escrow[e].recording_oracle_stake * PaidOut(e)

(* state.rs calls a stake the oracle's "fee (in percents)": what an oracle has *)
(* received falls short of its percentage by rounding only, less than one      *)
(* token per payout.                                                           *)
FeesInPercents ==
  \A e \in Escrows :
    /\ escrow[e].reputation_oracle_stake * PaidOut(e)
         <= 100 * hist[e].reputation + 99 * hist[e].payouts
    /\ escrow[e].recording_oracle_stake * PaidOut(e)
         <= 100 * hist[e].recording + 99 * hist[e].payouts

(* An escrow that ever refunded anything is Cancelled for good, and one that   *)
(* is Cancelled did refund: a settled job never gave money back, and no payout *)
(* follows a refund.                                                           *)
SettledXorRefunded ==
  \A e \in Escrows :
    /\ hist[e].cancels > 0 <=> escrow[e].state = "Cancelled"
    /\ hist[e].payouts > 0 => escrow[e].state \notin {"Uninitialized", "Launched", "Pending"}
    /\ hist[e].refunded > 0 => hist[e].cancels > 0

(* Whatever changed an escrow after Initialize was signed, and by a key the    *)
(* escrow account names today: handlers are never replaced, and the oracles gain their *)
(* power with Setup and not before.                                            *)
HandlersOnly ==
  \A e \in Escrows : hist[e].signers \subseteq TrustedKeys(escrow[e]) \ {NoKey}

\* What the instructions of escrow e put into and took out of account a, apart
\* from shares received, which "outside" holds.
Credited(e, a) ==
  (IF a = escrow[e].reputation_oracle_token_account THEN hist[e].reputation ELSE 0)
  + (IF a = escrow[e].recording_oracle_token_account THEN hist[e].recording ELSE 0)
  + (IF a = escrow[e].canceler_token_account THEN hist[e].refunded ELSE 0)

Debited(e, a) == IF a = Vault(e) THEN PaidOut(e) + hist[e].refunded ELSE 0

Settlement ==
  INSTANCE JobSettlement WITH
    Jobs <- Escrows,
    stage <- [e \in Escrows |-> StageOf(escrow[e].state)],
    pot <- [e \in Escrows |-> Pot(e)],
    spent <- [e \in Escrows |-> PaidOut(e)],
    back <- [e \in Escrows |-> hist[e].refunded]

(* The program keeps the promises of JobSettlement: whatever instructions are   *)
(* submitted for whichever accounts, every step is a step of one job, pays only  *)
(* while that job is active, returns its pot only before it is settled, and      *)
(* takes nothing from the pot of another.                                       *)
SettlesJobs == Settlement!Spec

SumOver(v) == MapThenSumSet(LAMBDA e : v[e], DOMAIN v)

(* Double entry: every token account holds exactly what wallets and shares     *)
(* brought in, plus the fees and refunds of all escrows, less what the escrows *)
(* took from it as their vault, also when one account plays several roles.     *)
LedgerReconciles ==
  \A a \in TokenAccounts :
    balance[a] = outside[a] + SumOver([e \in Escrows |-> Credited(e, a) - Debited(e, a)])
=============================================================================
