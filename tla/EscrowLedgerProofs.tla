--------------------------- MODULE EscrowLedgerProofs ---------------------------
(****************************************************************************)
(* What a step of the program may do to the vaults: the action properties of    *)
(* EscrowProgram, from the inductive invariant and the arithmetic of the shares. *)
(****************************************************************************)
EXTENDS EscrowProgramProofs

-----------------------------------------------------------------------------
(* A transfer only ever lowers its source, and by at most n.                    *)
LEMMA TransferEffect ==
  ASSUME NEW ledger \in Ledgers, NEW from \in TokenAccounts, NEW to \in TokenAccounts,
         NEW n \in Amounts, NEW a \in TokenAccounts
  PROVE  /\ a # from => Transferred(ledger, from, to, n)[a] >= ledger[a]
         /\ Transferred(ledger, from, to, n)[from] \in ledger[from] - n .. ledger[from]
  BY I64Assumption DEF Ledgers, Transferred, Amounts, U64

(* Stakes of at most 100 percent together leave the recipient the exact rest:   *)
(* neither saturating_sub of process_payout ever saturates.                     *)
LEMMA SharesAddUp ==
  ASSUME NEW amount \in Amounts, NEW r \in 0 .. 100, NEW s \in 0 .. 100, r + s <= 100
  PROVE  RecipientAmount(amount, r, s) + Fee(amount, r) + Fee(amount, s) = amount
  <1> DEFINE p == Fee(amount, r)
             q == Fee(amount, s)
  <1>1. p \in Nat /\ q \in Nat /\ 100 * p <= r * amount /\ 100 * q <= s * amount
    BY SMTT(20), FeeBounds DEF Amounts
  <1>2. r * amount + s * amount = (r + s) * amount
    BY DEF Amounts
  <1>3. (r + s) * amount <= 100 * amount
    BY DEF Amounts
  <1>4. RecipientAmount(amount, r, s) = SaturatingSub(SaturatingSub(amount, p), q)
    BY DEF RecipientAmount
  <1> HIDE DEF p, q
  <1> DEFINE x == r * amount
             y == s * amount
  <1>5. x \in Nat /\ y \in Nat /\ x + y <= 100 * amount /\ 100 * p <= x /\ 100 * q <= y
    BY <1>1, <1>2, <1>3 DEF Amounts
  <1> HIDE DEF x, y
  <1>6. p + q <= amount
    BY <1>1, <1>5 DEF Amounts
  <1>7. SaturatingSub(SaturatingSub(amount, p), q) = amount - p - q
    BY <1>1, <1>6 DEF SaturatingSub, Amounts
  <1> QED BY <1>1, <1>4, <1>7 DEF Amounts, p, q

(* What a payout does to a ledger: other accounts only gain, the vault loses at   *)
(* most the amount and gains nothing.                                            *)
LEMMA PaymentEffect ==
  ASSUME NEW esc \in EscrowRecords,
         esc.reputation_oracle_stake + esc.recording_oracle_stake <= 100,
         NEW ledger \in Ledgers, NEW call \in PayoutCall,
         PayoutTransfersSucceed(esc, ledger, call), NEW a \in TokenAccounts
  PROVE  LET v == call.token_account
             after == PayoutLedger(esc, ledger, call)
         IN  /\ a # v => after[a] >= ledger[a]
             /\ after[v] \in ledger[v] - call.amount .. ledger[v]
  <1> DEFINE v == call.token_account
             p == call.recipient_token_account
             q == call.reputation_oracle_token_account
             c == call.recording_oracle_token_account
             b1 == AfterRecipient(esc, ledger, call)
             b2 == AfterReputation(esc, ledger, call)
             b3 == PayoutLedger(esc, ledger, call)
             x == RecipientShare(esc, call.amount)
             y == ReputationFee(esc, call.amount)
             z == RecordingFee(esc, call.amount)
  <1>1. /\ call.amount \in Amounts /\ v \in TokenAccounts /\ p \in TokenAccounts
        /\ q \in TokenAccounts /\ c \in TokenAccounts
    BY DEF PayoutCall
  <1>2. esc.reputation_oracle_stake \in Percents /\ esc.recording_oracle_stake \in Percents
    BY DEF EscrowRecords
  <1>3. esc.reputation_oracle_stake \in 0 .. 100 /\ esc.recording_oracle_stake \in 0 .. 100
    <2> DEFINE r == esc.reputation_oracle_stake
               s == esc.recording_oracle_stake
    <2>1. r \in Percents /\ s \in Percents /\ r + s <= 100
      BY <1>2
    <2> HIDE DEF r, s
    <2>2. r \in 0 .. 100 /\ s \in 0 .. 100
      BY <2>1 DEF Percents
    <2> QED BY <2>2 DEF r, s
  <1>4. x + y + z = call.amount
    BY <1>1, <1>3, SharesAddUp DEF RecipientShare, ReputationFee, RecordingFee
  <1>5. x \in Amounts /\ y \in Amounts /\ z \in Amounts
    BY <1>1, <1>2, ShareTypes DEF RecipientShare, ReputationFee, RecordingFee
  <1>6. b1 \in Ledgers /\ b2 \in Ledgers /\ b3 \in Ledgers
    BY PayoutLedgerType
  <1>7. b1 = Transferred(ledger, v, p, x) /\ b2 = Transferred(b1, v, q, y)
        /\ b3 = Transferred(b2, v, c, z)
    BY DEF AfterRecipient, AfterReputation, PayoutLedger
  <1> HIDE DEF x, y, z, b1, b2, b3, v, p, q, c
  <1>8. \A l \in Ledgers, to \in TokenAccounts, n \in Amounts :
          LET new == Transferred(l, v, to, n) IN
          /\ a # v => new[a] >= l[a]
          /\ new[v] \in l[v] - n .. l[v]
    BY <1>1, TransferEffect
  <1>9. /\ a # v => b1[a] >= ledger[a] /\ b2[a] >= b1[a] /\ b3[a] >= b2[a]
        /\ b1[v] \in ledger[v] - x .. ledger[v]
        /\ b2[v] \in b1[v] - y .. b1[v]
        /\ b3[v] \in b2[v] - z .. b2[v]
    BY <1>1, <1>5, <1>6, <1>7, <1>8
  <1>10. /\ ledger[a] \in Int /\ b1[a] \in Int /\ b2[a] \in Int /\ b3[a] \in Int
         /\ ledger[v] \in Int /\ b1[v] \in Int /\ b2[v] \in Int /\ b3[v] \in Int
         /\ x \in Int /\ y \in Int /\ z \in Int
    BY <1>1, <1>5, <1>6 DEF Ledgers, Amounts
  <1>11. /\ a # v => b3[a] >= ledger[a]
         /\ b3[v] \in ledger[v] - call.amount .. ledger[v]
    BY <1>4, <1>9, <1>10
  <1> QED BY <1>11 DEF b3, v, p, q, c

(* The same of a payout the program accepts, where the vault is the escrow's.    *)
LEMMA PayoutEffect ==
  ASSUME TypeOK, NEW e \in Escrows, EscrowInv(e, escrow[e]), NEW h, NEW call \in PayoutCalls,
         PayoutAccepts(e, escrow[e], balance, clock, h, call), NEW a \in TokenAccounts
  PROVE  /\ a # Vault(e) => PayoutLedger(escrow[e], balance, call)[a] >= balance[a]
         /\ PayoutLedger(escrow[e], balance, call)[Vault(e)]
              \in balance[Vault(e)] - call.amount .. balance[Vault(e)]
  <1> DEFINE esc == escrow[e]
             stakes == esc.reputation_oracle_stake + esc.recording_oracle_stake
  <1>1. call \in PayoutCall /\ esc \in EscrowRecords /\ balance \in Ledgers
    BY CallsAssumption DEF TypeOK
  <1>2. /\ esc.state \in Unsettled /\ call.token_account = Vault(e)
        /\ PayoutTransfersSucceed(esc, balance, call)
    BY DEF PayoutAccepts, StateCheck, Unsettled, PayoutAccountsMatch, Vault
  <1>3. stakes <= 100
    <2>1. stakes \in 1 .. 100
      BY <1>2 DEF EscrowInv, OraclesKnown
    <2> HIDE DEF stakes
    <2> QED BY <2>1
  <1> QED BY <1>1, <1>2, <1>3, PaymentEffect

-----------------------------------------------------------------------------
(* After the expiry nothing but Cancel (see ExpiredOnlyCancel).                 *)
THEOREM ExpiredMeansCancelOnly == Spec => ExpiredOnlyCancel
  <1>1. ASSUME TypeOK, [Next]_vars, NEW e \in Escrows, Known(e), Expired(e)
        PROVE  escrow'[e] \in {escrow[e], [escrow[e] EXCEPT !.state = "Cancelled"]}
    <2>1. escrow[e].expires \in Int /\ clock \in Int
      <3>1. escrow[e].expires \in Timestamps
        BY <1>1 DEF TypeOK, EscrowRecords
      <3>2. Timestamps \subseteq Int
        BY I64Assumption DEF Timestamps
      <3>3. clock \in Int
        BY <1>1 DEF TypeOK
      <3> QED BY <3>1, <3>2, <3>3
    <2>2. StepOf(e)
      BY <1>1, EveryStep
    <2> QED
      BY <1>1, <2>1, <2>2
         DEF StepOf, Known, Expired, InitializeAccepts, SetupAccepts, StoreResultsAccepts,
             StoreAmountsAccepts, PayoutAccepts, CompleteAccepts, StateCheck, CancelWrites
  <1>2. TypeOK /\ [Next]_vars =>
          [\A e \in Escrows : Known(e) /\ Expired(e) =>
             escrow'[e] \in {escrow[e], [escrow[e] EXCEPT !.state = "Cancelled"]}]_vars
    BY <1>1
  <1> QED BY <1>2, TypeCorrect, PTL DEF Spec, ExpiredOnlyCancel

-----------------------------------------------------------------------------
(* Transfers of wallets, payouts and refunds of other escrows never lower the    *)
(* vault of an initialised escrow.                                              *)
LEMMA VaultFacts ==
  ASSUME IInv, NEW e \in Escrows, Known(e)
  PROVE  /\ Vault(e) \in TokenAccounts
         /\ OwnerOf[Vault(e)] = Authority[e]
         /\ balance[Vault(e)] \in Amounts
  BY DEF IInv, EscrowInv, OwnsVault, Known, Vault, TypeOK, Ledgers

LEMMA WalletsSpareVaults ==
  ASSUME IInv, NEW e \in Escrows, Known(e), NEW t \in WalletTransfers, WalletTransfer(t)
  PROVE  balance'[Vault(e)] >= balance[Vault(e)]
  <1>1. t.from \in TokenAccounts /\ t.to \in TokenAccounts /\ t.amount \in Amounts
    BY CallsAssumption
  <1>2. Vault(e) # t.from
    BY VaultFacts DEF WalletTransfer
  <1> QED BY <1>1, <1>2, VaultFacts, TransferEffect DEF WalletTransfer, IInv, TypeOK

LEMMA PayoutSparesOthers ==
  ASSUME IInv, NEW e \in Escrows, Known(e), NEW f \in Escrows, f # e,
         NEW h \in Signers, NEW call \in PayoutCalls, Payout(f, h, call)
  PROVE  balance'[Vault(e)] >= balance[Vault(e)]
  <1>1. PayoutAccepts(f, escrow[f], balance, clock, h, call) /\ EscrowInv(f, escrow[f])
    BY DEF Payout, IInv
  <1>2. Known(f)
    BY <1>1 DEF PayoutAccepts, StateCheck, Known
  <1>3. Vault(e) # Vault(f)
    BY <1>2, VaultFacts, AuthorityAssumption
  <1> QED BY <1>1, <1>3, VaultFacts, PayoutEffect DEF Payout, IInv

LEMMA CancelSparesOthers ==
  ASSUME IInv, NEW e \in Escrows, Known(e), NEW f \in Escrows, f # e,
         NEW h \in Signers, NEW call \in CancelCalls, Cancel(f, h, call)
  PROVE  balance'[Vault(e)] >= balance[Vault(e)]
  <1>1. CancelAccepts(f, escrow[f], balance, h, call)
    BY DEF Cancel
  <1>2. call.token_account \in TokenAccounts /\ call.canceler_token_account \in TokenAccounts
    BY CallsAssumption DEF CancelCall
  <1>3. Known(f) /\ call.token_account = Vault(f)
    BY <1>1 DEF CancelAccepts, Known, Vault
  <1>4. Vault(e) # call.token_account
    BY <1>3, VaultFacts, AuthorityAssumption
  <1>5. balance[call.token_account] \in Amounts /\ balance \in Ledgers
    BY <1>3, VaultFacts DEF IInv, TypeOK
  <1> QED BY <1>2, <1>4, <1>5, VaultFacts, TransferEffect DEF Cancel, CancelLedger

(* Who can lower the vault of an initialised escrow: its own payout or cancel.   *)
LEMMA VaultStep ==
  ASSUME IInv, [Next]_vars, NEW e \in Escrows, Known(e)
  PROVE  \/ balance'[Vault(e)] >= balance[Vault(e)]
         \/ \E h \in Signers, call \in PayoutCalls : Payout(e, h, call)
         \/ \E h \in Signers, call \in CancelCalls : Cancel(e, h, call)
  <1> DEFINE Spared == balance'[Vault(e)] >= balance[Vault(e)]
  <1>1. UNCHANGED balance => Spared
    BY I64Assumption, VaultFacts DEF Amounts, U64
  <1>2. \A t \in WalletTransfers : WalletTransfer(t) => Spared
    BY WalletsSpareVaults
  <1>3. \A f \in Escrows, h \in Signers, call \in PayoutCalls :
          f # e /\ Payout(f, h, call) => Spared
    BY PayoutSparesOthers
  <1>4. \A f \in Escrows, h \in Signers, call \in CancelCalls :
          f # e /\ Cancel(f, h, call) => Spared
    BY CancelSparesOthers
  <1> HIDE DEF Spared
  <1>5. Spared \/ (\E h \in Signers, call \in PayoutCalls : Payout(e, h, call))
               \/ (\E h \in Signers, call \in CancelCalls : Cancel(e, h, call))
    BY <1>1, <1>2, <1>3, <1>4
       DEF Next, vars, Tick, FactoryInitialize, Initialize, Setup, StoreResults,
           StoreFinalAmounts, Complete
  <1> QED BY <1>5 DEF Spared

(* A settled record and a settled vault are frozen (see SettlementIsFinal).      *)
THEOREM SettlementStaysFinal == Spec => SettlementIsFinal
  <1> DEFINE Frozen(e) ==
        /\ escrow[e].state = "Paid" =>
             escrow'[e] \in {escrow[e], [escrow[e] EXCEPT !.state = "Complete"]}
        /\ escrow[e].state \in {"Complete", "Cancelled"} => escrow'[e] = escrow[e]
        /\ escrow[e].state \in Settled => balance'[Vault(e)] >= balance[Vault(e)]
  <1>1. ASSUME IInv, [Next]_vars, NEW e \in Escrows
        PROVE  Frozen(e)
    <2>1. StepOf(e)
      BY <1>1, EveryStep DEF IInv
    <2>2. escrow[e].state = "Paid" =>
            escrow'[e] \in {escrow[e], [escrow[e] EXCEPT !.state = "Complete"]}
      BY <2>1
         DEF StepOf, EscrowInitialized, InitializeAccepts, SetupAccepts, StoreResultsAccepts,
             StoreAmountsAccepts, PayoutAccepts, CancelAccepts, StateCheck, CompleteWrites
    <2>3. CancelWrites(escrow[e]) = escrow[e] \/ escrow[e].state # "Cancelled"
      BY <1>1 DEF CancelWrites, IInv, TypeOK, EscrowRecords
    <2>4. escrow[e].state \in {"Complete", "Cancelled"} => escrow'[e] = escrow[e]
      BY <2>1, <2>3
         DEF StepOf, EscrowInitialized, InitializeAccepts, SetupAccepts, StoreResultsAccepts,
             StoreAmountsAccepts, PayoutAccepts, CancelAccepts, StateCheck, CompleteAccepts
    <2>5. ASSUME escrow[e].state \in Settled
          PROVE  balance'[Vault(e)] >= balance[Vault(e)]
      <3>1. Known(e)
        BY <2>5 DEF Settled, Known, EscrowInitialized
      <3>2. ~ \E h \in Signers, call \in PayoutCalls : Payout(e, h, call)
        BY <2>5 DEF Settled, Payout, PayoutAccepts, StateCheck
      <3>3. ~ \E h \in Signers, call \in CancelCalls : Cancel(e, h, call)
        BY <2>5 DEF Settled, Cancel, CancelAccepts
      <3> QED BY <1>1, <3>1, <3>2, <3>3, VaultStep
    <2> QED BY <2>2, <2>4, <2>5
  <1>2. IInv /\ [Next]_vars => [\A e \in Escrows : Frozen(e)]_vars
    BY <1>1
  <1> QED BY <1>2, Inductive, PTL DEF Spec, SettlementIsFinal

(* Every token that leaves a vault is accounted for (see VaultDebitsAccounted).  *)
THEOREM DebitsAreAccounted == Spec => VaultDebitsAccounted
  <1> DEFINE Counted(e) ==
               /\ Advance(escrow[e].sent_amount, escrow'[e].sent_amount)
                    >= balance[Vault(e)] - balance'[Vault(e)]
               /\ Advance(escrow[e].sent_recipients, escrow'[e].sent_recipients) = 1
             Emptied(e) ==
               /\ escrow'[e].state = "Cancelled"
               /\ balance'[Vault(e)] = 0
  <1>1. ASSUME NEW a \in Amounts, NEW n \in Amounts
        PROVE  Advance(a, WrapAdd(a, n)) = n
    BY I64Assumption DEF Advance, WrapAdd, Amounts, U64
  <1>2. ASSUME IInv, [Next]_vars, NEW e \in Escrows, Known(e),
               balance'[Vault(e)] < balance[Vault(e)]
        PROVE  Counted(e) \/ Emptied(e)
    <2>1. /\ escrow[e] \in EscrowRecords
          /\ escrow \in [Escrows -> EscrowRecords]
          /\ balance \in Ledgers
          /\ TypeOK /\ EscrowInv(e, escrow[e])
      BY <1>2 DEF IInv, TypeOK
    <2>2. Vault(e) \in TokenAccounts
      BY <1>2, <2>1 DEF EscrowInv, OwnsVault, Known, Vault
    <2>3. CASE balance'[Vault(e)] >= balance[Vault(e)]
      <3>1. balance'[Vault(e)] \in Int /\ balance[Vault(e)] \in Int
        <4>1. TypeOK'
          BY <1>2, <2>1, TypeStep
        <4> QED BY <2>1, <2>2, <4>1 DEF TypeOK, Ledgers, Amounts
      <3> QED BY <1>2, <2>3, <3>1
    <2>4. ASSUME NEW h \in Signers, NEW call \in PayoutCalls, Payout(e, h, call)
          PROVE  Counted(e)
      <3> DEFINE amount == call.amount
                 sent == escrow[e].sent_amount
                 recipients == escrow[e].sent_recipients
      <3>1. amount \in Amounts /\ sent \in Amounts /\ recipients \in Amounts /\ 1 \in Amounts
        BY <2>1, CallsAssumption, I64Assumption DEF PayoutCall, EscrowRecords, Amounts, U64
      <3>2. escrow'[e].sent_amount = WrapAdd(sent, amount)
        BY <2>1, <2>4 DEF Payout, PayoutWrites, EscrowRecords
      <3>3. escrow'[e].sent_recipients = WrapAdd(recipients, 1)
        BY <2>1, <2>4 DEF Payout, PayoutWrites, EscrowRecords
      <3>4. balance'[Vault(e)] >= balance[Vault(e)] - amount
        BY <2>1, <2>2, <2>4, PayoutEffect DEF Payout
      <3>5. balance'[Vault(e)] \in Int /\ balance[Vault(e)] \in Int
        <4>1. TypeOK'
          BY <1>2, <2>1, TypeStep
        <4> QED BY <2>1, <2>2, <4>1 DEF TypeOK, Ledgers, Amounts
      <3>6. /\ Advance(sent, escrow'[e].sent_amount) = amount
            /\ Advance(recipients, escrow'[e].sent_recipients) = 1
        BY <1>1, <3>1, <3>2, <3>3
      <3> QED BY <3>1, <3>4, <3>5, <3>6 DEF Amounts
    <2>5. ASSUME NEW h \in Signers, NEW call \in CancelCalls, Cancel(e, h, call)
          PROVE  Emptied(e)
      <3>1. escrow'[e].state = "Cancelled"
        BY <2>1, <2>5 DEF Cancel, CancelWrites, EscrowRecords
      <3>2. /\ call.token_account = Vault(e)
            /\ call.canceler_token_account \in TokenAccounts
            /\ balance' = Transferred(balance, Vault(e), call.canceler_token_account, balance[Vault(e)])
        BY <2>5, CallsAssumption DEF Cancel, CancelAccepts, CancelLedger, Vault, CancelCall
      <3>3. balance[Vault(e)] \in Int
        BY <2>1, <2>2 DEF Ledgers, Amounts
      <3>4. call.canceler_token_account # Vault(e)
        BY <1>2, <3>2, <3>3 DEF Transferred
      <3>5. balance'[Vault(e)] = balance[Vault(e)] - balance[Vault(e)]
        BY <2>1, <2>2, <3>2, <3>4 DEF Transferred, Ledgers
      <3> QED BY <3>1, <3>3, <3>5
    <2> HIDE DEF Counted, Emptied
    <2> QED BY <1>2, <2>3, <2>4, <2>5, VaultStep
  <1>3. IInv /\ [Next]_vars =>
          [\A e \in Escrows : Known(e) /\ balance'[Vault(e)] < balance[Vault(e)] =>
             \/ Counted(e)
             \/ Emptied(e)]_vars
    BY <1>2
  <1> QED BY <1>3, Inductive, PTL DEF Spec, VaultDebitsAccounted
=============================================================================
