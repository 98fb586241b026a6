--------------------------- MODULE EscrowServiceProofs ---------------------------
(****************************************************************************)
(* The program never locks money in: whenever the checks of process_cancel or   *)
(* process_payout leave it to the token program, the token program accepts.      *)
(* The one refusal the escrow program could not foresee is an overflow of the    *)
(* receiving account, and that is excluded by the supply of the mint being a     *)
(* u64.  A sum over all accounts would need an induction; instead the tokens of  *)
(* a mint are laid out one by one, and an account holds as many as lie in it.    *)
(* What only looks like a token account holds no tokens, whatever it says.       *)
(****************************************************************************)
EXTENDS EscrowLedgerProofs, FiniteSetTheorems

Tokens == 1 .. U64 - 1

\* Where each token of one mint is; not every token need exist.
Placements == [Tokens -> TokenAccounts \cup {NoAccount}]

Held(at, a) == {t \in Tokens : at[t] = a}

Places(at, ledger, m) ==
  \A a \in SplAccounts : MintOf[a] = m => ledger[a] = Cardinality(Held(at, a))

\* No more than u64::MAX tokens of any mint are in the token accounts.
SupplyFits(ledger) == \A m \in Mints : \E at \in Placements : Places(at, ledger, m)

-----------------------------------------------------------------------------
(* What lies in an account can be counted.                                      *)
LEMMA HeldIsFinite ==
  ASSUME NEW at, NEW a
  PROVE  IsFiniteSet(Held(at, a)) /\ Cardinality(Held(at, a)) \in Nat
  <1>1. IsFiniteSet(Tokens)
    BY FS_Interval, I64Assumption DEF Tokens, U64
  <1>2. Held(at, a) \in SUBSET Tokens
    BY DEF Held
  <1>3. IsFiniteSet(Held(at, a))
    BY <1>1, <1>2, FS_Subset
  <1> QED BY <1>3, FS_CardinalityType

(* A finite set has subsets of every smaller size: number its elements and take *)
(* the first n.                                                                 *)
LEMMA SubsetOfSize ==
  ASSUME NEW S, IsFiniteSet(S), NEW n \in Nat, n <= Cardinality(S)
  PROVE  \E X \in SUBSET S : IsFiniteSet(X) /\ Cardinality(X) = n
  <1>1. Cardinality(S) \in Nat /\ ExistsBijection(1 .. Cardinality(S), S)
    BY FS_CardinalityType
  <1>2. PICK f : f \in Bijection(1 .. Cardinality(S), S)
    BY <1>1 DEF ExistsBijection
  <1>3. /\ f \in [1 .. Cardinality(S) -> S]
        /\ \A i, j \in 1 .. Cardinality(S) : f[i] = f[j] => i = j
    BY <1>2 DEF Bijection, Injection, Surjection, IsInjective
  <1> DEFINE X == {f[i] : i \in 1 .. n}
             g == [i \in 1 .. n |-> f[i]]
  <1>4. 1 .. n \subseteq 1 .. Cardinality(S)
    BY <1>1
  <1>5. X \in SUBSET S
    BY <1>3, <1>4
  <1>6. g \in [1 .. n -> X]
    OBVIOUS
  <1>7. \A i, j \in 1 .. n : g[i] = g[j] => i = j
    BY <1>3, <1>4
  <1>8. \A x \in X : \E i \in 1 .. n : g[i] = x
    OBVIOUS
  <1> HIDE DEF X, g
  <1>9. g \in Bijection(1 .. n, X)
    BY <1>6, <1>7, <1>8 DEF Bijection, Injection, Surjection, IsInjective
  <1>10. ExistsBijection(1 .. n, X)
    BY <1>9 DEF ExistsBijection
  <1>11. Cardinality(X) = n
    BY <1>10, FS_CountingElements
  <1>12. IsFiniteSet(X)
    BY <1>5, FS_Subset
  <1> QED BY <1>5, <1>11, <1>12

(* Two accounts of one mint hold different tokens, so together they fit a u64.   *)
LEMMA PairFits ==
  ASSUME NEW ledger \in Ledgers, SupplyFits(ledger),
         NEW a \in SplAccounts, NEW b \in SplAccounts, a # b, MintOf[a] = MintOf[b]
  PROVE  ledger[a] + ledger[b] < U64
  <1>1. PICK at \in Placements : Places(at, ledger, MintOf[a])
    BY LedgerAssumption DEF SupplyFits
  <1> DEFINE A == Held(at, a)
             B == Held(at, b)
  <1>2. ledger[a] = Cardinality(A) /\ ledger[b] = Cardinality(B)
    BY <1>1 DEF Places
  <1>3. A \cap B = {} /\ A \cup B \in SUBSET Tokens
    BY DEF Held
  <1>4. IsFiniteSet(A) /\ IsFiniteSet(B) /\ Cardinality(A) \in Nat /\ Cardinality(B) \in Nat
    BY HeldIsFinite
  <1> HIDE DEF A, B
  <1>5. Cardinality(A \cup B) = Cardinality(A) + Cardinality(B)
    <2>1. Cardinality(A \cup B) = Cardinality(A) + Cardinality(B) - Cardinality(A \cap B)
      BY <1>4, FS_Union
    <2>2. Cardinality(A \cap B) = 0
      BY <1>3, FS_EmptySet
    <2> QED BY <1>4, <2>1, <2>2
  <1>6. IsFiniteSet(Tokens) /\ Cardinality(Tokens) = U64 - 1
    BY FS_Interval, I64Assumption DEF Tokens, U64
  <1>7. Cardinality(A \cup B) <= U64 - 1
    BY <1>3, <1>6, FS_Subset
  <1> QED BY <1>2, <1>4, <1>5, <1>7, I64Assumption DEF U64

(* A transfer takes n tokens from where they lie and puts them where they go.    *)
LEMMA TransferKeepsSupply ==
  ASSUME NEW ledger \in Ledgers, SupplyFits(ledger),
         NEW from \in SplAccounts, NEW to \in SplAccounts, NEW n \in Amounts,
         MintOf[from] = MintOf[to], n <= ledger[from]
  PROVE  SupplyFits(Transferred(ledger, from, to, n))
  <1> DEFINE new == Transferred(ledger, from, to, n)
  <1>1. CASE from = to
    BY <1>1 DEF Transferred
  <1>2. CASE from # to
    <2>0. SplAccounts \subseteq TokenAccounts
      BY LedgerAssumption
    <2>1. /\ new[from] = ledger[from] - n
          /\ new[to] = ledger[to] + n
          /\ \A a \in SplAccounts \ {from, to} : new[a] = ledger[a]
      BY <1>2, <2>0 DEF Transferred, Ledgers
    <2> HIDE DEF new
    <2>2. ASSUME NEW m \in Mints, MintOf[from] # m
          PROVE  \E at \in Placements : Places(at, new, m)
      BY <2>1, <2>2 DEF SupplyFits, Places
    <2>3. ASSUME NEW m \in Mints, MintOf[from] = m
          PROVE  \E at \in Placements : Places(at, new, m)
      <3>1. PICK at \in Placements : Places(at, ledger, m)
        BY DEF SupplyFits
      <3>2. /\ IsFiniteSet(Held(at, from)) /\ Cardinality(Held(at, from)) = ledger[from]
            /\ IsFiniteSet(Held(at, to)) /\ Cardinality(Held(at, to)) = ledger[to]
        BY <2>3, <3>1, HeldIsFinite DEF Places
      <3>3. n \in Nat
        BY DEF Amounts
      <3>4. PICK X \in SUBSET Held(at, from) : IsFiniteSet(X) /\ Cardinality(X) = n
        BY <3>2, <3>3, SubsetOfSize
      <3> DEFINE now == [t \in Tokens |-> IF t \in X THEN to ELSE at[t]]
      <3>5. now \in Placements
        BY <2>0, <3>1 DEF Placements
      <3>6. /\ Held(now, from) = Held(at, from) \ X
            /\ Held(now, to) = Held(at, to) \cup X
            /\ \A a \in SplAccounts \ {from, to} : Held(now, a) = Held(at, a)
        BY <1>2, <3>4 DEF Held
      <3>7. Held(at, to) \cap X = {} /\ Held(at, from) \cap X = X
        BY <1>2, <3>4 DEF Held
      <3> HIDE DEF now
      <3>8. Cardinality(Held(now, from)) = ledger[from] - n
        BY <3>2, <3>4, <3>6, <3>7, FS_Difference
      <3>9. Cardinality(Held(now, to)) = ledger[to] + n
        <4> DEFINE H == Held(at, to)
        <4>1. Cardinality(H \cup X) = Cardinality(H) + Cardinality(X) - Cardinality(H \cap X)
          BY <3>2, <3>4, FS_Union
        <4>2. Cardinality(H \cap X) = 0
          BY <3>7, FS_EmptySet
        <4>3. Cardinality(H) = ledger[to] /\ ledger[to] \in Nat
          BY <2>0, <3>2 DEF Ledgers, Amounts
        <4> HIDE DEF H
        <4>4. Cardinality(H \cup X) = ledger[to] + n
          BY <3>3, <3>4, <4>1, <4>2, <4>3
        <4> QED BY <3>6, <4>4 DEF H
      <3>10. Places(now, new, m)
        BY <2>1, <3>1, <3>6, <3>8, <3>9 DEF Places
      <3> QED BY <3>5, <3>10
    <2>4. \A m \in Mints : \E at \in Placements : Places(at, new, m)
      BY <2>2, <2>3
    <2> QED BY <2>4 DEF SupplyFits, new
  <1> QED BY <1>1, <1>2

-----------------------------------------------------------------------------
(* What the escrow account was checked for when it was initialised: the vault    *)
(* and the account refunds go to hold its mint.                                  *)
RefundChecked(esc) ==
  EscrowInitialized(esc) =>
    /\ MintOf[esc.token_account] = esc.token_mint
    /\ esc.canceler_token_account \in TokenAccounts
    /\ MintOf[esc.canceler_token_account] = esc.token_mint

SInv ==
  /\ IInv
  /\ SupplyFits(balance)
  /\ \A e \in Escrows : RefundChecked(escrow[e])

(* No instruction but Initialize touches these fields.                           *)
LEMMA StepKeepsRefundChecked ==
  ASSUME TypeOK, NEW e \in Escrows, RefundChecked(escrow[e]), StepOf(e)
  PROVE  RefundChecked(escrow'[e])
  <1> USE CallsAssumption
  <1>0. escrow[e] \in EscrowRecords
    BY DEF TypeOK
  <1>1. CASE escrow'[e] = escrow[e]
    BY <1>1
  <1>2. ASSUME NEW call \in InitializeCalls,
               InitializeAccepts(e, escrow[e], version[call.factory], call),
               escrow'[e] = InitializeWrites(clock, call)
        PROVE  RefundChecked(escrow'[e])
    <2>1. /\ escrow'[e].token_account = call.token_account
          /\ escrow'[e].canceler_token_account = call.canceler_token_account
          /\ escrow'[e].token_mint = call.token_mint
      BY <1>2 DEF InitializeWrites, BlankEscrow
    <2>2. call.canceler_token_account \in TokenAccounts
      BY DEF InitializeCall
    <2> QED BY <1>2, <2>1, <2>2 DEF RefundChecked, InitializeAccepts
  <1>3. CASE /\ EscrowInitialized(escrow[e])
             /\ escrow'[e].token_account = escrow[e].token_account
             /\ escrow'[e].canceler_token_account = escrow[e].canceler_token_account
             /\ escrow'[e].token_mint = escrow[e].token_mint
    BY <1>3 DEF RefundChecked
  <1>4. ASSUME NEW h \in Signers, NEW call \in SetupCalls,
               SetupAccepts(escrow[e], clock, h, call),
               escrow'[e] = SetupWrites(escrow[e], call)
        PROVE  RefundChecked(escrow'[e])
    BY <1>0, <1>3, <1>4 DEF SetupAccepts, StateCheck, SetupWrites, EscrowRecords
  <1>5. ASSUME NEW h \in Signers, NEW r \in Results,
               StoreResultsAccepts(escrow[e], clock, h),
               escrow'[e] = StoreResultsWrites(escrow[e], r)
        PROVE  RefundChecked(escrow'[e])
    BY <1>0, <1>3, <1>5 DEF StoreResultsAccepts, StateCheck, StoreResultsWrites, EscrowRecords
  <1>6. ASSUME NEW h \in Signers, NEW call \in AmountsCalls,
               StoreAmountsAccepts(escrow[e], clock, h),
               escrow'[e] = StoreAmountsWrites(escrow[e], call)
        PROVE  RefundChecked(escrow'[e])
    BY <1>0, <1>3, <1>6 DEF StoreAmountsAccepts, StateCheck, StoreAmountsWrites, EscrowRecords
  <1>7. ASSUME NEW h \in Signers, NEW call \in PayoutCalls,
               PayoutAccepts(e, escrow[e], balance, clock, h, call),
               escrow'[e] = PayoutWrites(escrow[e], call.amount)
        PROVE  RefundChecked(escrow'[e])
    BY <1>0, <1>3, <1>7 DEF PayoutAccepts, StateCheck, PayoutWrites, EscrowRecords
  <1>8. ASSUME NEW h \in Signers, NEW call \in CancelCalls,
               CancelAccepts(e, escrow[e], balance, h, call),
               escrow'[e] = CancelWrites(escrow[e])
        PROVE  RefundChecked(escrow'[e])
    BY <1>0, <1>3, <1>8 DEF CancelAccepts, CancelWrites, EscrowRecords
  <1>9. ASSUME NEW h \in Signers, CompleteAccepts(escrow[e], clock, h),
               escrow'[e] = CompleteWrites(escrow[e])
        PROVE  RefundChecked(escrow'[e])
    BY <1>0, <1>3, <1>9 DEF CompleteAccepts, StateCheck, CompleteWrites, EscrowRecords
  <1> QED BY <1>1, <1>2, <1>4, <1>5, <1>6, <1>7, <1>8, <1>9 DEF StepOf

(* An invoked transfer keeps the ledger a ledger and the supply a u64.            *)
LEMMA InvokedKeepsSupply ==
  ASSUME NEW ledger \in Ledgers, SupplyFits(ledger),
         NEW from \in TokenAccounts, NEW to \in TokenAccounts, NEW n \in Amounts,
         NEW authority, Invokable(ledger, from, to, authority, n)
  PROVE  /\ Transferred(ledger, from, to, n) \in Ledgers
         /\ SupplyFits(Transferred(ledger, from, to, n))
  <1>1. Transferred(ledger, from, to, n) \in Ledgers
    BY TransferredType
  <1>2. CASE n = 0
    <2>1. \A a \in TokenAccounts : ledger[a] \in Int
      BY DEF Ledgers, Amounts
    <2>2. Transferred(ledger, from, to, n) = ledger
      BY <1>2, <2>1 DEF Transferred, Ledgers
    <2> QED BY <1>1, <2>2
  <1>3. CASE CanTransfer(ledger, from, to, authority, n)
    <2>1. /\ MintOf[from] = MintOf[to] /\ n <= ledger[from]
          /\ from \in SplAccounts /\ to \in SplAccounts
      BY <1>3 DEF CanTransfer, Ledgers, Amounts
    <2>2. SupplyFits(Transferred(ledger, from, to, n))
      BY <2>1, TransferKeepsSupply
    <2> QED BY <1>1, <2>2
  <1> QED BY <1>1, <1>2, <1>3 DEF Invokable

(* So does every step of the program.                                            *)
LEMMA SupplyStep ==
  ASSUME TypeOK, SupplyFits(balance), [Next]_vars
  PROVE  SupplyFits(balance')
  <1> USE CallsAssumption
  <1>0. balance \in Ledgers /\ escrow \in [Escrows -> EscrowRecords]
    BY DEF TypeOK
  <1>1. CASE UNCHANGED balance
    BY <1>1
  <1>2. ASSUME NEW t \in WalletTransfers, WalletTransfer(t)
        PROVE  SupplyFits(balance')
    <2>1. t.from \in TokenAccounts /\ t.to \in TokenAccounts /\ t.amount \in Amounts
      OBVIOUS
    <2> QED BY <1>0, <1>2, <2>1, InvokedKeepsSupply DEF WalletTransfer, Invokable
  <1>3. ASSUME NEW e \in Escrows, NEW h \in Signers, NEW call \in PayoutCalls, Payout(e, h, call)
        PROVE  SupplyFits(balance')
    <2> DEFINE esc == escrow[e]
    <2>1. /\ call.token_account \in TokenAccounts
          /\ call.recipient_token_account \in TokenAccounts
          /\ call.reputation_oracle_token_account \in TokenAccounts
          /\ call.recording_oracle_token_account \in TokenAccounts
          /\ call.amount \in Amounts
      BY DEF PayoutCall
    <2>2. esc.reputation_oracle_stake \in Percents /\ esc.recording_oracle_stake \in Percents
      BY <1>0 DEF EscrowRecords
    <2>3. /\ RecipientShare(esc, call.amount) \in Amounts
          /\ ReputationFee(esc, call.amount) \in Amounts
          /\ RecordingFee(esc, call.amount) \in Amounts
      BY <2>1, <2>2, ShareTypes DEF RecipientShare, ReputationFee, RecordingFee
    <2>4. PayoutTransfersSucceed(esc, balance, call) /\ balance' = PayoutLedger(esc, balance, call)
      BY <1>3 DEF Payout, PayoutAccepts
    <2> HIDE DEF esc
    <2>5. /\ AfterRecipient(esc, balance, call) \in Ledgers
          /\ SupplyFits(AfterRecipient(esc, balance, call))
      BY <1>0, <2>1, <2>3, <2>4, InvokedKeepsSupply DEF AfterRecipient, PayoutTransfersSucceed
    <2>6. /\ AfterReputation(esc, balance, call) \in Ledgers
          /\ SupplyFits(AfterReputation(esc, balance, call))
      BY <2>1, <2>3, <2>4, <2>5, InvokedKeepsSupply DEF AfterReputation, PayoutTransfersSucceed
    <2>7. SupplyFits(PayoutLedger(esc, balance, call))
      BY <2>1, <2>3, <2>4, <2>6, InvokedKeepsSupply DEF PayoutLedger, PayoutTransfersSucceed
    <2> QED BY <2>4, <2>7
  <1>4. ASSUME NEW e \in Escrows, NEW h \in Signers, NEW call \in CancelCalls, Cancel(e, h, call)
        PROVE  SupplyFits(balance')
    <2>1. call.token_account \in TokenAccounts /\ call.canceler_token_account \in TokenAccounts
      BY DEF CancelCall
    <2>2. balance[call.token_account] \in Amounts
      BY <1>0, <2>1 DEF Ledgers
    <2> QED
      BY <1>0, <1>4, <2>1, <2>2, InvokedKeepsSupply DEF Cancel, CancelAccepts, CancelLedger, Invokable
  <1>5. ASSUME NEW e \in Escrows, NEW h \in Signers,
               \/ \E call \in SetupCalls : Setup(e, h, call)
               \/ \E r \in Results : StoreResults(e, h, r)
               \/ \E call \in AmountsCalls : StoreFinalAmounts(e, h, call)
               \/ Complete(e, h)
        PROVE  UNCHANGED balance
    BY <1>5 DEF Setup, StoreResults, StoreFinalAmounts, Complete
  <1>6. CASE \/ Tick
             \/ \E f \in Factories, v \in FactoryVersions : FactoryInitialize(f, v)
             \/ \E e \in Escrows, call \in InitializeCalls : Initialize(e, call)
             \/ UNCHANGED vars
    BY <1>1, <1>6 DEF Tick, FactoryInitialize, Initialize, vars
  <1> QED BY <1>1, <1>2, <1>3, <1>4, <1>5, <1>6 DEF Next

THEOREM ServiceInductive ==
  ASSUME SupplyFits(InitialLedger)
  PROVE  Spec => []SInv
  <1> DEFINE Checked == \A e \in Escrows : RefundChecked(escrow[e])
             Fits == SupplyFits(balance)
  <1>1. Init => Fits /\ Checked
    BY DEF Init, RefundChecked, EscrowInitialized, BlankEscrow
  <1>2. IInv /\ Fits /\ [Next]_vars => Fits'
    BY SupplyStep DEF IInv
  <1>3. IInv /\ Checked /\ [Next]_vars => Checked'
    BY EveryStep, StepKeepsRefundChecked DEF IInv
  <1>4. IInv /\ Fits /\ Checked => SInv
    BY DEF SInv
  <1> HIDE DEF Checked, Fits
  <1> QED BY <1>1, <1>2, <1>3, <1>4, Inductive, PTL DEF Spec

-----------------------------------------------------------------------------
(* A transfer of what an account holds, to another of its mint, is accepted.     *)
LEMMA TransferIsServed ==
  ASSUME NEW ledger \in Ledgers, SupplyFits(ledger),
         NEW from \in SplAccounts, NEW to \in SplAccounts, NEW n \in Amounts,
         MintOf[from] = MintOf[to], n <= ledger[from]
  PROVE  CanTransfer(ledger, from, to, OwnerOf[from], n)
  <1>1. from # to => ledger[from] + ledger[to] < U64
    BY PairFits
  <1>2. ledger[from] \in Nat /\ ledger[to] \in Nat /\ n \in Nat /\ U64 \in Nat
    BY LedgerAssumption, I64Assumption DEF Ledgers, Amounts, U64
  <1> QED BY <1>1, <1>2 DEF CanTransfer

(* Money never gets stuck before settlement (see FundsRecoverable): if the supply *)
(* of each mint is a u64 to begin with, every refund the handlers ask for works   *)
(* between token accounts.                                                      *)
THEOREM RefundsAlwaysWork ==
  ASSUME SupplyFits(InitialLedger)
  PROVE  Spec => []FundsRecoverable
  <1>1. ASSUME SInv, NEW e \in Escrows, Known(e), escrow[e].state \notin Settled,
               {Vault(e), escrow[e].canceler_token_account} \subseteq SplAccounts,
               balance[Vault(e)] # 0, NEW k \in TrustedKeys(escrow[e]) \ {NoKey}
        PROVE  CancelAccepts(e, escrow[e], balance, [key |-> k, is_signer |-> TRUE],
                             OwnCancelCall(e))
    <2> DEFINE to == escrow[e].canceler_token_account
    <2>1. /\ Vault(e) \in TokenAccounts /\ OwnerOf[Vault(e)] = Authority[e]
          /\ Vault(e) \in SplAccounts /\ to \in SplAccounts /\ MintOf[Vault(e)] = MintOf[to]
      BY <1>1 DEF SInv, IInv, EscrowInv, OwnsVault, RefundChecked, Known, Vault
    <2>2. balance \in Ledgers /\ balance[Vault(e)] \in Amounts
      BY <1>1, <2>1 DEF SInv, IInv, TypeOK, Ledgers
    <2> HIDE DEF to
    <2>3. CanTransfer(balance, Vault(e), to, Authority[e], balance[Vault(e)])
      BY <1>1, <2>1, <2>2, TransferIsServed DEF SInv, Amounts
    <2> QED
      BY <1>1, <2>3 DEF CancelAccepts, OwnCancelCall, Known, Settled, TrustedHandler, Vault, to
  <1>2. SInv => FundsRecoverable
    BY <1>1 DEF FundsRecoverable
  <1> QED BY <1>2, ServiceInductive, PTL

(* The same for payouts (see PayoutsServiceable): none of the three transfers is   *)
(* ever refused after the checks of process_payout, so no payout fails halfway.   *)
THEOREM PayoutsAlwaysWork ==
  ASSUME SupplyFits(InitialLedger)
  PROVE  Spec => []PayoutsServiceable
  <1>1. ASSUME SInv, NEW e \in Escrows, escrow[e].state \in Unsettled, ~Expired(e),
               NEW k \in TrustedKeys(escrow[e]), NEW a \in TokenAccounts,
               NEW n \in 0 .. balance[Vault(e)],
               PayoutAccounts(e) \cup {a} \subseteq SplAccounts,
               MintOf[a] = escrow[e].token_mint, WithinTotals(escrow[e], n)
        PROVE  PayoutAccepts(e, escrow[e], balance, clock, [key |-> k, is_signer |-> TRUE],
                             OwnPayoutCall(e, a, n))
    <2> DEFINE esc == escrow[e]
               call == OwnPayoutCall(e, a, n)
               v == Vault(e)
               p == esc.reputation_oracle_token_account
               q == esc.recording_oracle_token_account
               x == RecipientShare(esc, n)
               y == ReputationFee(esc, n)
               z == RecordingFee(esc, n)
               b1 == Transferred(balance, v, a, x)
               b2 == Transferred(b1, v, p, y)
    <2>1. EscrowInitialized(esc) /\ esc \in EscrowRecords /\ balance \in Ledgers
      BY <1>1 DEF SInv, IInv, TypeOK, EscrowInitialized, Unsettled
    <2>2. /\ v \in TokenAccounts /\ OwnerOf[v] = Authority[e] /\ MintOf[v] = esc.token_mint
      BY <1>1, <2>1 DEF SInv, IInv, EscrowInv, OwnsVault, RefundChecked, Vault
    <2>3. OraclesKnown(esc)
      BY <1>1 DEF SInv, IInv, EscrowInv
    <2>4. /\ p \in TokenAccounts /\ q \in TokenAccounts
          /\ MintOf[p] = esc.token_mint /\ MintOf[q] = esc.token_mint
      BY <1>1, <2>3 DEF OraclesKnown
    <2>0. v \in SplAccounts /\ a \in SplAccounts /\ p \in SplAccounts /\ q \in SplAccounts
      BY <1>1 DEF PayoutAccounts
    <2>5. balance[v] \in Amounts /\ n \in Amounts /\ n <= balance[v]
      BY <2>1, <2>2, <1>1, I64Assumption DEF Ledgers, Amounts, U64
    <2>6. x \in Amounts /\ y \in Amounts /\ z \in Amounts /\ x + y + z = n
      <3> DEFINE r == esc.reputation_oracle_stake
                 s == esc.recording_oracle_stake
      <3>1. r \in Percents /\ s \in Percents /\ r + s \in 1 .. 100
        BY <1>1, <2>1, <2>3 DEF OraclesKnown, EscrowRecords
      <3> HIDE DEF r, s
      <3>2. r \in 0 .. 100 /\ s \in 0 .. 100 /\ r + s <= 100
        BY <3>1 DEF Percents
      <3>3. x \in Amounts /\ y \in Amounts /\ z \in Amounts
        BY <2>5, <3>1, ShareTypes DEF RecipientShare, ReputationFee, RecordingFee, r, s
      <3>4. x + y + z = n
        BY <2>5, <3>2, SharesAddUp DEF RecipientShare, ReputationFee, RecordingFee, r, s
      <3> QED BY <3>3, <3>4
    <2>7. SupplyFits(balance)
      BY <1>1 DEF SInv
    <2>8. PayoutTransfersSucceed(esc, balance, call)
      <3> HIDE DEF v, p, q, x, y, z, esc
      <3>1. x <= balance[v] /\ balance[v] \in Nat /\ x \in Nat /\ y \in Nat /\ z \in Nat
        BY <2>5, <2>6 DEF Amounts
      <3>2. CanTransfer(balance, v, a, Authority[e], x)
        BY <1>1, <2>0, <2>1, <2>2, <2>6, <2>7, <3>1, TransferIsServed DEF esc
      <3>3. b1 \in Ledgers /\ SupplyFits(b1)
        BY <2>1, <2>2, <2>6, <2>7, <3>2, InvokedKeepsSupply DEF Invokable
      <3>4. b1[v] \in balance[v] - x .. balance[v]
        BY <2>1, <2>2, <2>6, TransferEffect
      <3> HIDE DEF b1
      <3>5. y <= b1[v]
        BY <2>5, <2>6, <3>1, <3>4
      <3>6. CanTransfer(b1, v, p, Authority[e], y)
        BY <2>0, <2>2, <2>4, <2>6, <3>3, <3>5, TransferIsServed
      <3>7. b2 \in Ledgers /\ SupplyFits(b2)
        BY <2>2, <2>4, <2>6, <3>3, <3>6, InvokedKeepsSupply DEF Invokable
      <3>8. b2[v] \in b1[v] - y .. b1[v]
        BY <2>2, <2>4, <2>6, <3>3, TransferEffect
      <3> HIDE DEF b2
      <3>9. z <= b2[v]
        BY <2>5, <2>6, <3>1, <3>4, <3>8
      <3>10. CanTransfer(b2, v, q, Authority[e], z)
        BY <2>0, <2>2, <2>4, <2>6, <3>7, <3>9, TransferIsServed
      <3>11. /\ call.token_account = v /\ call.authority = Authority[e]
             /\ call.recipient_token_account = a /\ call.amount = n
             /\ call.reputation_oracle_token_account = p
             /\ call.recording_oracle_token_account = q
        BY DEF OwnPayoutCall, v, p, q, esc
      <3> HIDE DEF call
      <3>12. AfterRecipient(esc, balance, call) = b1
        BY <3>11 DEF AfterRecipient, b1, x
      <3>13. AfterReputation(esc, balance, call) = b2
        BY <3>11, <3>12 DEF AfterReputation, b2, y
      <3> QED
        BY <3>2, <3>6, <3>10, <3>11, <3>12, <3>13 DEF PayoutTransfersSucceed, Invokable, x, y, z
    <2>9. esc.expires >= clock
      <3>1. esc.expires \in Int /\ clock \in Int
        BY <1>1, <2>1, I64Assumption DEF SInv, IInv, TypeOK, EscrowRecords, Timestamps
      <3> QED BY <1>1, <3>1 DEF Expired
    <2>10. StateCheck(esc, clock, [key |-> k, is_signer |-> TRUE], {"Pending", "Partial"})
      BY <1>1, <2>1, <2>9 DEF StateCheck, TrustedHandler, Unsettled
    <2>11. PayoutAccountsMatch(e, esc, call)
      BY DEF PayoutAccountsMatch, OwnPayoutCall, Vault
    <2>12. balance[call.token_account] >= call.amount /\ call.amount = n
      BY <2>5 DEF OwnPayoutCall, Amounts
    <2> QED BY <1>1, <2>8, <2>10, <2>11, <2>12 DEF PayoutAccepts
  <1>2. SInv => PayoutsServiceable
    BY <1>1 DEF PayoutsServiceable
  <1> QED BY <1>2, ServiceInductive, PTL

-----------------------------------------------------------------------------
(* Shares that are all nothing are shares of nothing: out of a vault that only    *)
(* looks like one, no other payout is accepted.                                 *)
LEMMA FalseVaultServesNothing ==
  ASSUME NEW e \in Escrows, NEW esc \in EscrowRecords, EscrowInv(e, esc),
         esc.token_account \notin SplAccounts, NEW now, NEW h, NEW call \in PayoutCall,
         PayoutAccepts(e, esc, balance, now, h, call)
  PROVE  call.amount = 0
  <1> DEFINE r == esc.reputation_oracle_stake
             s == esc.recording_oracle_stake
             x == RecipientAmount(call.amount, r, s)
             y == Fee(call.amount, r)
             z == Fee(call.amount, s)
  <1>1. esc.state \in Unsettled /\ call.token_account = esc.token_account
    BY DEF PayoutAccepts, StateCheck, PayoutAccountsMatch, Unsettled
  <1>2. r \in 0 .. 100 /\ s \in 0 .. 100 /\ r + s <= 100 /\ call.amount \in Amounts
    <2>1. r \in Percents /\ s \in Percents /\ call.amount \in Amounts
      BY DEF EscrowRecords, PayoutCall
    <2>2. r + s \in 1 .. 100
      BY <1>1 DEF EscrowInv, OraclesKnown
    <2> HIDE DEF r, s
    <2> QED BY <2>1, <2>2 DEF Percents
  <1>3. \A ledger, to, k, n : ~CanTransfer(ledger, call.token_account, to, k, n)
    BY <1>1 DEF CanTransfer
  <1>4. x = 0 /\ y = 0 /\ z = 0
    BY <1>3 DEF PayoutAccepts, PayoutTransfersSucceed, Invokable, RecipientShare,
                ReputationFee, RecordingFee
  <1> HIDE DEF r, s
  <1>5. x + y + z = call.amount
    BY <1>2, SharesAddUp
  <1> QED BY <1>4, <1>5

UnpaidFrom(esc) ==
  EscrowInitialized(esc) /\ esc.token_account \notin SplAccounts =>
    esc.sent_amount = 0 /\ esc.state # "Cancelled"

LEMMA StepKeepsUnpaid ==
  ASSUME IInv, NEW e \in Escrows, UnpaidFrom(escrow[e]), StepOf(e)
  PROVE  UnpaidFrom(escrow'[e])
  <1> USE CallsAssumption DEF UnpaidFrom, EscrowInitialized
  <1>0. escrow[e] \in EscrowRecords /\ EscrowInv(e, escrow[e])
    BY DEF IInv, TypeOK
  <1>1. CASE escrow'[e] = escrow[e]
    BY <1>1
  <1>2. ASSUME NEW call \in InitializeCalls, escrow'[e] = InitializeWrites(clock, call)
        PROVE  UnpaidFrom(escrow'[e])
    BY <1>2 DEF InitializeWrites, BlankEscrow
  <1>3. ASSUME NEW h \in Signers, NEW call \in SetupCalls,
               SetupAccepts(escrow[e], clock, h, call),
               escrow'[e] = SetupWrites(escrow[e], call)
        PROVE  UnpaidFrom(escrow'[e])
    BY <1>0, <1>3 DEF SetupAccepts, StateCheck, SetupWrites, EscrowRecords
  <1>4. ASSUME NEW h \in Signers, NEW r \in Results,
               StoreResultsAccepts(escrow[e], clock, h),
               escrow'[e] = StoreResultsWrites(escrow[e], r)
        PROVE  UnpaidFrom(escrow'[e])
    BY <1>0, <1>4 DEF StoreResultsAccepts, StateCheck, StoreResultsWrites, EscrowRecords
  <1>5. ASSUME NEW h \in Signers, NEW call \in AmountsCalls,
               StoreAmountsAccepts(escrow[e], clock, h),
               escrow'[e] = StoreAmountsWrites(escrow[e], call)
        PROVE  UnpaidFrom(escrow'[e])
    BY <1>0, <1>5 DEF StoreAmountsAccepts, StateCheck, StoreAmountsWrites, EscrowRecords
  <1>6. ASSUME NEW h \in Signers, NEW call \in PayoutCalls,
               PayoutAccepts(e, escrow[e], balance, clock, h, call),
               escrow'[e] = PayoutWrites(escrow[e], call.amount)
        PROVE  UnpaidFrom(escrow'[e])
    <2> DEFINE esc == escrow[e]
               new == escrow'[e]
    <2>1. /\ new.token_account = esc.token_account
          /\ new.state \in {"Paid", "Partial"}
          /\ new.sent_amount = WrapAdd(esc.sent_amount, call.amount)
      BY <1>0, <1>6 DEF PayoutWrites, EscrowRecords
    <2>2. EscrowInitialized(esc)
      BY <1>6 DEF PayoutAccepts, StateCheck
    <2>3. esc.token_account \notin SplAccounts => call.amount = 0
      BY <1>0, <1>6, FalseVaultServesNothing
    <2>4. WrapAdd(0, 0) = 0
      BY I64Assumption DEF WrapAdd, U64
    <2> QED BY <2>1, <2>2, <2>3, <2>4
  <1>7. ASSUME NEW h \in Signers, NEW call \in CancelCalls,
               CancelAccepts(e, escrow[e], balance, h, call),
               escrow'[e] = CancelWrites(escrow[e])
        PROVE  UnpaidFrom(escrow'[e])
    <2>1. escrow[e].token_account \in SplAccounts
      BY <1>7 DEF CancelAccepts, CanTransfer
    <2> QED BY <1>0, <1>7, <2>1 DEF CancelWrites, EscrowRecords
  <1>8. ASSUME NEW h \in Signers, CompleteAccepts(escrow[e], clock, h),
               escrow'[e] = CompleteWrites(escrow[e])
        PROVE  UnpaidFrom(escrow'[e])
    BY <1>0, <1>8 DEF CompleteAccepts, StateCheck, CompleteWrites, EscrowRecords
  <1> QED BY <1>1, <1>2, <1>3, <1>4, <1>5, <1>6, <1>7, <1>8 DEF StepOf

(* Money that is not there is never recorded as moved (see FalseVaultsPayNothing): *)
(* the checks at Initialize let a look-alike through, those of the token program  *)
(* do not, and every handler that records comes after them.                      *)
THEOREM FalseVaultsStayUnpaid == Spec => []FalseVaultsPayNothing
  <1> DEFINE Unpaid == \A e \in Escrows : UnpaidFrom(escrow[e])
  <1>1. Init => Unpaid
    BY DEF Init, UnpaidFrom, EscrowInitialized, BlankEscrow
  <1>2. IInv /\ Unpaid /\ [Next]_vars => Unpaid'
    BY EveryStep, StepKeepsUnpaid DEF IInv
  <1>3. Unpaid => FalseVaultsPayNothing
    BY DEF UnpaidFrom, FalseVaultsPayNothing, Known, Vault
  <1> HIDE DEF Unpaid
  <1> QED BY <1>1, <1>2, <1>3, Inductive, PTL DEF Spec
=============================================================================
