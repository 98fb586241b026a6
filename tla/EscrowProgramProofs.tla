-------------------------- MODULE EscrowProgramProofs --------------------------
(****************************************************************************)
(* Machine-checked proofs about EscrowProgram, for every word size, every set   *)
(* of accounts and every choice of calls.                                      *)
(****************************************************************************)
EXTENDS EscrowProgram, TLAPS

-----------------------------------------------------------------------------
(* Arithmetic stays in its type: a wrapped sum of two u64 is a u64, ...         *)
LEMMA WrapAddType ==
  ASSUME NEW a \in Amounts, NEW b \in Amounts
  PROVE  WrapAdd(a, b) \in Amounts
  BY I64Assumption DEF WrapAdd, Amounts, U64

(* ... an expiry is an i64 whatever the duration, ...                           *)
LEMMA ExpiresAtType ==
  ASSUME NEW now \in Timestamps, NEW duration \in Amounts
  PROVE  ExpiresAt(now, duration) \in Timestamps
  BY I64Assumption DEF ExpiresAt, WrapAddI64, AsI64, Timestamps, Amounts, U64

(* ... and a fee is at most the amount when the stake is at most 100 percent.   *)
LEMMA FeeBounds ==
  ASSUME NEW amount \in Amounts, NEW stake \in 0 .. 100
  PROVE  /\ Fee(amount, stake) \in 0 .. amount
         /\ 100 * Fee(amount, stake) <= stake * amount
  <1> DEFINE p == amount * stake
  <1>1. p \in Nat /\ p <= 100 * amount
    BY DEF Amounts
  <1> HIDE DEF p
  <1>2. p \div 100 \in Nat /\ 100 * (p \div 100) <= p
    BY <1>1
  <1>3. CASE p < U64
    BY <1>1, <1>2, <1>3 DEF Fee, p, Amounts
  <1>4. CASE ~(p < U64)
    BY <1>1, <1>4 DEF Fee, p, Amounts
  <1> QED BY <1>3, <1>4

(* A remainder is unique, ...                                                  *)
LEMMA RemainderUnique ==
  ASSUME NEW m \in Nat, m > 0, NEW q1 \in Int, NEW q2 \in Int,
         NEW r1 \in 0 .. m - 1, NEW r2 \in 0 .. m - 1, m * q1 + r1 = m * q2 + r2
  PROVE  r1 = r2
  <1>1. CASE q1 = q2
    BY <1>1
  <1>2. CASE q1 > q2
    <2>1. m * q1 >= m * q2 + m
      BY <1>2
    <2> QED BY <1>2, <2>1
  <1>3. CASE q1 < q2
    <2>1. m * q2 >= m * q1 + m
      BY <1>3
    <2> QED BY <1>3, <2>1
  <1> QED BY <1>1, <1>2, <1>3

(* ... so a counter that wraps is the true count modulo its width.              *)
LEMMA WrapAddIsModular ==
  ASSUME NEW a \in Nat, NEW n \in Amounts
  PROVE  WrapAdd(a % U64, n) = (a + n) % U64
  <1> DEFINE m == U64
             r == a % m
             k == a \div m
             s == (a + n) % m
             l == (a + n) \div m
  <1>1. m \in Nat /\ m > 0 /\ n \in 0 .. m - 1
    BY I64Assumption DEF U64, Amounts
  <1>2. WrapAdd(r, n) = IF r + n < m THEN r + n ELSE r + n - m
    BY DEF WrapAdd
  <1> HIDE DEF m
  <1>3. r \in 0 .. m - 1 /\ k \in Int /\ a = m * k + r
    BY <1>1, Z3
  <1>4. s \in 0 .. m - 1 /\ l \in Int /\ a + n = m * l + s
    BY <1>1, Z3
  <1> HIDE DEF r, k, s, l
  <1>5. CASE r + n < m
    <2>1. m * k + (r + n) = m * l + s
      BY <1>1, <1>3, <1>4
    <2>2. r + n \in 0 .. m - 1
      BY <1>1, <1>3, <1>5
    <2>3. r + n = s
      BY <1>1, <1>3, <1>4, <2>1, <2>2, RemainderUnique
    <2> QED BY <1>2, <1>5, <2>3 DEF m, r, s
  <1>6. CASE ~(r + n < m)
    <2>1. m * (k + 1) = m * k + m
      BY <1>1, <1>3
    <2>2. m * (k + 1) + (r + n - m) = m * l + s
      BY <1>1, <1>3, <1>4, <2>1
    <2>3. r + n - m \in 0 .. m - 1 /\ k + 1 \in Int
      BY <1>1, <1>3, <1>6
    <2>4. r + n - m = s
      BY <1>1, <1>3, <1>4, <2>2, <2>3, RemainderUnique
    <2> QED BY <1>2, <1>6, <2>4 DEF m, r, s
  <1> QED BY <1>5, <1>6

LEMMA TransferredType ==
  ASSUME NEW ledger \in Ledgers, NEW from \in TokenAccounts, NEW to \in TokenAccounts,
         NEW authority, NEW n \in Amounts,
         Invokable(ledger, from, to, authority, n)
  PROVE  Transferred(ledger, from, to, n) \in Ledgers
  BY I64Assumption DEF Ledgers, Transferred, Invokable, CanTransfer, Amounts, U64

LEMMA BlankEscrowType == BlankEscrow \in EscrowRecords
  BY I64Assumption DEF BlankEscrow, EscrowRecords, EscrowStates, Timestamps, Percents, Amounts, U64

(* A record of the program's stays one when a field is set to a value of its type: *)
(* an update of several fields is typed one field at a time.                       *)
LEMMA FieldUpdates ==
  ASSUME NEW esc \in EscrowRecords
  PROVE  /\ \A x \in EscrowStates : [esc EXCEPT !.state = x] \in EscrowRecords
         /\ \A x \in Timestamps : [esc EXCEPT !.expires = x] \in EscrowRecords
         /\ \A x \in Mints : [esc EXCEPT !.token_mint = x] \in EscrowRecords
         /\ \A x \in TokenAccounts : [esc EXCEPT !.token_account = x] \in EscrowRecords
         /\ \A x \in Keys : [esc EXCEPT !.reputation_oracle = x] \in EscrowRecords
         /\ \A x \in TokenAccounts : [esc EXCEPT !.reputation_oracle_token_account = x] \in EscrowRecords
         /\ \A x \in Percents : [esc EXCEPT !.reputation_oracle_stake = x] \in EscrowRecords
         /\ \A x \in Keys : [esc EXCEPT !.recording_oracle = x] \in EscrowRecords
         /\ \A x \in TokenAccounts : [esc EXCEPT !.recording_oracle_token_account = x] \in EscrowRecords
         /\ \A x \in Percents : [esc EXCEPT !.recording_oracle_stake = x] \in EscrowRecords
         /\ \A x \in Keys : [esc EXCEPT !.launcher = x] \in EscrowRecords
         /\ \A x \in Keys : [esc EXCEPT !.canceler = x] \in EscrowRecords
         /\ \A x \in TokenAccounts : [esc EXCEPT !.canceler_token_account = x] \in EscrowRecords
         /\ \A x \in Amounts : [esc EXCEPT !.total_amount = x] \in EscrowRecords
         /\ \A x \in Amounts : [esc EXCEPT !.total_recipients = x] \in EscrowRecords
         /\ \A x \in Amounts : [esc EXCEPT !.sent_amount = x] \in EscrowRecords
         /\ \A x \in Amounts : [esc EXCEPT !.sent_recipients = x] \in EscrowRecords
         /\ \A x \in Documents : [esc EXCEPT !.manifest = x] \in EscrowRecords
  <1>1. \A x \in EscrowStates : [esc EXCEPT !.state = x] \in EscrowRecords
    BY DEF EscrowRecords
  <1>2. \A x \in Timestamps : [esc EXCEPT !.expires = x] \in EscrowRecords
    BY DEF EscrowRecords
  <1>3. \A x \in Mints : [esc EXCEPT !.token_mint = x] \in EscrowRecords
    BY DEF EscrowRecords
  <1>4. \A x \in TokenAccounts : [esc EXCEPT !.token_account = x] \in EscrowRecords
    BY DEF EscrowRecords
  <1>5. \A x \in Keys : [esc EXCEPT !.reputation_oracle = x] \in EscrowRecords
    BY DEF EscrowRecords
  <1>6. \A x \in TokenAccounts : [esc EXCEPT !.reputation_oracle_token_account = x] \in EscrowRecords
    BY DEF EscrowRecords
  <1>7. \A x \in Percents : [esc EXCEPT !.reputation_oracle_stake = x] \in EscrowRecords
    BY DEF EscrowRecords
  <1>8. \A x \in Keys : [esc EXCEPT !.recording_oracle = x] \in EscrowRecords
    BY DEF EscrowRecords
  <1>9. \A x \in TokenAccounts : [esc EXCEPT !.recording_oracle_token_account = x] \in EscrowRecords
    BY DEF EscrowRecords
  <1>10. \A x \in Percents : [esc EXCEPT !.recording_oracle_stake = x] \in EscrowRecords
    BY DEF EscrowRecords
  <1>11. \A x \in Keys : [esc EXCEPT !.launcher = x] \in EscrowRecords
    BY DEF EscrowRecords
  <1>12. \A x \in Keys : [esc EXCEPT !.canceler = x] \in EscrowRecords
    BY DEF EscrowRecords
  <1>13. \A x \in TokenAccounts : [esc EXCEPT !.canceler_token_account = x] \in EscrowRecords
    BY DEF EscrowRecords
  <1>14. \A x \in Amounts : [esc EXCEPT !.total_amount = x] \in EscrowRecords
    BY DEF EscrowRecords
  <1>15. \A x \in Amounts : [esc EXCEPT !.total_recipients = x] \in EscrowRecords
    BY DEF EscrowRecords
  <1>16. \A x \in Amounts : [esc EXCEPT !.sent_amount = x] \in EscrowRecords
    BY DEF EscrowRecords
  <1>17. \A x \in Amounts : [esc EXCEPT !.sent_recipients = x] \in EscrowRecords
    BY DEF EscrowRecords
  <1>18. \A x \in Documents : [esc EXCEPT !.manifest = x] \in EscrowRecords
    BY DEF EscrowRecords
  <1> QED BY <1>1, <1>2, <1>3, <1>4, <1>5, <1>6, <1>7, <1>8, <1>9, <1>10, <1>11, <1>12, <1>13, <1>14, <1>15, <1>16, <1>17, <1>18

LEMMA SetupWritesType ==
  ASSUME NEW esc \in EscrowRecords, NEW call \in SetupCall
  PROVE  SetupWrites(esc, call) \in EscrowRecords
  <1> DEFINE s1 == [esc EXCEPT !.reputation_oracle = call.reputation_oracle]
             s2 == [s1 EXCEPT !.reputation_oracle_token_account = call.reputation_oracle_token_account]
             s3 == [s2 EXCEPT !.reputation_oracle_stake = call.reputation_oracle_stake]
             s4 == [s3 EXCEPT !.recording_oracle = call.recording_oracle]
             s5 == [s4 EXCEPT !.recording_oracle_token_account = call.recording_oracle_token_account]
             s6 == [s5 EXCEPT !.recording_oracle_stake = call.recording_oracle_stake]
             s7 == [s6 EXCEPT !.manifest = call.manifest]
  <1>1. /\ call.reputation_oracle \in Keys
        /\ call.reputation_oracle_token_account \in TokenAccounts
        /\ call.reputation_oracle_stake \in Percents
        /\ call.recording_oracle \in Keys
        /\ call.recording_oracle_token_account \in TokenAccounts
        /\ call.recording_oracle_stake \in Percents
        /\ call.manifest \in Documents
        /\ "Pending" \in EscrowStates
    BY DEF SetupCall, EscrowStates
  <1>2. SetupWrites(esc, call) =
          [s7 EXCEPT !.state = "Pending"]
    BY DEF SetupWrites
  <1>3. s1 \in EscrowRecords
    BY <1>1, FieldUpdates
  <1> HIDE DEF s1
  <1>4. s2 \in EscrowRecords
    BY <1>3, <1>1, FieldUpdates
  <1> HIDE DEF s2
  <1>5. s3 \in EscrowRecords
    BY <1>4, <1>1, FieldUpdates
  <1> HIDE DEF s3
  <1>6. s4 \in EscrowRecords
    BY <1>5, <1>1, FieldUpdates
  <1> HIDE DEF s4
  <1>7. s5 \in EscrowRecords
    BY <1>6, <1>1, FieldUpdates
  <1> HIDE DEF s5
  <1>8. s6 \in EscrowRecords
    BY <1>7, <1>1, FieldUpdates
  <1> HIDE DEF s6
  <1>9. s7 \in EscrowRecords
    BY <1>8, <1>1, FieldUpdates
  <1> HIDE DEF s7
  <1>10. [s7 EXCEPT !.state = "Pending"] \in EscrowRecords
    BY <1>9, <1>1, FieldUpdates
  <1> QED BY <1>2, <1>10

LEMMA InitializeWritesType ==
  ASSUME NEW now \in Timestamps, NEW call \in InitializeCall
  PROVE  InitializeWrites(now, call) \in EscrowRecords
  <1> DEFINE expiry == ExpiresAt(now, call.duration)
             s1 == [BlankEscrow EXCEPT !.state = "Launched"]
             s2 == [s1 EXCEPT !.expires = expiry]
             s3 == [s2 EXCEPT !.token_mint = call.token_mint]
             s4 == [s3 EXCEPT !.token_account = call.token_account]
             s5 == [s4 EXCEPT !.launcher = call.launcher]
             s6 == [s5 EXCEPT !.canceler = call.canceler]
  <1>1. expiry \in Timestamps
    BY ExpiresAtType DEF InitializeCall
  <1>2. /\ call.token_mint \in Mints
        /\ call.token_account \in TokenAccounts
        /\ call.launcher \in Keys
        /\ call.canceler \in Keys
        /\ call.canceler_token_account \in TokenAccounts
        /\ "Launched" \in EscrowStates
    BY DEF InitializeCall, EscrowStates
  <1>3. InitializeWrites(now, call) =
          [s6 EXCEPT !.canceler_token_account = call.canceler_token_account]
    BY DEF InitializeWrites, expiry
  <1> HIDE DEF expiry
  <1>4. s1 \in EscrowRecords
    BY BlankEscrowType, <1>1, <1>2, FieldUpdates
  <1> HIDE DEF s1
  <1>5. s2 \in EscrowRecords
    BY <1>4, <1>1, <1>2, FieldUpdates
  <1> HIDE DEF s2
  <1>6. s3 \in EscrowRecords
    BY <1>5, <1>1, <1>2, FieldUpdates
  <1> HIDE DEF s3
  <1>7. s4 \in EscrowRecords
    BY <1>6, <1>1, <1>2, FieldUpdates
  <1> HIDE DEF s4
  <1>8. s5 \in EscrowRecords
    BY <1>7, <1>1, <1>2, FieldUpdates
  <1> HIDE DEF s5
  <1>9. s6 \in EscrowRecords
    BY <1>8, <1>1, <1>2, FieldUpdates
  <1> HIDE DEF s6
  <1>10. [s6 EXCEPT !.canceler_token_account = call.canceler_token_account] \in EscrowRecords
    BY <1>9, <1>1, <1>2, FieldUpdates
  <1> QED BY <1>3, <1>10

LEMMA PayoutWritesType ==
  ASSUME NEW esc \in EscrowRecords, NEW amount \in Amounts
  PROVE  PayoutWrites(esc, amount) \in EscrowRecords
  <1> DEFINE sent == WrapAdd(esc.sent_amount, amount)
             recipients == WrapAdd(esc.sent_recipients, 1)
             state == IF recipients = esc.total_recipients /\ sent = esc.total_amount
                      THEN "Paid" ELSE "Partial"
             s1 == [esc EXCEPT !.sent_amount = sent]
             s2 == [s1 EXCEPT !.sent_recipients = recipients]
  <1>1. sent \in Amounts
    BY WrapAddType DEF EscrowRecords
  <1>2. 1 \in Amounts
    BY I64Assumption DEF Amounts, U64
  <1>3. recipients \in Amounts
    BY WrapAddType, <1>2 DEF EscrowRecords
  <1>4. state \in EscrowStates
    BY DEF EscrowStates
  <1>5. PayoutWrites(esc, amount) =
          [s2 EXCEPT !.state = state]
    BY DEF PayoutWrites, EscrowRecords
  <1> HIDE DEF sent, recipients, state
  <1>6. s1 \in EscrowRecords
    BY <1>1, <1>2, <1>3, <1>4, FieldUpdates
  <1> HIDE DEF s1
  <1>7. s2 \in EscrowRecords
    BY <1>6, <1>1, <1>2, <1>3, <1>4, FieldUpdates
  <1> HIDE DEF s2
  <1>8. [s2 EXCEPT !.state = state] \in EscrowRecords
    BY <1>7, <1>1, <1>2, <1>3, <1>4, FieldUpdates
  <1> QED BY <1>5, <1>8

LEMMA CancelWritesType ==
  ASSUME NEW esc \in EscrowRecords
  PROVE  CancelWrites(esc) \in EscrowRecords
  BY DEF CancelWrites, EscrowRecords, EscrowStates

LEMMA CompleteWritesType ==
  ASSUME NEW esc \in EscrowRecords
  PROVE  CompleteWrites(esc) \in EscrowRecords
  BY DEF CompleteWrites, EscrowRecords, EscrowStates

LEMMA StoreResultsWritesType ==
  ASSUME NEW esc \in EscrowRecords, NEW results \in Documents
  PROVE  StoreResultsWrites(esc, results) \in EscrowRecords
  BY DEF StoreResultsWrites, EscrowRecords

LEMMA StoreAmountsWritesType ==
  ASSUME NEW esc \in EscrowRecords, NEW call \in AmountsCall
  PROVE  StoreAmountsWrites(esc, call) \in EscrowRecords
  <1> DEFINE s1 == [esc EXCEPT !.total_amount = call.total_amount]
  <1>1. /\ call.total_amount \in Amounts
        /\ call.total_recipients \in Amounts
    BY DEF AmountsCall
  <1>2. StoreAmountsWrites(esc, call) =
          [s1 EXCEPT !.total_recipients = call.total_recipients]
    BY DEF StoreAmountsWrites
  <1>3. s1 \in EscrowRecords
    BY <1>1, FieldUpdates
  <1> HIDE DEF s1
  <1>4. [s1 EXCEPT !.total_recipients = call.total_recipients] \in EscrowRecords
    BY <1>3, <1>1, FieldUpdates
  <1> QED BY <1>2, <1>4

-----------------------------------------------------------------------------
(* The three shares of a payout are amounts, whatever the stakes.              *)
LEMMA ShareTypes ==
  ASSUME NEW amount \in Amounts, NEW r \in Percents, NEW s \in Percents
  PROVE  /\ Fee(amount, r) \in Amounts
         /\ RecipientAmount(amount, r, s) \in Amounts
  <1>1. ASSUME NEW stake \in Percents
        PROVE  Fee(amount, stake) \in Amounts
    <2> DEFINE p == amount * stake
    <2>1. p \in Nat
      BY DEF Amounts, Percents
    <2> HIDE DEF p
    <2>2. Fee(amount, stake) = IF p < U64 THEN p \div 100 ELSE 0
      BY DEF Fee, p
    <2>3. p \div 100 \in Nat /\ p \div 100 <= p
      BY <2>1
    <2> DEFINE q == p \div 100
    <2>4. q \in Nat /\ q <= p
      BY <2>3
    <2>5. Fee(amount, stake) = IF p < U64 THEN q ELSE 0
      BY <2>2
    <2> HIDE DEF q
    <2> QED BY <2>1, <2>4, <2>5, I64Assumption DEF Amounts, U64
  <1>2. Fee(amount, r) \in Amounts /\ Fee(amount, s) \in Amounts
    BY <1>1
  <1>3. ASSUME NEW a \in Amounts, NEW b \in Amounts
        PROVE  SaturatingSub(a, b) \in Amounts
    BY I64Assumption DEF SaturatingSub, Amounts, U64
  <1> QED BY <1>2, <1>3 DEF RecipientAmount

(* The ledger after the three transfers of an accepted payout is a ledger.     *)
LEMMA PayoutLedgerType ==
  ASSUME NEW esc \in EscrowRecords, NEW ledger \in Ledgers, NEW call \in PayoutCall,
         PayoutTransfersSucceed(esc, ledger, call)
  PROVE  /\ AfterRecipient(esc, ledger, call) \in Ledgers
         /\ AfterReputation(esc, ledger, call) \in Ledgers
         /\ PayoutLedger(esc, ledger, call) \in Ledgers
  <1>1. /\ call.amount \in Amounts
        /\ call.token_account \in TokenAccounts
        /\ call.recipient_token_account \in TokenAccounts
        /\ call.reputation_oracle_token_account \in TokenAccounts
        /\ call.recording_oracle_token_account \in TokenAccounts
    BY DEF PayoutCall
  <1>2. esc.reputation_oracle_stake \in Percents /\ esc.recording_oracle_stake \in Percents
    BY DEF EscrowRecords
  <1>3. /\ RecipientShare(esc, call.amount) \in Amounts
        /\ ReputationFee(esc, call.amount) \in Amounts
        /\ RecordingFee(esc, call.amount) \in Amounts
    BY <1>1, <1>2, ShareTypes DEF RecipientShare, ReputationFee, RecordingFee
  <1>4. AfterRecipient(esc, ledger, call) \in Ledgers
    BY <1>1, <1>3, TransferredType DEF AfterRecipient, PayoutTransfersSucceed
  <1>5. AfterReputation(esc, ledger, call) \in Ledgers
    BY <1>1, <1>3, <1>4, TransferredType DEF AfterReputation, PayoutTransfersSucceed
  <1>6. PayoutLedger(esc, ledger, call) \in Ledgers
    BY <1>1, <1>3, <1>5, TransferredType DEF PayoutLedger, PayoutTransfersSucceed
  <1> QED BY <1>4, <1>5, <1>6

(* The same for a refund.                                                      *)
LEMMA CancelLedgerType ==
  ASSUME NEW e, NEW esc, NEW ledger \in Ledgers, NEW handler, NEW call \in CancelCall,
         CancelAccepts(e, esc, ledger, handler, call)
  PROVE  CancelLedger(ledger, call) \in Ledgers
  <1>1. /\ call.token_account \in TokenAccounts
        /\ call.canceler_token_account \in TokenAccounts
    BY DEF CancelCall
  <1>2. ledger[call.token_account] \in Amounts
    BY <1>1 DEF Ledgers
  <1>3. Invokable(ledger, call.token_account, call.canceler_token_account,
                  call.authority, ledger[call.token_account])
    BY DEF CancelAccepts, Invokable
  <1> QED BY <1>1, <1>2, <1>3, TransferredType DEF CancelLedger

-----------------------------------------------------------------------------
(* Every step keeps the state well typed, ...                                  *)
LEMMA TypeStep ==
  ASSUME TypeOK, [Next]_vars
  PROVE  TypeOK'
  <1> USE CallsAssumption
  <1>1. CASE Tick
    BY <1>1 DEF Tick, TypeOK
  <1>2. ASSUME NEW t \in WalletTransfers, WalletTransfer(t) PROVE TypeOK'
    <2>1. t.from \in TokenAccounts /\ t.to \in TokenAccounts /\ t.amount \in Amounts
      OBVIOUS
    <2>2. balance' \in Ledgers
      BY <1>2, <2>1, TransferredType DEF WalletTransfer, TypeOK, Invokable
    <2> QED BY <1>2, <2>2 DEF WalletTransfer, TypeOK
  <1>3. ASSUME NEW f \in Factories, NEW v \in FactoryVersions, FactoryInitialize(f, v)
        PROVE  TypeOK'
    BY <1>3 DEF FactoryInitialize, TypeOK
  <1>4. ASSUME NEW e \in Escrows, NEW call \in InitializeCalls, Initialize(e, call)
        PROVE  TypeOK'
    <2>1. clock \in Timestamps
      BY I64Assumption DEF TypeOK, Timestamps
    <2>2. InitializeWrites(clock, call) \in EscrowRecords
      BY <2>1, InitializeWritesType
    <2> QED BY <1>4, <2>2 DEF Initialize, TypeOK
  <1>5. ASSUME NEW e \in Escrows, NEW h \in Signers, NEW call \in SetupCalls,
               Setup(e, h, call)
        PROVE  TypeOK'
    <2>1. SetupWrites(escrow[e], call) \in EscrowRecords
      BY SetupWritesType DEF TypeOK
    <2> QED BY <1>5, <2>1 DEF Setup, TypeOK
  <1>6. ASSUME NEW e \in Escrows, NEW h \in Signers, NEW r \in Results,
               StoreResults(e, h, r)
        PROVE  TypeOK'
    <2>1. StoreResultsWrites(escrow[e], r) \in EscrowRecords
      BY StoreResultsWritesType DEF TypeOK
    <2> QED BY <1>6, <2>1 DEF StoreResults, TypeOK
  <1>7. ASSUME NEW e \in Escrows, NEW h \in Signers, NEW call \in AmountsCalls,
               StoreFinalAmounts(e, h, call)
        PROVE  TypeOK'
    <2>1. StoreAmountsWrites(escrow[e], call) \in EscrowRecords
      BY StoreAmountsWritesType DEF TypeOK
    <2> QED BY <1>7, <2>1 DEF StoreFinalAmounts, TypeOK
  <1>8. ASSUME NEW e \in Escrows, NEW h \in Signers, NEW call \in PayoutCalls,
               Payout(e, h, call)
        PROVE  TypeOK'
    <2>1. escrow[e] \in EscrowRecords /\ balance \in Ledgers /\ call.amount \in Amounts
      BY DEF TypeOK, PayoutCall
    <2>2. PayoutWrites(escrow[e], call.amount) \in EscrowRecords
      BY <2>1, PayoutWritesType
    <2>3. PayoutLedger(escrow[e], balance, call) \in Ledgers
      BY <1>8, <2>1, PayoutLedgerType DEF Payout, PayoutAccepts
    <2> QED BY <1>8, <2>2, <2>3 DEF Payout, TypeOK
  <1>9. ASSUME NEW e \in Escrows, NEW h \in Signers, NEW call \in CancelCalls,
               Cancel(e, h, call)
        PROVE  TypeOK'
    <2>1. CancelWrites(escrow[e]) \in EscrowRecords
      BY CancelWritesType DEF TypeOK
    <2>2. CancelLedger(balance, call) \in Ledgers
      BY <1>9, CancelLedgerType DEF Cancel, TypeOK
    <2> QED BY <1>9, <2>1, <2>2 DEF Cancel, TypeOK
  <1>10. ASSUME NEW e \in Escrows, NEW h \in Signers, Complete(e, h) PROVE TypeOK'
    <2>1. CompleteWrites(escrow[e]) \in EscrowRecords
      BY CompleteWritesType DEF TypeOK
    <2> QED BY <1>10, <2>1 DEF Complete, TypeOK
  <1>11. CASE UNCHANGED vars
    BY <1>11 DEF vars, TypeOK
  <1> QED
    BY <1>1, <1>2, <1>3, <1>4, <1>5, <1>6, <1>7, <1>8, <1>9, <1>10, <1>11 DEF Next

(* ... so it always is.                                                        *)
THEOREM TypeCorrect == Spec => []TypeOK
  <1>1. Init => TypeOK
    BY BlankEscrowType, CallsAssumption, FactoriesAssumption DEF Init, TypeOK
  <1>2. TypeOK /\ [Next]_vars => TypeOK'
    BY TypeStep
  <1> QED BY <1>1, <1>2, PTL DEF Spec

-----------------------------------------------------------------------------
(* What one step can do to one escrow account: nothing, or one instruction.    *)
StepOf(e) ==
  \/ escrow'[e] = escrow[e]
  \/ \E call \in InitializeCalls :
       /\ InitializeAccepts(e, escrow[e], version[call.factory], call)
       /\ escrow'[e] = InitializeWrites(clock, call)
  \/ \E h \in Signers, call \in SetupCalls :
       /\ SetupAccepts(escrow[e], clock, h, call)
       /\ escrow'[e] = SetupWrites(escrow[e], call)
  \/ \E h \in Signers, r \in Results :
       /\ StoreResultsAccepts(escrow[e], clock, h)
       /\ escrow'[e] = StoreResultsWrites(escrow[e], r)
  \/ \E h \in Signers, call \in AmountsCalls :
       /\ StoreAmountsAccepts(escrow[e], clock, h)
       /\ escrow'[e] = StoreAmountsWrites(escrow[e], call)
  \/ \E h \in Signers, call \in PayoutCalls :
       /\ PayoutAccepts(e, escrow[e], balance, clock, h, call)
       /\ escrow'[e] = PayoutWrites(escrow[e], call.amount)
  \/ \E h \in Signers, call \in CancelCalls :
       /\ CancelAccepts(e, escrow[e], balance, h, call)
       /\ escrow'[e] = CancelWrites(escrow[e])
  \/ \E h \in Signers :
       /\ CompleteAccepts(escrow[e], clock, h)
       /\ escrow'[e] = CompleteWrites(escrow[e])

(* Every step of the program is such a step of every escrow.                   *)
LEMMA EveryStep ==
  ASSUME TypeOK, [Next]_vars, NEW e \in Escrows
  PROVE  StepOf(e)
  <1> USE DEF TypeOK
  <1>1. CASE UNCHANGED escrow
    BY <1>1 DEF StepOf
  <1>2. ASSUME NEW f \in Escrows, NEW call \in InitializeCalls, Initialize(f, call)
        PROVE  StepOf(e)
    BY <1>2 DEF StepOf, Initialize
  <1>3. ASSUME NEW f \in Escrows, NEW h \in Signers, NEW call \in SetupCalls,
               Setup(f, h, call)
        PROVE  StepOf(e)
    BY <1>3 DEF StepOf, Setup
  <1>4. ASSUME NEW f \in Escrows, NEW h \in Signers, NEW r \in Results,
               StoreResults(f, h, r)
        PROVE  StepOf(e)
    BY <1>4 DEF StepOf, StoreResults
  <1>5. ASSUME NEW f \in Escrows, NEW h \in Signers, NEW call \in AmountsCalls,
               StoreFinalAmounts(f, h, call)
        PROVE  StepOf(e)
    BY <1>5 DEF StepOf, StoreFinalAmounts
  <1>6. ASSUME NEW f \in Escrows, NEW h \in Signers, NEW call \in PayoutCalls,
               Payout(f, h, call)
        PROVE  StepOf(e)
    BY <1>6 DEF StepOf, Payout
  <1>7. ASSUME NEW f \in Escrows, NEW h \in Signers, NEW call \in CancelCalls,
               Cancel(f, h, call)
        PROVE  StepOf(e)
    BY <1>7 DEF StepOf, Cancel
  <1>8. ASSUME NEW f \in Escrows, NEW h \in Signers, Complete(f, h)
        PROVE  StepOf(e)
    BY <1>8 DEF StepOf, Complete
  <1>9. CASE Tick \/ (\E t \in WalletTransfers : WalletTransfer(t))
             \/ (\E f \in Factories, v \in FactoryVersions : FactoryInitialize(f, v))
             \/ UNCHANGED vars
    BY <1>1, <1>9 DEF Tick, WalletTransfer, FactoryInitialize, vars
  <1> QED
    BY <1>2, <1>3, <1>4, <1>5, <1>6, <1>7, <1>8, <1>9 DEF Next

-----------------------------------------------------------------------------
(* The inductive invariant, stated of one account so that a step of one escrow  *)
(* need not mention the others.  None of the invariants of EscrowProgram is      *)
(* inductive alone: CountersFull needs the type, VaultsNeverShared needs that     *)
(* a vault was checked against the authority when the escrow was initialised.     *)
OwnsVault(e, esc) ==
  EscrowInitialized(esc) =>
    esc.token_account \in TokenAccounts /\ OwnerOf[esc.token_account] = Authority[e]

OraclesKnown(esc) ==
  esc.state \in Unsettled \cup Settled =>
    /\ esc.reputation_oracle \in Keys
    /\ esc.recording_oracle \in Keys
    /\ esc.reputation_oracle_token_account \in TokenAccounts
    /\ esc.recording_oracle_token_account \in TokenAccounts
    /\ MintOf[esc.reputation_oracle_token_account] = esc.token_mint
    /\ MintOf[esc.recording_oracle_token_account] = esc.token_mint
    /\ esc.reputation_oracle_stake + esc.recording_oracle_stake \in 1 .. 100

CountersFull(esc) ==
  esc.state \in Settled =>
    /\ esc.sent_amount = esc.total_amount
    /\ esc.sent_recipients = esc.total_recipients

EscrowInv(e, esc) == OwnsVault(e, esc) /\ OraclesKnown(esc) /\ CountersFull(esc)

IInv == TypeOK /\ \A e \in Escrows : EscrowInv(e, escrow[e])

(* Every instruction that is accepted of such an account leaves such an account.  *)
LEMMA InstructionsKeepEscrowInv ==
  ASSUME NEW e, NEW esc \in EscrowRecords, EscrowInv(e, esc)
  PROVE  /\ \A v, now : \A call \in InitializeCall :
              InitializeAccepts(e, esc, v, call) => EscrowInv(e, InitializeWrites(now, call))
         /\ \A now, h : \A call \in SetupCall :
              SetupAccepts(esc, now, h, call) => EscrowInv(e, SetupWrites(esc, call))
         /\ \A now, h, r : StoreResultsAccepts(esc, now, h) => EscrowInv(e, StoreResultsWrites(esc, r))
         /\ \A now, h, call : StoreAmountsAccepts(esc, now, h) => EscrowInv(e, StoreAmountsWrites(esc, call))
         /\ \A ledger, now, h, call : PayoutAccepts(e, esc, ledger, now, h, call) =>
                       EscrowInv(e, PayoutWrites(esc, call.amount))
         /\ \A ledger, h, call : CancelAccepts(e, esc, ledger, h, call) => EscrowInv(e, CancelWrites(esc))
         /\ \A now, h : CompleteAccepts(esc, now, h) => EscrowInv(e, CompleteWrites(esc))
  <1> USE DEF EscrowInv, EscrowInitialized, Unsettled, Settled
  <1>1. ASSUME NEW v, NEW now, NEW call \in InitializeCall, InitializeAccepts(e, esc, v, call)
        PROVE  EscrowInv(e, InitializeWrites(now, call))
    <2> DEFINE new == InitializeWrites(now, call)
    <2>1. new.state = "Launched" /\ new.token_account = call.token_account
      BY DEF InitializeWrites, BlankEscrow
    <2>2. call.token_account \in TokenAccounts
      BY DEF InitializeCall
    <2> QED
      BY <1>1, <2>1, <2>2 DEF OwnsVault, OraclesKnown, CountersFull, InitializeAccepts
  <1>2. ASSUME NEW now, NEW h, NEW call \in SetupCall, SetupAccepts(esc, now, h, call)
        PROVE  EscrowInv(e, SetupWrites(esc, call))
    <2> DEFINE new == SetupWrites(esc, call)
    <2>1. new.state = "Pending" /\ esc.state = "Launched"
      BY <1>2 DEF SetupWrites, EscrowRecords, SetupAccepts, StateCheck
    <2>2. OwnsVault(e, new)
      BY <1>2, <2>1 DEF SetupWrites, EscrowRecords, OwnsVault
    <2>3. OraclesKnown(new)
      BY <1>2 DEF SetupWrites, EscrowRecords, OraclesKnown, SetupAccepts, SetupCall
    <2>4. CountersFull(new)
      BY <2>1 DEF CountersFull
    <2> QED BY <2>2, <2>3, <2>4
  <1>3. ASSUME NEW now, NEW h, NEW r, StoreResultsAccepts(esc, now, h)
        PROVE  EscrowInv(e, StoreResultsWrites(esc, r))
    BY <1>3 DEF StoreResultsWrites, EscrowRecords, OwnsVault, OraclesKnown, CountersFull
  <1>4. ASSUME NEW now, NEW h, NEW call, StoreAmountsAccepts(esc, now, h)
        PROVE  EscrowInv(e, StoreAmountsWrites(esc, call))
    <2> DEFINE new == StoreAmountsWrites(esc, call)
    <2>1. esc.state \in Unsettled /\ new.state = esc.state
      BY <1>4 DEF StoreAmountsAccepts, StateCheck, StoreAmountsWrites, EscrowRecords
    <2>2. OwnsVault(e, new) /\ OraclesKnown(new)
      BY <1>4 DEF StoreAmountsWrites, EscrowRecords, OwnsVault, OraclesKnown
    <2> QED BY <2>1, <2>2 DEF CountersFull
  <1>5. ASSUME NEW ledger, NEW now, NEW h, NEW call, PayoutAccepts(e, esc, ledger, now, h, call)
        PROVE  EscrowInv(e, PayoutWrites(esc, call.amount))
    <2> DEFINE new == PayoutWrites(esc, call.amount)
    <2>1. esc.state \in Unsettled
      BY <1>5 DEF PayoutAccepts, StateCheck
    <2>2. OwnsVault(e, new) /\ OraclesKnown(new)
      BY <1>5, <2>1 DEF PayoutWrites, EscrowRecords, OwnsVault, OraclesKnown
    <2>3. CountersFull(new)
      BY <1>5 DEF PayoutWrites, EscrowRecords, CountersFull
    <2> QED BY <2>2, <2>3
  <1>6. ASSUME NEW ledger, NEW h, NEW call, CancelAccepts(e, esc, ledger, h, call)
        PROVE  EscrowInv(e, CancelWrites(esc))
    BY <1>6 DEF CancelAccepts, CancelWrites, EscrowRecords, OwnsVault, OraclesKnown, CountersFull
  <1>7. ASSUME NEW now, NEW h, CompleteAccepts(esc, now, h)
        PROVE  EscrowInv(e, CompleteWrites(esc))
    BY <1>7 DEF CompleteAccepts, StateCheck, CompleteWrites, EscrowRecords, OwnsVault,
                OraclesKnown, CountersFull
  <1> QED
    BY <1>1, <1>2, <1>3, <1>4, <1>5, <1>6, <1>7

LEMMA StepKeepsEscrowInv ==
  ASSUME TypeOK, NEW e \in Escrows, EscrowInv(e, escrow[e]), StepOf(e)
  PROVE  EscrowInv(e, escrow'[e])
  <1> DEFINE Kept(new) == EscrowInv(e, new)
  <1>1. escrow[e] \in EscrowRecords /\ Kept(escrow[e])
    BY DEF TypeOK
  <1>2. /\ \A v : \A call \in InitializeCall :
             InitializeAccepts(e, escrow[e], v, call) => Kept(InitializeWrites(clock, call))
        /\ \A h : \A call \in SetupCall :
             SetupAccepts(escrow[e], clock, h, call) => Kept(SetupWrites(escrow[e], call))
        /\ \A h, r : StoreResultsAccepts(escrow[e], clock, h) =>
                        Kept(StoreResultsWrites(escrow[e], r))
        /\ \A h, call : StoreAmountsAccepts(escrow[e], clock, h) =>
                           Kept(StoreAmountsWrites(escrow[e], call))
        /\ \A h, call : PayoutAccepts(e, escrow[e], balance, clock, h, call) =>
                           Kept(PayoutWrites(escrow[e], call.amount))
        /\ \A h, call : CancelAccepts(e, escrow[e], balance, h, call) =>
                           Kept(CancelWrites(escrow[e]))
        /\ \A h : CompleteAccepts(escrow[e], clock, h) => Kept(CompleteWrites(escrow[e]))
    BY <1>1, InstructionsKeepEscrowInv
  <1> HIDE DEF Kept
  <1>3. Kept(escrow'[e])
    BY <1>1, <1>2, CallsAssumption DEF StepOf
  <1> QED BY <1>3 DEF Kept

(* The invariant is inductive.                                                 *)
THEOREM Inductive == Spec => []IInv
  <1>1. Init => \A e \in Escrows : EscrowInv(e, escrow[e])
    BY DEF Init, EscrowInv, OwnsVault, OraclesKnown, CountersFull, BlankEscrow,
           EscrowInitialized, Unsettled, Settled
  <1>2. /\ TypeOK
        /\ \A e \in Escrows : EscrowInv(e, escrow[e])
        /\ [Next]_vars
        => (\A e \in Escrows : EscrowInv(e, escrow[e]))'
    BY EveryStep, StepKeepsEscrowInv
  <1> QED BY <1>1, <1>2, TypeCorrect, PTL DEF Spec, IInv

(* Payouts rest on what Setup established (see OraclesFixedBySetup).            *)
THEOREM OraclesStayFixed == Spec => []OraclesFixedBySetup
  <1>1. IInv => OraclesFixedBySetup
    BY DEF IInv, EscrowInv, OraclesKnown, OraclesFixedBySetup
  <1> QED BY <1>1, Inductive, PTL

(* Paid and Complete mean paid in full (see SettledInFull).                     *)
THEOREM SettlementIsFull == Spec => []SettledInFull
  <1>1. IInv => SettledInFull
    BY DEF IInv, EscrowInv, CountersFull, SettledInFull
  <1> QED BY <1>1, Inductive, PTL

(* No two escrows pay from one vault (see VaultsNeverShared): the authority of   *)
(* an escrow is a function of its key, and one-to-one.                           *)
THEOREM VaultsStayDisjoint == Spec => []VaultsNeverShared
  <1>1. IInv => VaultsNeverShared
    BY AuthorityAssumption DEF IInv, EscrowInv, OwnsVault, VaultsNeverShared, Known, Vault
  <1> QED BY <1>1, Inductive, PTL
=============================================================================
