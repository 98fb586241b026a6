-------------------------- MODULE EscrowHistoryProofs --------------------------
(****************************************************************************)
(* The counters, the fees and the signatures of EscrowHistory, proved for every  *)
(* word size and every choice of calls; and, at the end, that the program          *)
(* implements JobSettlement: initial states map to initial states, and each        *)
(* instruction to the step of one job, or to a deposit.                            *)
(****************************************************************************)
EXTENDS EscrowHistory, EscrowLedgerProofs, FoldLemmas

-----------------------------------------------------------------------------
(* The bookkeeper never steers the program: every run of EscrowHistory is a run  *)
(* of EscrowProgram, so what is proved of Spec holds of HSpec.                   *)
THEOREM HistoryIsOnlyHistory == HSpec => Spec
  <1>1. HInit => Init
    BY DEF HInit
  <1>2. [HNext]_hvars => [Next]_vars
    BY DEF HNext, hvars, Next, HTick, HWalletTransfer, HFactoryInitialize, HInitialize,
           HSetup, HStoreResults, HStoreFinalAmounts, HPayout, HCancel, HComplete
  <1> QED BY <1>1, <1>2, PTL DEF HSpec, Spec

-----------------------------------------------------------------------------
(* What one step can do to one escrow and its book: StepOf with the entries.    *)
HStepOf(e) ==
  \/ escrow'[e] = escrow[e] /\ hist'[e] = hist[e]
  \/ \E call \in InitializeCalls :
       /\ InitializeAccepts(e, escrow[e], version[call.factory], call)
       /\ escrow'[e] = InitializeWrites(clock, call)
       /\ hist'[e] = hist[e]
  \/ \E h \in Signers, call \in SetupCalls :
       /\ SetupAccepts(escrow[e], clock, h, call)
       /\ escrow'[e] = SetupWrites(escrow[e], call)
       /\ hist'[e] = SignedBook(hist[e], h)
  \/ \E h \in Signers, r \in Results :
       /\ StoreResultsAccepts(escrow[e], clock, h)
       /\ escrow'[e] = StoreResultsWrites(escrow[e], r)
       /\ hist'[e] = SignedBook(hist[e], h)
  \/ \E h \in Signers, call \in AmountsCalls :
       /\ StoreAmountsAccepts(escrow[e], clock, h)
       /\ escrow'[e] = StoreAmountsWrites(escrow[e], call)
       /\ hist'[e] = SignedBook(hist[e], h)
  \/ \E h \in Signers, call \in PayoutCalls :
       /\ PayoutAccepts(e, escrow[e], balance, clock, h, call)
       /\ escrow'[e] = PayoutWrites(escrow[e], call.amount)
       /\ hist'[e] = PayoutBook(escrow[e], hist[e], h, call.amount)
  \/ \E h \in Signers, call \in CancelCalls :
       /\ CancelAccepts(e, escrow[e], balance, h, call)
       /\ escrow'[e] = CancelWrites(escrow[e])
       /\ hist'[e] = CancelBook(hist[e], h, balance[call.token_account])
  \/ \E h \in Signers :
       /\ CompleteAccepts(escrow[e], clock, h)
       /\ escrow'[e] = CompleteWrites(escrow[e])
       /\ hist'[e] = SignedBook(hist[e], h)

LEMMA EveryHStep ==
  ASSUME TypeOK, hist \in [Escrows -> Histories], [HNext]_hvars, NEW e \in Escrows
  PROVE  HStepOf(e)
  <1> USE DEF TypeOK
  <1>1. CASE UNCHANGED <<escrow, hist>>
    BY <1>1 DEF HStepOf
  <1>2. ASSUME NEW f \in Escrows, NEW call \in InitializeCalls, HInitialize(f, call)
        PROVE  HStepOf(e)
    BY <1>2 DEF HStepOf, HInitialize, Initialize
  <1>3. ASSUME NEW f \in Escrows, NEW h \in Signers, NEW call \in SetupCalls,
               HSetup(f, h, call)
        PROVE  HStepOf(e)
    BY <1>3 DEF HStepOf, HSetup, Setup, Signed
  <1>4. ASSUME NEW f \in Escrows, NEW h \in Signers, NEW r \in Results,
               HStoreResults(f, h, r)
        PROVE  HStepOf(e)
    BY <1>4 DEF HStepOf, HStoreResults, StoreResults, Signed
  <1>5. ASSUME NEW f \in Escrows, NEW h \in Signers, NEW call \in AmountsCalls,
               HStoreFinalAmounts(f, h, call)
        PROVE  HStepOf(e)
    BY <1>5 DEF HStepOf, HStoreFinalAmounts, StoreFinalAmounts, Signed
  <1>6. ASSUME NEW f \in Escrows, NEW h \in Signers, NEW call \in PayoutCalls,
               HPayout(f, h, call)
        PROVE  HStepOf(e)
    BY <1>6 DEF HStepOf, HPayout, Payout
  <1>7. ASSUME NEW f \in Escrows, NEW h \in Signers, NEW call \in CancelCalls,
               HCancel(f, h, call)
        PROVE  HStepOf(e)
    BY <1>7 DEF HStepOf, HCancel, Cancel
  <1>8. ASSUME NEW f \in Escrows, NEW h \in Signers, HComplete(f, h)
        PROVE  HStepOf(e)
    BY <1>8 DEF HStepOf, HComplete, Complete, Signed
  <1>9. CASE HTick \/ (\E t \in WalletTransfers : HWalletTransfer(t))
             \/ (\E f \in Factories, v \in FactoryVersions : HFactoryInitialize(f, v))
             \/ UNCHANGED hvars
    BY <1>1, <1>9 DEF HTick, Tick, HWalletTransfer, WalletTransfer, HFactoryInitialize,
                      FactoryInitialize, hvars, vars
  <1> QED
    BY <1>2, <1>3, <1>4, <1>5, <1>6, <1>7, <1>8, <1>9 DEF HNext

-----------------------------------------------------------------------------
(* The inductive invariant, part by part.  Counters, fees and signatures are     *)
(* inductive only together with what the early states exclude: no payout before  *)
(* Setup fixed the stakes, no signature before Initialize named the handlers, no *)
(* oracle before Setup.                                                         *)
Out(h) == h.recipients + h.reputation + h.recording

Counts(esc, h) ==
  /\ esc.sent_amount = Out(h) % U64
  /\ esc.sent_recipients = h.payouts % U64

Fees(esc, h) ==
  /\ 100 * h.reputation <= esc.reputation_oracle_stake * Out(h)
  /\ 100 * h.recording <= esc.recording_oracle_stake * Out(h)

Untouched(h) == Out(h) = 0 /\ h.reputation = 0 /\ h.recording = 0 /\ h.payouts = 0

Early(esc, h) ==
  /\ esc.state \in {"Uninitialized", "Launched", "Pending"} => Untouched(h)
  /\ esc.state \in {"Uninitialized", "Launched"} =>
       esc.reputation_oracle = NoKey /\ esc.recording_oracle = NoKey
  /\ esc.state = "Uninitialized" => h.signers = {}

Refunds(esc, h) ==
  /\ h.cancels > 0 <=> esc.state = "Cancelled"
  /\ h.refunded > 0 => h.cancels > 0

Signatures(esc, h) == h.signers \subseteq TrustedKeys(esc) \ {NoKey}

BookInv(esc, h) ==
  /\ h \in Histories
  /\ Counts(esc, h)
  /\ Fees(esc, h)
  /\ Early(esc, h)
  /\ Refunds(esc, h)
  /\ Signatures(esc, h)

(* A trusted handler that signed is one of the keys of the escrow, never NoKey.  *)
LEMMA HandlerIsTrusted ==
  ASSUME NEW esc, NEW handler \in Signers, TrustedHandler(esc, handler)
  PROVE  /\ SignerOf(handler) \in TrustedKeys(esc) \ {NoKey}
         /\ SignerOf(handler) \in Keys \cup {NoKey}
  BY CallsAssumption, DefaultsAssumption DEF TrustedHandler, SignerOf, Handlers

(* A signature alone disturbs nothing but the signers.                           *)
LEMMA SignedBookEffect ==
  ASSUME NEW h \in Histories, NEW handler \in Signers
  PROVE  LET g == SignedBook(h, handler)
         IN  /\ g \in Histories
             /\ g.recipients = h.recipients /\ g.reputation = h.reputation
             /\ g.recording = h.recording /\ g.refunded = h.refunded
             /\ g.payouts = h.payouts /\ g.cancels = h.cancels
             /\ g.signers = h.signers \cup {SignerOf(handler)}
  <1>1. SignerOf(handler) \in Keys \cup {NoKey}
    BY CallsAssumption DEF SignerOf, Handlers
  <1> HIDE DEF SignerOf
  <1> QED BY <1>1 DEF SignedBook, Histories

(* An instruction that leaves the counters, the oracles and their stakes alone    *)
(* and does not cancel keeps the book in order when it only adds a signature.     *)
LEMMA SignedStep ==
  ASSUME NEW esc \in EscrowRecords, NEW new \in EscrowRecords, NEW h, NEW handler \in Signers,
         BookInv(esc, h), TrustedHandler(esc, handler),
         new.sent_amount = esc.sent_amount, new.sent_recipients = esc.sent_recipients,
         new.reputation_oracle_stake = esc.reputation_oracle_stake,
         new.recording_oracle_stake = esc.recording_oracle_stake,
         TrustedKeys(new) = TrustedKeys(esc),
         esc.state \notin {"Uninitialized", "Launched", "Cancelled"},
         new.state = esc.state \/ (esc.state = "Paid" /\ new.state = "Complete")
  PROVE  BookInv(new, SignedBook(h, handler))
  <1> DEFINE g == SignedBook(h, handler)
  <1>1. /\ g \in Histories
        /\ g.recipients = h.recipients /\ g.reputation = h.reputation
        /\ g.recording = h.recording /\ g.refunded = h.refunded
        /\ g.payouts = h.payouts /\ g.cancels = h.cancels
        /\ g.signers = h.signers \cup {SignerOf(handler)}
    BY SignedBookEffect DEF BookInv
  <1>2. SignerOf(handler) \in TrustedKeys(esc) \ {NoKey}
    BY HandlerIsTrusted
  <1> HIDE DEF g
  <1>3. Out(g) = Out(h)
    BY <1>1 DEF Out
  <1>4. Counts(new, g) /\ Fees(new, g)
    BY <1>1, <1>3 DEF BookInv, Counts, Fees
  <1>5. Early(new, g)
    BY <1>1, <1>3 DEF BookInv, Early, Untouched
  <1>6. Refunds(new, g)
    BY <1>1 DEF BookInv, Refunds
  <1>7. Signatures(new, g)
    BY <1>1, <1>2 DEF BookInv, Signatures
  <1> QED BY <1>1, <1>4, <1>5, <1>6, <1>7 DEF BookInv, g

(* Setup fixes stakes and oracles while the book is still empty.                  *)
LEMMA SetupStep ==
  ASSUME NEW esc \in EscrowRecords, NEW h, NEW handler \in Signers, NEW call \in SetupCalls,
         BookInv(esc, h), SetupAccepts(esc, clock, handler, call)
  PROVE  BookInv(SetupWrites(esc, call), SignedBook(h, handler))
  <1> DEFINE g == SignedBook(h, handler)
             new == SetupWrites(esc, call)
  <1>1. /\ g \in Histories
        /\ g.recipients = h.recipients /\ g.reputation = h.reputation
        /\ g.recording = h.recording /\ g.refunded = h.refunded
        /\ g.payouts = h.payouts /\ g.cancels = h.cancels
        /\ g.signers = h.signers \cup {SignerOf(handler)}
    BY SignedBookEffect DEF BookInv
  <1>2. esc.state = "Launched" /\ TrustedHandler(esc, handler)
    BY DEF SetupAccepts, StateCheck
  <1>3. SignerOf(handler) \in TrustedKeys(esc) \ {NoKey}
    BY <1>2, HandlerIsTrusted
  <1>4. /\ new.state = "Pending"
        /\ new.sent_amount = esc.sent_amount /\ new.sent_recipients = esc.sent_recipients
        /\ new.launcher = esc.launcher /\ new.canceler = esc.canceler
        /\ new.reputation_oracle_stake \in Percents
        /\ new.recording_oracle_stake \in Percents
    BY CallsAssumption DEF SetupWrites, EscrowRecords, SetupCall
  <1>5. Untouched(h) /\ esc.reputation_oracle = NoKey /\ esc.recording_oracle = NoKey
    BY <1>2 DEF BookInv, Early
  <1> HIDE DEF g, new
  <1>6. Out(g) = Out(h)
    BY <1>1 DEF Out
  <1>7. Counts(new, g)
    BY <1>1, <1>4, <1>6 DEF BookInv, Counts
  <1>8. Fees(new, g)
    BY <1>1, <1>4, <1>5, <1>6 DEF Fees, Untouched, Percents
  <1>9. Early(new, g)
    BY <1>1, <1>4, <1>5, <1>6 DEF Early, Untouched
  <1>10. Refunds(new, g)
    BY <1>1, <1>2, <1>4 DEF BookInv, Refunds
  <1>11. Signatures(new, g)
    BY <1>1, <1>3, <1>4, <1>5 DEF BookInv, Signatures, TrustedKeys
  <1> QED BY <1>1, <1>7, <1>8, <1>9, <1>10, <1>11 DEF BookInv, g, new

(* A percentage of a sum is the sum of the percentages; a fee stays below its      *)
(* percentage of one amount (FeeBounds), hence of all of them.                     *)
LEMMA FeeAccumulates ==
  ASSUME NEW fee \in Nat, NEW out \in Nat, NEW amount \in Amounts, NEW stake \in 0 .. 100,
         100 * fee <= stake * out
  PROVE  100 * (fee + Fee(amount, stake)) <= stake * (out + amount)
  <1> DEFINE f == Fee(amount, stake)
             x == stake * out
             y == stake * amount
  <1>1. f \in Nat /\ 100 * f <= y /\ x \in Nat /\ y \in Nat
    BY FeeBounds DEF Amounts
  <1>2. stake * (out + amount) = x + y
    BY DEF Amounts
  <1>3. 100 * fee <= x
    OBVIOUS
  <1> HIDE DEF f, x, y
  <1>4. 100 * (fee + f) <= x + y
    BY <1>1, <1>3
  <1> QED BY <1>2, <1>4 DEF f

(* A payout counts exactly what the three shares move.                             *)
LEMMA PayoutStep ==
  ASSUME NEW esc \in EscrowRecords, NEW h, NEW handler \in Signers, NEW amount \in Amounts,
         BookInv(esc, h), OraclesKnown(esc), esc.state \in Unsettled,
         TrustedHandler(esc, handler)
  PROVE  BookInv(PayoutWrites(esc, amount), PayoutBook(esc, h, handler, amount))
  <1> DEFINE g == PayoutBook(esc, h, handler, amount)
             new == PayoutWrites(esc, amount)
             r == esc.reputation_oracle_stake
             s == esc.recording_oracle_stake
             x == RecipientShare(esc, amount)
             y == ReputationFee(esc, amount)
             z == RecordingFee(esc, amount)
             signer == SignerOf(handler)
  <1>1. r \in Percents /\ s \in Percents /\ r + s \in 1 .. 100
    BY DEF EscrowRecords, OraclesKnown
  <1>2. x \in Nat /\ y \in Nat /\ z \in Nat
    BY <1>1, ShareTypes DEF RecipientShare, ReputationFee, RecordingFee, Amounts
  <1> HIDE DEF r, s
  <1>3. r \in 0 .. 100 /\ s \in 0 .. 100 /\ r + s <= 100
    BY <1>1 DEF Percents
  <1>4. x + y + z = amount
    BY <1>3, SharesAddUp DEF RecipientShare, ReputationFee, RecordingFee, r, s
  <1>5. signer \in TrustedKeys(esc) \ {NoKey} /\ signer \in Keys \cup {NoKey}
    BY HandlerIsTrusted
  <1>6. h \in Histories
    BY DEF BookInv
  <1>7. g = [h EXCEPT !.recipients = @ + x, !.reputation = @ + y, !.recording = @ + z,
                      !.payouts = @ + 1, !.signers = @ \cup {signer}]
    BY DEF PayoutBook
  <1> HIDE DEF g, x, y, z, signer
  <1>8. /\ g.recipients = h.recipients + x /\ g.reputation = h.reputation + y
        /\ g.recording = h.recording + z /\ g.payouts = h.payouts + 1
        /\ g.refunded = h.refunded /\ g.cancels = h.cancels
        /\ g.signers = h.signers \cup {signer}
        /\ g \in Histories
    <2> DEFINE n1 == h.recipients + x
               n2 == h.reputation + y
               n3 == h.recording + z
               n4 == h.payouts + 1
               keys == h.signers \cup {signer}
    <2>1. n1 \in Nat /\ n2 \in Nat /\ n3 \in Nat /\ n4 \in Nat /\ keys \in SUBSET (Keys \cup {NoKey})
      BY <1>2, <1>5, <1>6 DEF Histories
    <2>2. g = [h EXCEPT !.recipients = n1, !.reputation = n2, !.recording = n3,
                        !.payouts = n4, !.signers = keys]
      BY <1>7
    <2> HIDE DEF n1, n2, n3, n4, keys
    <2>3. g \in Histories
      BY <1>6, <2>1, <2>2 DEF Histories
    <2>4. /\ g.recipients = n1 /\ g.reputation = n2 /\ g.recording = n3 /\ g.payouts = n4
          /\ g.refunded = h.refunded /\ g.cancels = h.cancels /\ g.signers = keys
      BY <1>6, <2>2 DEF Histories
    <2> QED BY <2>3, <2>4 DEF n1, n2, n3, n4, keys
  <1>9. /\ h.recipients \in Nat /\ h.reputation \in Nat /\ h.recording \in Nat
        /\ h.payouts \in Nat
    BY <1>6 DEF Histories
  <1>10. Out(g) = Out(h) + amount /\ Out(h) \in Nat
    BY <1>2, <1>4, <1>8, <1>9 DEF Out, Amounts
  <1>11. /\ new.sent_amount = WrapAdd(esc.sent_amount, amount)
         /\ new.sent_recipients = WrapAdd(esc.sent_recipients, 1)
         /\ new.state \in {"Paid", "Partial"}
         /\ new.reputation_oracle_stake = r /\ new.recording_oracle_stake = s
         /\ TrustedKeys(new) = TrustedKeys(esc)
    BY DEF PayoutWrites, EscrowRecords, TrustedKeys, r, s
  <1> HIDE DEF new
  <1>12. Counts(new, g)
    <2>1. 1 \in Amounts
      BY I64Assumption DEF Amounts, U64
    <2>2. WrapAdd(Out(h) % U64, amount) = (Out(h) + amount) % U64
      BY <1>10, WrapAddIsModular
    <2>3. WrapAdd(h.payouts % U64, 1) = (h.payouts + 1) % U64
      BY <1>9, <2>1, WrapAddIsModular
    <2> QED BY <1>8, <1>10, <1>11, <2>2, <2>3 DEF BookInv, Counts
  <1>13. Fees(new, g)
    <2>1. 100 * h.reputation <= r * Out(h) /\ 100 * h.recording <= s * Out(h)
      BY DEF BookInv, Fees, r, s
    <2>2. y = Fee(amount, r) /\ z = Fee(amount, s)
      BY DEF y, z, ReputationFee, RecordingFee, r, s
    <2>3. 100 * (h.reputation + y) <= r * (Out(h) + amount)
      BY <1>3, <1>9, <1>10, <2>1, <2>2, FeeAccumulates
    <2>4. 100 * (h.recording + z) <= s * (Out(h) + amount)
      BY <1>3, <1>9, <1>10, <2>1, <2>2, FeeAccumulates
    <2> QED BY <1>8, <1>10, <1>11, <2>3, <2>4 DEF Fees
  <1>14. Early(new, g)
    BY <1>11 DEF Early
  <1>15. Refunds(new, g)
    BY <1>8, <1>11 DEF BookInv, Refunds, Unsettled
  <1>16. Signatures(new, g)
    BY <1>5, <1>8, <1>11 DEF BookInv, Signatures
  <1> QED BY <1>8, <1>12, <1>13, <1>14, <1>15, <1>16 DEF BookInv, g, new

(* A refund opens no other account in the book.                                    *)
LEMMA CancelStep ==
  ASSUME NEW esc \in EscrowRecords, NEW h, NEW handler \in Signers, NEW n \in Nat,
         BookInv(esc, h), TrustedHandler(esc, handler)
  PROVE  BookInv(CancelWrites(esc), CancelBook(h, handler, n))
  <1> DEFINE g == CancelBook(h, handler, n)
             new == CancelWrites(esc)
             signer == SignerOf(handler)
  <1>1. signer \in TrustedKeys(esc) \ {NoKey} /\ signer \in Keys \cup {NoKey}
    BY HandlerIsTrusted
  <1>2. h \in Histories
    BY DEF BookInv
  <1>3. g = [h EXCEPT !.refunded = @ + n, !.cancels = @ + 1, !.signers = @ \cup {signer}]
    BY DEF CancelBook
  <1> HIDE DEF g, signer
  <1>4. /\ g.recipients = h.recipients /\ g.reputation = h.reputation
        /\ g.recording = h.recording /\ g.payouts = h.payouts
        /\ g.cancels = h.cancels + 1 /\ h.cancels \in Nat
        /\ g.signers = h.signers \cup {signer}
        /\ g \in Histories
    <2> DEFINE n1 == h.refunded + n
               n2 == h.cancels + 1
               keys == h.signers \cup {signer}
    <2>1. n1 \in Nat /\ n2 \in Nat /\ h.cancels \in Nat /\ keys \in SUBSET (Keys \cup {NoKey})
      BY <1>1, <1>2 DEF Histories
    <2>2. g = [h EXCEPT !.refunded = n1, !.cancels = n2, !.signers = keys]
      BY <1>3
    <2> HIDE DEF n1, n2, keys
    <2>3. g \in Histories
      BY <1>2, <2>1, <2>2 DEF Histories
    <2>4. /\ g.recipients = h.recipients /\ g.reputation = h.reputation
          /\ g.recording = h.recording /\ g.payouts = h.payouts
          /\ g.cancels = n2 /\ g.signers = keys
      BY <1>2, <2>2 DEF Histories
    <2> QED BY <2>1, <2>3, <2>4 DEF n2, keys
  <1>5. /\ new.sent_amount = esc.sent_amount /\ new.sent_recipients = esc.sent_recipients
        /\ new.state = "Cancelled"
        /\ new.reputation_oracle_stake = esc.reputation_oracle_stake
        /\ new.recording_oracle_stake = esc.recording_oracle_stake
        /\ TrustedKeys(new) = TrustedKeys(esc)
    BY DEF CancelWrites, EscrowRecords, TrustedKeys
  <1> HIDE DEF new
  <1>6. Out(g) = Out(h)
    BY <1>4 DEF Out
  <1>7. Counts(new, g) /\ Fees(new, g)
    BY <1>4, <1>5, <1>6 DEF BookInv, Counts, Fees
  <1>8. Early(new, g)
    BY <1>5 DEF Early
  <1>9. Refunds(new, g)
    BY <1>4, <1>5 DEF Refunds
  <1>10. Signatures(new, g)
    BY <1>1, <1>4, <1>5 DEF BookInv, Signatures
  <1> QED BY <1>4, <1>7, <1>8, <1>9, <1>10 DEF BookInv, g, new

(* A new escrow starts with an empty book.                                         *)
LEMMA InitializeStep ==
  ASSUME NEW e, NEW esc \in EscrowRecords, NEW h, NEW v, NEW call \in InitializeCalls,
         BookInv(esc, h), InitializeAccepts(e, esc, v, call)
  PROVE  BookInv(InitializeWrites(clock, call), h)
  <1> DEFINE new == InitializeWrites(clock, call)
  <1>1. esc.state = "Uninitialized"
    BY DEF InitializeAccepts, EscrowInitialized
  <1>2. Untouched(h) /\ h.signers = {} /\ h \in Histories
    BY <1>1 DEF BookInv, Early
  <1>3. /\ new.sent_amount = 0 /\ new.sent_recipients = 0 /\ new.state = "Launched"
        /\ new.reputation_oracle = NoKey /\ new.recording_oracle = NoKey
        /\ new.reputation_oracle_stake = 0 /\ new.recording_oracle_stake = 0
    BY DEF InitializeWrites, BlankEscrow
  <1> HIDE DEF new
  <1>4. Counts(new, h)
    BY <1>2, <1>3, I64Assumption DEF Counts, Untouched, U64
  <1>5. Fees(new, h)
    BY <1>2, <1>3 DEF Fees, Untouched
  <1>6. Early(new, h)
    BY <1>2, <1>3 DEF Early
  <1>7. Refunds(new, h)
    BY <1>1, <1>3 DEF BookInv, Refunds
  <1>8. Signatures(new, h)
    BY <1>2 DEF Signatures
  <1> QED BY <1>2, <1>4, <1>5, <1>6, <1>7, <1>8 DEF BookInv, new

-----------------------------------------------------------------------------
HIInv == IInv /\ hist \in [Escrows -> Histories] /\ \A e \in Escrows : BookInv(escrow[e], hist[e])

LEMMA HStepKeepsBook ==
  ASSUME TypeOK, TypeOK', hist \in [Escrows -> Histories], NEW e \in Escrows,
         EscrowInv(e, escrow[e]), BookInv(escrow[e], hist[e]), HStepOf(e)
  PROVE  BookInv(escrow'[e], hist'[e])
  <1>0. escrow[e] \in EscrowRecords /\ escrow'[e] \in EscrowRecords /\ balance \in Ledgers
    BY DEF TypeOK
  <1>1. CASE escrow'[e] = escrow[e] /\ hist'[e] = hist[e]
    BY <1>1
  <1>2. ASSUME NEW call \in InitializeCalls,
               InitializeAccepts(e, escrow[e], version[call.factory], call),
               escrow'[e] = InitializeWrites(clock, call), hist'[e] = hist[e]
        PROVE  BookInv(escrow'[e], hist'[e])
    BY <1>0, <1>2, InitializeStep
  <1>3. ASSUME NEW h \in Signers, NEW call \in SetupCalls,
               SetupAccepts(escrow[e], clock, h, call),
               escrow'[e] = SetupWrites(escrow[e], call), hist'[e] = SignedBook(hist[e], h)
        PROVE  BookInv(escrow'[e], hist'[e])
    BY <1>0, <1>3, SetupStep
  <1>4. ASSUME NEW h \in Signers, NEW r \in Results,
               StoreResultsAccepts(escrow[e], clock, h),
               escrow'[e] = StoreResultsWrites(escrow[e], r), hist'[e] = SignedBook(hist[e], h)
        PROVE  BookInv(escrow'[e], hist'[e])
    <2>1. escrow[e].state \in {"Pending", "Partial"} /\ TrustedHandler(escrow[e], h)
      BY <1>4 DEF StoreResultsAccepts, StateCheck
    <2>2. /\ escrow'[e].sent_amount = escrow[e].sent_amount
          /\ escrow'[e].sent_recipients = escrow[e].sent_recipients
          /\ escrow'[e].reputation_oracle_stake = escrow[e].reputation_oracle_stake
          /\ escrow'[e].recording_oracle_stake = escrow[e].recording_oracle_stake
          /\ TrustedKeys(escrow'[e]) = TrustedKeys(escrow[e])
          /\ escrow'[e].state = escrow[e].state
      BY <1>0, <1>4 DEF StoreResultsWrites, EscrowRecords, TrustedKeys
    <2> QED BY <1>0, <1>4, <2>1, <2>2, SignedStep
  <1>5. ASSUME NEW h \in Signers, NEW call \in AmountsCalls,
               StoreAmountsAccepts(escrow[e], clock, h),
               escrow'[e] = StoreAmountsWrites(escrow[e], call), hist'[e] = SignedBook(hist[e], h)
        PROVE  BookInv(escrow'[e], hist'[e])
    <2>1. escrow[e].state \in {"Pending", "Partial"} /\ TrustedHandler(escrow[e], h)
      BY <1>5 DEF StoreAmountsAccepts, StateCheck
    <2>2. /\ escrow'[e].sent_amount = escrow[e].sent_amount
          /\ escrow'[e].sent_recipients = escrow[e].sent_recipients
          /\ escrow'[e].reputation_oracle_stake = escrow[e].reputation_oracle_stake
          /\ escrow'[e].recording_oracle_stake = escrow[e].recording_oracle_stake
          /\ TrustedKeys(escrow'[e]) = TrustedKeys(escrow[e])
          /\ escrow'[e].state = escrow[e].state
      BY <1>0, <1>5 DEF StoreAmountsWrites, EscrowRecords, TrustedKeys
    <2> QED BY <1>0, <1>5, <2>1, <2>2, SignedStep
  <1>6. ASSUME NEW h \in Signers, NEW call \in PayoutCalls,
               PayoutAccepts(e, escrow[e], balance, clock, h, call),
               escrow'[e] = PayoutWrites(escrow[e], call.amount),
               hist'[e] = PayoutBook(escrow[e], hist[e], h, call.amount)
        PROVE  BookInv(escrow'[e], hist'[e])
    <2>1. escrow[e].state \in Unsettled /\ TrustedHandler(escrow[e], h)
      BY <1>6 DEF PayoutAccepts, StateCheck, Unsettled
    <2>2. call.amount \in Amounts /\ OraclesKnown(escrow[e])
      BY CallsAssumption DEF PayoutCall, EscrowInv
    <2> QED BY <1>0, <1>6, <2>1, <2>2, PayoutStep
  <1>7. ASSUME NEW h \in Signers, NEW call \in CancelCalls,
               CancelAccepts(e, escrow[e], balance, h, call),
               escrow'[e] = CancelWrites(escrow[e]),
               hist'[e] = CancelBook(hist[e], h, balance[call.token_account])
        PROVE  BookInv(escrow'[e], hist'[e])
    <2>1. TrustedHandler(escrow[e], h)
      BY <1>7 DEF CancelAccepts
    <2>2. balance[call.token_account] \in Nat
      BY <1>0, CallsAssumption DEF CancelCall, Ledgers, Amounts
    <2> QED BY <1>0, <1>7, <2>1, <2>2, CancelStep
  <1>8. ASSUME NEW h \in Signers, CompleteAccepts(escrow[e], clock, h),
               escrow'[e] = CompleteWrites(escrow[e]), hist'[e] = SignedBook(hist[e], h)
        PROVE  BookInv(escrow'[e], hist'[e])
    <2>1. escrow[e].state = "Paid" /\ TrustedHandler(escrow[e], h)
      BY <1>8 DEF CompleteAccepts, StateCheck
    <2>2. /\ escrow'[e].sent_amount = escrow[e].sent_amount
          /\ escrow'[e].sent_recipients = escrow[e].sent_recipients
          /\ escrow'[e].reputation_oracle_stake = escrow[e].reputation_oracle_stake
          /\ escrow'[e].recording_oracle_stake = escrow[e].recording_oracle_stake
          /\ TrustedKeys(escrow'[e]) = TrustedKeys(escrow[e])
          /\ escrow'[e].state = "Complete"
      BY <1>0, <1>8 DEF CompleteWrites, EscrowRecords, TrustedKeys
    <2> QED BY <1>0, <1>8, <2>1, <2>2, SignedStep
  <1> QED
    BY <1>1, <1>2, <1>3, <1>4, <1>5, <1>6, <1>7, <1>8 DEF HStepOf

(* hist is only ever updated at one escrow, by a book.                            *)
LEMMA HistStaysAFunction ==
  ASSUME hist \in [Escrows -> Histories], [HNext]_hvars
  PROVE  DOMAIN hist' = Escrows /\ hist' = [e \in Escrows |-> hist'[e]]
  BY DEF HNext, hvars, HTick, HWalletTransfer, HFactoryInitialize, HInitialize, HSetup,
         HStoreResults, HStoreFinalAmounts, HPayout, HCancel, HComplete, Signed

THEOREM BookInductive == HSpec => []HIInv
  <1>1. HInit => hist \in [Escrows -> Histories] /\ \A e \in Escrows : BookInv(escrow[e], hist[e])
    <2> SUFFICES ASSUME HInit
                 PROVE  hist \in [Escrows -> Histories] /\ \A e \in Escrows : BookInv(escrow[e], hist[e])
      OBVIOUS
    <2>1. NoHistory \in Histories
      BY DEF NoHistory, Histories
    <2>2. BookInv(BlankEscrow, NoHistory)
      BY <2>1, I64Assumption
         DEF BookInv, Counts, Fees, Early, Refunds, Signatures, Untouched, Out, BlankEscrow, NoHistory, U64
    <2> QED BY <2>1, <2>2 DEF HInit, Init
  <1>2. ASSUME IInv, TypeOK', hist \in [Escrows -> Histories],
               \A e \in Escrows : BookInv(escrow[e], hist[e]), [HNext]_hvars
        PROVE  /\ hist' \in [Escrows -> Histories]
               /\ \A e \in Escrows : BookInv(escrow'[e], hist'[e])
    <2>1. ASSUME NEW e \in Escrows
          PROVE  BookInv(escrow'[e], hist'[e])
      BY <1>2, EveryHStep, HStepKeepsBook DEF IInv
    <2>2. ASSUME NEW e \in Escrows
          PROVE  hist'[e] \in Histories
      BY <2>1 DEF BookInv
    <2> QED BY <1>2, <2>1, <2>2, HistStaysAFunction
  <1>3. /\ IInv /\ IInv'
        /\ hist \in [Escrows -> Histories] /\ \A e \in Escrows : BookInv(escrow[e], hist[e])
        /\ [HNext]_hvars
        => (hist \in [Escrows -> Histories] /\ \A e \in Escrows : BookInv(escrow[e], hist[e]))'
    BY <1>2 DEF IInv
  <1> QED BY <1>1, <1>3, HistoryIsOnlyHistory, Inductive, PTL DEF HSpec, HIInv

(* The counters are the tokens really moved (see CountersMatchLedger).            *)
THEOREM CountersAreTrue == HSpec => []CountersMatchLedger
  <1>1. HIInv => CountersMatchLedger
    BY DEF HIInv, BookInv, Counts, Out, CountersMatchLedger, PaidOut
  <1> QED BY <1>1, BookInductive, PTL

(* No oracle is overpaid, rounding and overflow included (see                     *)
(* FeesNeverExceedStakes).                                                        *)
THEOREM FeesAreBounded == HSpec => []FeesNeverExceedStakes
  <1>1. HIInv => FeesNeverExceedStakes
    BY DEF HIInv, BookInv, Fees, Out, FeesNeverExceedStakes, PaidOut
  <1> QED BY <1>1, BookInductive, PTL

(* Settled and refunded exclude each other (see SettledXorRefunded).               *)
THEOREM RefundsExcludeSettlement == HSpec => []SettledXorRefunded
  <1>1. HIInv => SettledXorRefunded
    <2> SUFFICES ASSUME HIInv, NEW e \in Escrows
                 PROVE  /\ hist[e].cancels > 0 <=> escrow[e].state = "Cancelled"
                        /\ hist[e].payouts > 0 =>
                             escrow[e].state \notin {"Uninitialized", "Launched", "Pending"}
                        /\ hist[e].refunded > 0 => hist[e].cancels > 0
      BY DEF SettledXorRefunded
    <2> QED BY DEF HIInv, BookInv, Refunds, Early, Untouched
  <1> QED BY <1>1, BookInductive, PTL

(* Only trusted handlers' signatures ever changed an escrow (see HandlersOnly).    *)
THEOREM HandlersRule == HSpec => []HandlersOnly
  <1>1. HIInv => HandlersOnly
    BY DEF HIInv, BookInv, Signatures, HandlersOnly
  <1> QED BY <1>1, BookInductive, PTL

(* The bookkeeper's own type, with the program's (see HTypeOK).                     *)
THEOREM HistoryTypeCorrect == HSpec => []HTypeOK
  <1>1. HInit => outside \in [TokenAccounts -> Int]
    BY CallsAssumption DEF HInit, Ledgers, Amounts
  <1>2. ASSUME TypeOK, outside \in [TokenAccounts -> Int], [HNext]_hvars
        PROVE  outside' \in [TokenAccounts -> Int]
    <2>1. CASE UNCHANGED outside
      BY <1>2, <2>1
    <2>2. ASSUME NEW t \in WalletTransfers, HWalletTransfer(t)
          PROVE  outside' \in [TokenAccounts -> Int]
      <3>1. t.amount \in Int
        BY CallsAssumption DEF Amounts
      <3>2. outside' = [a \in TokenAccounts |->
                          outside[a] + (IF a = t.to THEN t.amount ELSE 0)
                                     - (IF a = t.from THEN t.amount ELSE 0)]
        BY <2>2 DEF HWalletTransfer
      <3> QED BY <1>2, <3>1, <3>2
    <2>3. ASSUME NEW e \in Escrows, NEW h \in Signers, NEW call \in PayoutCalls,
                 HPayout(e, h, call)
          PROVE  outside' \in [TokenAccounts -> Int]
      <3>1. /\ call.amount \in Amounts /\ escrow[e] \in EscrowRecords
            /\ call.recipient_token_account \in TokenAccounts
        BY <1>2, CallsAssumption DEF TypeOK, PayoutCall
      <3>2. RecipientShare(escrow[e], call.amount) \in Int
        BY <3>1, ShareTypes DEF RecipientShare, EscrowRecords, Amounts
      <3> QED BY <1>2, <2>3, <3>1, <3>2 DEF HPayout
    <2> QED
      BY <1>2, <2>1, <2>2, <2>3 DEF HNext, hvars, HTick, HFactoryInitialize, HInitialize,
         HSetup, HStoreResults, HStoreFinalAmounts, HCancel, HComplete
  <1>3. HIInv /\ outside \in [TokenAccounts -> Int] /\ [HNext]_hvars
          => (outside \in [TokenAccounts -> Int])'
    BY <1>2 DEF HIInv, IInv
  <1>4. HIInv /\ outside \in [TokenAccounts -> Int] => HTypeOK
    BY DEF HIInv, IInv, HTypeOK
  <1> QED BY <1>1, <1>3, <1>4, BookInductive, PTL DEF HSpec

-----------------------------------------------------------------------------
(* As long as no product of an amount with a percentage leaves the word, a fee      *)
(* falls short of its percentage by rounding only; the overflow-to-zero of           *)
(* process_payout is thus the sole reason why an oracle could be underpaid.          *)
NoOverflow == \A call \in PayoutCalls : 100 * call.amount < U64

Shortfall(esc, h) ==
  /\ esc.reputation_oracle_stake * Out(h) <= 100 * h.reputation + 99 * h.payouts
  /\ esc.recording_oracle_stake * Out(h) <= 100 * h.recording + 99 * h.payouts

LEMMA FeeShortfall ==
  ASSUME NEW fee \in Nat, NEW out \in Nat, NEW count \in Nat, NEW amount \in Amounts,
         NEW stake \in 0 .. 100, 100 * amount < U64,
         stake * out <= 100 * fee + 99 * count
  PROVE  stake * (out + amount) <= 100 * (fee + Fee(amount, stake)) + 99 * (count + 1)
  <1> DEFINE x == stake * out
             y == amount * stake
  <1>1. x \in Nat /\ y \in Nat /\ y <= 100 * amount /\ x <= 100 * fee + 99 * count
    BY DEF Amounts
  <1>2. stake * (out + amount) = x + y
    BY DEF Amounts
  <1>3. y < U64
    <2>1. 100 * amount \in Int /\ U64 \in Int
      BY I64Assumption DEF Amounts, U64
    <2> HIDE DEF y
    <2> QED BY <1>1, <2>1
  <1>4. Fee(amount, stake) = y \div 100
    BY <1>3 DEF Fee
  <1> HIDE DEF x, y
  <1>5. y \div 100 \in Nat /\ y <= 100 * (y \div 100) + 99
    BY <1>1
  <1> DEFINE f == y \div 100
  <1>6. f \in Nat /\ y <= 100 * f + 99
    BY <1>5
  <1> HIDE DEF f
  <1>7. x + y <= 100 * (fee + f) + 99 * (count + 1)
    BY <1>1, <1>6
  <1> QED BY <1>2, <1>4, <1>7 DEF f

LEMMA ShortfallStep ==
  ASSUME NoOverflow, TypeOK, hist \in [Escrows -> Histories], NEW e \in Escrows,
         EscrowInv(e, escrow[e]), BookInv(escrow[e], hist[e]), Shortfall(escrow[e], hist[e]),
         HStepOf(e)
  PROVE  Shortfall(escrow'[e], hist'[e])
  <1> USE CallsAssumption
  <1> DEFINE esc == escrow[e]
             h == hist[e]
  <1>0. esc \in EscrowRecords /\ h \in Histories
    BY DEF TypeOK
  <1>1. ASSUME NEW new, NEW g,
               g.recipients = h.recipients, g.reputation = h.reputation,
               g.recording = h.recording, g.payouts = h.payouts,
               \/ Untouched(h) /\ new \in EscrowRecords
               \/ /\ new.reputation_oracle_stake = esc.reputation_oracle_stake
                  /\ new.recording_oracle_stake = esc.recording_oracle_stake
        PROVE  Shortfall(new, g)
    <2>1. Out(g) = Out(h)
      BY <1>1 DEF Out
    <2>2. CASE Untouched(h) /\ new \in EscrowRecords
      <3> DEFINE r == new.reputation_oracle_stake
                 s == new.recording_oracle_stake
      <3>1. r \in Nat /\ s \in Nat
        BY <2>2 DEF EscrowRecords, Percents
      <3> HIDE DEF r, s
      <3>2. r * Out(g) = 0 /\ s * Out(g) = 0
        BY <2>1, <2>2, <3>1 DEF Untouched
      <3> QED BY <1>1, <2>2, <3>2 DEF Shortfall, Untouched, r, s
    <2> QED BY <1>1, <2>1, <2>2 DEF Shortfall
  <1>2. CASE escrow'[e] = escrow[e] /\ hist'[e] = hist[e]
    BY <1>2
  <1>3. ASSUME NEW call \in InitializeCalls,
               InitializeAccepts(e, escrow[e], version[call.factory], call),
               escrow'[e] = InitializeWrites(clock, call), hist'[e] = hist[e]
        PROVE  Shortfall(escrow'[e], hist'[e])
    <2>1. Untouched(h)
      BY <1>3 DEF InitializeAccepts, EscrowInitialized, BookInv, Early
    <2>2. escrow'[e] \in EscrowRecords
      <3>1. clock \in Timestamps
        BY I64Assumption DEF TypeOK, Timestamps
      <3> QED BY <1>3, <3>1, InitializeWritesType
    <2> QED BY <1>1, <1>3, <2>1, <2>2
  <1>4. ASSUME NEW handler \in Signers, NEW call \in SetupCalls,
               SetupAccepts(escrow[e], clock, handler, call),
               escrow'[e] = SetupWrites(escrow[e], call), hist'[e] = SignedBook(hist[e], handler)
        PROVE  Shortfall(escrow'[e], hist'[e])
    <2>1. Untouched(h)
      BY <1>4 DEF SetupAccepts, StateCheck, BookInv, Early
    <2>2. escrow'[e] \in EscrowRecords
      BY <1>0, <1>4, SetupWritesType
    <2> QED BY <1>0, <1>1, <1>4, <2>1, <2>2, SignedBookEffect
  <1>5. ASSUME NEW handler \in Signers, hist'[e] = SignedBook(hist[e], handler),
               \/ \E r \in Results : escrow'[e] = StoreResultsWrites(escrow[e], r)
               \/ \E call \in AmountsCalls : escrow'[e] = StoreAmountsWrites(escrow[e], call)
               \/ escrow'[e] = CompleteWrites(escrow[e])
        PROVE  Shortfall(escrow'[e], hist'[e])
    <2>1. /\ escrow'[e].reputation_oracle_stake = esc.reputation_oracle_stake
          /\ escrow'[e].recording_oracle_stake = esc.recording_oracle_stake
      BY <1>0, <1>5 DEF StoreResultsWrites, StoreAmountsWrites, CompleteWrites, EscrowRecords
    <2> QED BY <1>0, <1>1, <1>5, <2>1, SignedBookEffect
  <1>6. ASSUME NEW handler \in Signers, NEW call \in PayoutCalls,
               PayoutAccepts(e, escrow[e], balance, clock, handler, call),
               escrow'[e] = PayoutWrites(escrow[e], call.amount),
               hist'[e] = PayoutBook(escrow[e], hist[e], handler, call.amount)
        PROVE  Shortfall(escrow'[e], hist'[e])
    <2> DEFINE n == call.amount
               r == esc.reputation_oracle_stake
               s == esc.recording_oracle_stake
               x == RecipientShare(esc, n)
               y == ReputationFee(esc, n)
               z == RecordingFee(esc, n)
               g == hist'[e]
    <2>1. r \in Percents /\ s \in Percents /\ r + s \in 1 .. 100
      BY <1>0, <1>6 DEF PayoutAccepts, StateCheck, EscrowInv, OraclesKnown, Unsettled, EscrowRecords
    <2>2. n \in Amounts /\ 100 * n < U64
      BY DEF NoOverflow, PayoutCall
    <2> HIDE DEF r, s
    <2>3. r \in 0 .. 100 /\ s \in 0 .. 100 /\ r + s <= 100
      BY <2>1 DEF Percents
    <2>4. x + y + z = n /\ x \in Nat /\ y \in Nat /\ z \in Nat
      <3>1. x + y + z = n
        BY <2>2, <2>3, SharesAddUp DEF RecipientShare, ReputationFee, RecordingFee, r, s
      <3>2. x \in Amounts /\ y \in Amounts /\ z \in Amounts
        BY <2>1, <2>2, ShareTypes DEF RecipientShare, ReputationFee, RecordingFee, r, s
      <3> QED BY <3>1, <3>2 DEF Amounts
    <2>5. /\ g.recipients = h.recipients + x /\ g.reputation = h.reputation + y
          /\ g.recording = h.recording + z /\ g.payouts = h.payouts + 1
      BY <1>0, <1>6 DEF PayoutBook, Histories
    <2>6. /\ h.recipients \in Nat /\ h.reputation \in Nat /\ h.recording \in Nat
          /\ h.payouts \in Nat
      BY <1>0 DEF Histories
    <2>7. y = Fee(n, r) /\ z = Fee(n, s)
      BY DEF ReputationFee, RecordingFee, r, s
    <2> HIDE DEF x, y, z, g, n
    <2>8. Out(g) = Out(h) + n /\ Out(h) \in Nat
      BY <2>2, <2>4, <2>5, <2>6 DEF Out, Amounts
    <2>9. r * Out(h) <= 100 * h.reputation + 99 * h.payouts
          /\ s * Out(h) <= 100 * h.recording + 99 * h.payouts
      BY DEF Shortfall, r, s
    <2>10. r * (Out(h) + n) <= 100 * (h.reputation + y) + 99 * (h.payouts + 1)
      BY <2>2, <2>3, <2>6, <2>7, <2>8, <2>9, FeeShortfall
    <2>11. s * (Out(h) + n) <= 100 * (h.recording + z) + 99 * (h.payouts + 1)
      BY ZenonT(30), <2>2, <2>3, <2>6, <2>7, <2>8, <2>9, FeeShortfall
    <2>12. escrow'[e].reputation_oracle_stake = r /\ escrow'[e].recording_oracle_stake = s
      BY <1>0, <1>6 DEF PayoutWrites, EscrowRecords, r, s
    <2> QED BY <2>5, <2>8, <2>10, <2>11, <2>12 DEF Shortfall, g
  <1>7. ASSUME NEW handler \in Signers, NEW call \in CancelCalls,
               escrow'[e] = CancelWrites(escrow[e]),
               hist'[e] = CancelBook(hist[e], handler, balance[call.token_account])
        PROVE  Shortfall(escrow'[e], hist'[e])
    <2>1. /\ escrow'[e].reputation_oracle_stake = esc.reputation_oracle_stake
          /\ escrow'[e].recording_oracle_stake = esc.recording_oracle_stake
      BY <1>0, <1>7 DEF CancelWrites, EscrowRecords
    <2>2. /\ hist'[e].recipients = h.recipients /\ hist'[e].reputation = h.reputation
          /\ hist'[e].recording = h.recording /\ hist'[e].payouts = h.payouts
      BY <1>0, <1>7 DEF CancelBook, Histories
    <2> QED BY <1>1, <2>1, <2>2
  <1> QED BY <1>2, <1>3, <1>4, <1>5, <1>6, <1>7 DEF HStepOf

(* No oracle is underpaid either, unless a product overflows (see FeesInPercents).   *)
THEOREM FeesAreInPercents ==
  ASSUME NoOverflow
  PROVE  HSpec => []FeesInPercents
  <1> DEFINE Short == \A e \in Escrows : Shortfall(escrow[e], hist[e])
  <1>1. HInit => Short
    BY DEF HInit, Init, Shortfall, Out, BlankEscrow, NoHistory
  <1>2. HIInv /\ Short /\ [HNext]_hvars => Short'
    BY EveryHStep, ShortfallStep DEF HIInv, IInv
  <1>3. Short => FeesInPercents
    BY DEF Shortfall, Out, FeesInPercents, PaidOut
  <1> HIDE DEF Short
  <1> QED BY <1>1, <1>2, <1>3, BookInductive, PTL DEF HSpec

-----------------------------------------------------------------------------
(* Double entry.  The sum over the escrows stays in step with each account       *)
(* because a step changes the book of one escrow only.                           *)
NetOf(esc, h, a) ==
  (IF a = esc.reputation_oracle_token_account THEN h.reputation ELSE 0)
  + (IF a = esc.recording_oracle_token_account THEN h.recording ELSE 0)
  + (IF a = esc.canceler_token_account THEN h.refunded ELSE 0)
  - (IF a = esc.token_account THEN Out(h) + h.refunded ELSE 0)

NetsOf(esc, h, a) == [e \in Escrows |-> NetOf(esc[e], h[e], a)]

LEMMA NetIsInt ==
  ASSUME NEW esc, NEW h \in Histories, NEW a
  PROVE  NetOf(esc, h, a) \in Int
  BY DEF NetOf, Out, Histories

LEMMA NetsAreInts ==
  ASSUME NEW esc, NEW h \in [Escrows -> Histories], NEW a
  PROVE  NetsOf(esc, h, a) \in [Escrows -> Int]
  <1>1. ASSUME NEW e \in Escrows
        PROVE  NetOf(esc[e], h[e], a) \in Int
    <2>1. h[e] \in Histories
      OBVIOUS
    <2> QED BY <2>1, NetIsInt
  <1> QED BY <1>1 DEF NetsOf

LEMMA NetsAreTheEntries ==
  ASSUME hist \in [Escrows -> Histories], NEW a
  PROVE  [e \in Escrows |-> Credited(e, a) - Debited(e, a)] = NetsOf(escrow, hist, a)
  <1>1. ASSUME NEW e \in Escrows
        PROVE  Credited(e, a) - Debited(e, a) = NetOf(escrow[e], hist[e], a)
    <2>1. hist[e] \in Histories
      OBVIOUS
    <2>2. /\ hist[e].recipients \in Nat /\ hist[e].reputation \in Nat
          /\ hist[e].recording \in Nat /\ hist[e].refunded \in Nat
      BY <2>1 DEF Histories
    <2> QED BY <2>1, <2>2 DEF Credited, Debited, NetOf, PaidOut, Out, Vault
  <1> QED BY <1>1 DEF NetsOf

(* The lemmas on sums, for sums over the escrows.                                  *)
LEMMA SumOverEscrows ==
  ASSUME IsFiniteSet(Escrows), NEW v \in [Escrows -> Int]
  PROVE  /\ SumOver(v) \in Int
         /\ (\A e \in Escrows : v[e] = 0) => SumOver(v) = 0
  <1>1. SumOver(v) = MapThenSumSet(LAMBDA e : v[e], Escrows)
    BY DEF SumOver
  <1>2. MapThenSumSet(LAMBDA e : v[e], Escrows) \in Int
    BY SumIsInt
  <1>3. ASSUME \A e \in Escrows : v[e] = 0
        PROVE  MapThenSumSet(LAMBDA e : v[e], Escrows) = 0
    BY <1>3, SumOfZeros
  <1> QED BY <1>1, <1>2, <1>3

LEMMA SumOverChanges ==
  ASSUME IsFiniteSet(Escrows), NEW v \in [Escrows -> Int], NEW w \in [Escrows -> Int],
         NEW e \in Escrows, \A f \in Escrows : f # e => w[f] = v[f]
  PROVE  SumOver(w) = SumOver(v) + (w[e] - v[e])
  <1>1. SumOver(v) = MapThenSumSet(LAMBDA y : v[y], Escrows)
    BY DEF SumOver
  <1>2. SumOver(w) = MapThenSumSet(LAMBDA y : w[y], Escrows)
    BY DEF SumOver
  <1>3. MapThenSumSet(LAMBDA y : w[y], Escrows)
           = MapThenSumSet(LAMBDA y : v[y], Escrows) + (w[e] - v[e])
    BY SumChangesAtOne
  <1> QED BY <1>1, <1>2, <1>3

(* A transfer moves exactly its amount, also into the account it came from.       *)
LEMMA TransferMoves ==
  ASSUME NEW ledger \in Ledgers, NEW from \in TokenAccounts, NEW to \in TokenAccounts,
         NEW n \in Amounts, NEW a \in TokenAccounts
  PROVE  Transferred(ledger, from, to, n)[a]
           = ledger[a] + (IF a = to THEN n ELSE 0) - (IF a = from THEN n ELSE 0)
  BY I64Assumption DEF Ledgers, Transferred, Amounts, U64

(* A step that adds nothing to a book but a signature leaves its entries, ...     *)
LEMMA SignatureKeepsNet ==
  ASSUME NEW esc, NEW new, NEW h \in Histories, NEW handler \in Signers, NEW a,
         new.token_account = esc.token_account,
         new.reputation_oracle_token_account = esc.reputation_oracle_token_account,
         new.recording_oracle_token_account = esc.recording_oracle_token_account,
         new.canceler_token_account = esc.canceler_token_account
  PROVE  NetOf(new, SignedBook(h, handler), a) = NetOf(esc, h, a)
  <1> DEFINE g == SignedBook(h, handler)
  <1>1. /\ g.recipients = h.recipients /\ g.reputation = h.reputation
        /\ g.recording = h.recording /\ g.refunded = h.refunded
    BY SignedBookEffect
  <1> HIDE DEF g
  <1> QED BY <1>1 DEF NetOf, Out, g

(* ... and an escrow that has paid nothing has none, whatever its accounts.        *)
LEMMA EmptyNet ==
  ASSUME NEW esc, NEW h \in Histories, NEW a, Untouched(h), h.refunded = 0
  PROVE  NetOf(esc, h, a) = 0
  BY DEF NetOf, Untouched

LEMMA EarlyMeansEmpty ==
  ASSUME NEW esc, NEW h, BookInv(esc, h), esc.state \in {"Uninitialized", "Launched"}
  PROVE  Untouched(h) /\ h.refunded = 0 /\ h \in Histories
  BY DEF BookInv, Early, Refunds, Histories

-----------------------------------------------------------------------------
(* What one step does to the entries of escrow e for account a, and to the        *)
(* account: Same when nothing of e is paid, Paid and Sent back otherwise.          *)
NetStep(e, a) ==
  \/ NetOf(escrow'[e], hist'[e], a) = NetOf(escrow[e], hist[e], a)
  \/ \E h \in Signers, call \in PayoutCalls : HPayout(e, h, call)
  \/ \E h \in Signers, call \in CancelCalls : HCancel(e, h, call)

LEMMA OnlyPaymentsChangeNets ==
  ASSUME HIInv, [HNext]_hvars, NEW e \in Escrows, NEW a
  PROVE  NetStep(e, a)
  <1> DEFINE Same == NetOf(escrow'[e], hist'[e], a) = NetOf(escrow[e], hist[e], a)
  <1>0. /\ escrow \in [Escrows -> EscrowRecords] /\ hist \in [Escrows -> Histories]
        /\ escrow[e] \in EscrowRecords /\ hist[e] \in Histories /\ BookInv(escrow[e], hist[e])
    BY DEF HIInv, IInv, TypeOK
  <1>1. CASE escrow'[e] = escrow[e] /\ hist'[e] = hist[e]
    BY <1>1 DEF NetStep
  <1>2. ASSUME NEW f \in Escrows, NEW call \in InitializeCalls, HInitialize(f, call)
        PROVE  Same
    <2>1. CASE f # e
      BY <1>0, <1>2, <2>1 DEF HInitialize, Initialize
    <2>2. CASE f = e
      <3>1. hist'[e] = hist[e] /\ escrow[e].state = "Uninitialized"
        BY <1>2, <2>2 DEF HInitialize, Initialize, InitializeAccepts, EscrowInitialized
      <3>2. Untouched(hist[e]) /\ hist[e].refunded = 0
        BY <1>0, <3>1, EarlyMeansEmpty
      <3> QED BY <1>0, <3>1, <3>2, EmptyNet
    <2> QED BY <2>1, <2>2
  <1>3. ASSUME NEW f \in Escrows, NEW h \in Signers, NEW call \in SetupCalls, HSetup(f, h, call)
        PROVE  Same
    <2>1. CASE f # e
      BY <1>0, <1>3, <2>1 DEF HSetup, Setup, Signed
    <2>2. CASE f = e
      <3> DEFINE g == SignedBook(hist[e], h)
      <3>1. hist'[e] = g /\ escrow[e].state = "Launched"
        BY <1>0, <1>3, <2>2 DEF HSetup, Setup, Signed, SetupAccepts, StateCheck
      <3>2. Untouched(hist[e]) /\ hist[e].refunded = 0
        BY <1>0, <3>1, EarlyMeansEmpty
      <3>3. /\ g \in Histories
            /\ g.recipients = hist[e].recipients /\ g.reputation = hist[e].reputation
            /\ g.recording = hist[e].recording /\ g.refunded = hist[e].refunded
            /\ g.payouts = hist[e].payouts
        BY <1>0, SignedBookEffect
      <3> HIDE DEF g
      <3>4. Untouched(g) /\ g.refunded = 0
        BY <3>2, <3>3 DEF Untouched, Out
      <3> QED BY <1>0, <3>1, <3>2, <3>3, <3>4, EmptyNet
    <2> QED BY <2>1, <2>2
  <1>4. ASSUME NEW f \in Escrows, NEW h \in Signers, Signed(f, h),
               \/ \E r \in Results : escrow' = [escrow EXCEPT ![f] = StoreResultsWrites(@, r)]
               \/ \E call \in AmountsCalls : escrow' = [escrow EXCEPT ![f] = StoreAmountsWrites(@, call)]
               \/ escrow' = [escrow EXCEPT ![f] = CompleteWrites(@)]
        PROVE  Same
    <2>1. CASE f # e
      BY <1>0, <1>4, <2>1 DEF Signed
    <2>2. CASE f = e
      <3>1. hist'[e] = SignedBook(hist[e], h)
        BY <1>0, <1>4, <2>2 DEF Signed
      <3>2. /\ escrow'[e].token_account = escrow[e].token_account
            /\ escrow'[e].reputation_oracle_token_account = escrow[e].reputation_oracle_token_account
            /\ escrow'[e].recording_oracle_token_account = escrow[e].recording_oracle_token_account
            /\ escrow'[e].canceler_token_account = escrow[e].canceler_token_account
        <4>1. \/ \E r \in Results : escrow'[e] = StoreResultsWrites(escrow[e], r)
              \/ \E call \in AmountsCalls : escrow'[e] = StoreAmountsWrites(escrow[e], call)
              \/ escrow'[e] = CompleteWrites(escrow[e])
          BY <1>0, <1>4, <2>2
        <4> QED BY <1>0, <4>1 DEF StoreResultsWrites, StoreAmountsWrites, CompleteWrites, EscrowRecords
      <3> QED BY <1>0, <3>1, <3>2, SignatureKeepsNet
    <2> QED BY <2>1, <2>2
  <1>5. ASSUME NEW f \in Escrows, NEW h \in Signers, NEW call \in PayoutCalls, HPayout(f, h, call)
        PROVE  NetStep(e, a)
    <2>1. CASE f # e
      BY <1>0, <1>5, <2>1 DEF HPayout, Payout, NetStep
    <2>2. CASE f = e
      BY <1>5, <2>2 DEF NetStep
    <2> QED BY <2>1, <2>2
  <1>6. ASSUME NEW f \in Escrows, NEW h \in Signers, NEW call \in CancelCalls, HCancel(f, h, call)
        PROVE  NetStep(e, a)
    <2>1. CASE f # e
      BY <1>0, <1>6, <2>1 DEF HCancel, Cancel, NetStep
    <2>2. CASE f = e
      BY <1>6, <2>2 DEF NetStep
    <2> QED BY <2>1, <2>2
  <1>7. CASE \E f \in Escrows, h \in Signers :
               \/ \E r \in Results : HStoreResults(f, h, r)
               \/ \E call \in AmountsCalls : HStoreFinalAmounts(f, h, call)
               \/ HComplete(f, h)
    <2>1. PICK f \in Escrows, h \in Signers :
               \/ \E r \in Results : HStoreResults(f, h, r)
               \/ \E call \in AmountsCalls : HStoreFinalAmounts(f, h, call)
               \/ HComplete(f, h)
      BY <1>7
    <2>2. Signed(f, h)
      BY <2>1 DEF HStoreResults, HStoreFinalAmounts, HComplete
    <2>3. \/ \E r \in Results : escrow' = [escrow EXCEPT ![f] = StoreResultsWrites(@, r)]
          \/ \E call \in AmountsCalls : escrow' = [escrow EXCEPT ![f] = StoreAmountsWrites(@, call)]
          \/ escrow' = [escrow EXCEPT ![f] = CompleteWrites(@)]
      BY <2>1 DEF HStoreResults, HStoreFinalAmounts, HComplete, StoreResults,
                  StoreFinalAmounts, Complete
    <2>4. Same
      BY <1>4, <2>2, <2>3
    <2> QED BY <2>4 DEF NetStep
  <1>8. CASE HTick \/ (\E t \in WalletTransfers : HWalletTransfer(t))
             \/ (\E f \in Factories, v \in FactoryVersions : HFactoryInitialize(f, v))
             \/ UNCHANGED hvars
    BY <1>1, <1>8 DEF HTick, Tick, HWalletTransfer, WalletTransfer, HFactoryInitialize,
                      FactoryInitialize, hvars, vars
  <1>9. Same => NetStep(e, a)
    BY DEF NetStep
  <1> HIDE DEF Same
  <1> QED BY <1>2, <1>3, <1>5, <1>6, <1>7, <1>8, <1>9 DEF HNext

-----------------------------------------------------------------------------
(* A payout enters in the book what its three transfers move, ...                 *)
LEMMA PayoutReconciles ==
  ASSUME HIInv, outside \in [TokenAccounts -> Int], NEW e \in Escrows, NEW h \in Signers,
         NEW call \in PayoutCalls, HPayout(e, h, call), NEW a \in TokenAccounts
  PROVE  balance'[a] - balance[a]
           = (outside'[a] - outside[a])
             + (NetOf(escrow'[e], hist'[e], a) - NetOf(escrow[e], hist[e], a))
  <1> DEFINE esc == escrow[e]
             book == hist[e]
             v == call.token_account
             b1 == AfterRecipient(esc, balance, call)
             b2 == AfterReputation(esc, balance, call)
             b3 == PayoutLedger(esc, balance, call)
             x == RecipientShare(esc, call.amount)
             y == ReputationFee(esc, call.amount)
             z == RecordingFee(esc, call.amount)
             p1 == call.recipient_token_account
             p2 == call.reputation_oracle_token_account
             p3 == call.recording_oracle_token_account
  <1>1. /\ call.amount \in Amounts /\ call \in PayoutCall
        /\ v \in TokenAccounts /\ p1 \in TokenAccounts /\ p2 \in TokenAccounts
        /\ p3 \in TokenAccounts
    BY CallsAssumption DEF PayoutCall
  <1>2. /\ escrow \in [Escrows -> EscrowRecords] /\ hist \in [Escrows -> Histories]
        /\ esc \in EscrowRecords /\ balance \in Ledgers /\ book \in Histories
    BY DEF HIInv, IInv, TypeOK
  <1>3. PayoutAccepts(e, esc, balance, clock, h, call)
    BY DEF HPayout, Payout
  <1>4. x \in Amounts /\ y \in Amounts /\ z \in Amounts
    <2>1. esc.reputation_oracle_stake \in Percents /\ esc.recording_oracle_stake \in Percents
      BY <1>2 DEF EscrowRecords
    <2> QED BY <1>1, <2>1, ShareTypes DEF RecipientShare, ReputationFee, RecordingFee
  <1>5. b1 \in Ledgers /\ b2 \in Ledgers /\ b3 \in Ledgers
    BY <1>1, <1>2, <1>3, PayoutLedgerType DEF PayoutAccepts
  <1>6. b1[a] = balance[a] + (IF a = p1 THEN x ELSE 0) - (IF a = v THEN x ELSE 0)
    BY <1>1, <1>2, <1>4, TransferMoves DEF AfterRecipient
  <1>7. b2[a] = b1[a] + (IF a = p2 THEN y ELSE 0) - (IF a = v THEN y ELSE 0)
    BY <1>1, <1>4, <1>5, TransferMoves DEF AfterReputation
  <1>8. b3[a] = b2[a] + (IF a = p3 THEN z ELSE 0) - (IF a = v THEN z ELSE 0)
    BY <1>1, <1>4, <1>5, TransferMoves DEF PayoutLedger
  <1>9. balance'[a] = b3[a]
    BY DEF HPayout, Payout
  <1>10. outside'[a] = outside[a] + (IF a = p1 THEN x ELSE 0)
    <2>1. outside' = [outside EXCEPT ![p1] = @ + x]
      BY DEF HPayout
    <2>2. x \in Int /\ outside[a] \in Int
      BY <1>4 DEF Amounts
    <2> HIDE DEF x, p1
    <2> QED BY <2>1, <2>2
  <1>11. /\ esc.token_account = v
         /\ esc.reputation_oracle_token_account = p2
         /\ esc.recording_oracle_token_account = p3
    BY <1>3 DEF PayoutAccepts, PayoutAccountsMatch
  <1>12. /\ escrow'[e].token_account = v
         /\ escrow'[e].reputation_oracle_token_account = p2
         /\ escrow'[e].recording_oracle_token_account = p3
         /\ escrow'[e].canceler_token_account = esc.canceler_token_account
    <2>1. escrow'[e] = PayoutWrites(esc, call.amount)
      BY <1>2 DEF HPayout, Payout
    <2> QED BY <1>2, <1>11, <2>1 DEF PayoutWrites, EscrowRecords
  <1>13. /\ hist'[e].recipients = book.recipients + x
         /\ hist'[e].reputation = book.reputation + y
         /\ hist'[e].recording = book.recording + z
         /\ hist'[e].refunded = book.refunded
    <2>1. hist'[e] = PayoutBook(esc, book, h, call.amount)
      BY <1>2 DEF HPayout
    <2> HIDE DEF book
    <2> QED BY <1>2, <2>1 DEF PayoutBook, Histories
  <1>14. /\ book.recipients \in Nat /\ book.reputation \in Nat /\ book.recording \in Nat
         /\ book.refunded \in Nat /\ x \in Nat /\ y \in Nat /\ z \in Nat
         /\ balance[a] \in Int /\ outside[a] \in Int
    BY <1>2, <1>4 DEF Histories, Amounts, Ledgers
  <1> DEFINE old == (IF a = p2 THEN book.reputation ELSE 0)
                    + (IF a = p3 THEN book.recording ELSE 0)
                    + (IF a = esc.canceler_token_account THEN book.refunded ELSE 0)
                    - (IF a = v THEN book.recipients + book.reputation + book.recording
                                      + book.refunded ELSE 0)
             new == (IF a = p2 THEN book.reputation + y ELSE 0)
                    + (IF a = p3 THEN book.recording + z ELSE 0)
                    + (IF a = esc.canceler_token_account THEN book.refunded ELSE 0)
                    - (IF a = v THEN (book.recipients + x) + (book.reputation + y)
                                      + (book.recording + z) + book.refunded ELSE 0)
  <1>15. NetOf(esc, book, a) = old
    BY <1>11 DEF NetOf, Out
  <1>16. NetOf(escrow'[e], hist'[e], a) = new
    BY <1>12, <1>13 DEF NetOf, Out
  <1>17. new - old = (IF a = p2 THEN y ELSE 0) + (IF a = p3 THEN z ELSE 0)
                     - (IF a = v THEN x + y + z ELSE 0)
    <2> HIDE DEF esc, book, v, x, y, z, p1, p2, p3
    <2> QED BY <1>14
  <1>18. new \in Int /\ old \in Int
    <2>1. hist'[e] \in Histories
      <3>1. hist'[e] = PayoutBook(esc, book, h, call.amount)
        BY <1>2 DEF HPayout
      <3>2. OraclesKnown(esc) /\ esc.state \in Unsettled /\ TrustedHandler(esc, h) /\ BookInv(esc, book)
        BY <1>3 DEF HIInv, IInv, EscrowInv, PayoutAccepts, StateCheck, Unsettled
      <3>3. BookInv(PayoutWrites(esc, call.amount), PayoutBook(esc, book, h, call.amount))
        BY <1>1, <1>2, <3>2, PayoutStep
      <3> QED BY <3>1, <3>3 DEF BookInv
    <2> QED BY <1>2, <1>15, <1>16, <2>1, NetIsInt
  <1> HIDE DEF esc, book, v, x, y, z, p1, p2, p3, b1, b2, b3, old, new
  <1>19. b3[a] - balance[a]
           = (IF a = p1 THEN x ELSE 0) + ((IF a = p2 THEN y ELSE 0)
             + (IF a = p3 THEN z ELSE 0) - (IF a = v THEN x + y + z ELSE 0))
    BY <1>6, <1>7, <1>8, <1>14
  <1> QED BY <1>9, <1>10, <1>14, <1>15, <1>16, <1>17, <1>18, <1>19 DEF esc, book

(* ... and a cancel what it sends back.                                            *)
LEMMA CancelReconciles ==
  ASSUME HIInv, outside \in [TokenAccounts -> Int], NEW e \in Escrows, NEW h \in Signers,
         NEW call \in CancelCalls, HCancel(e, h, call), NEW a \in TokenAccounts
  PROVE  balance'[a] - balance[a]
           = (outside'[a] - outside[a])
             + (NetOf(escrow'[e], hist'[e], a) - NetOf(escrow[e], hist[e], a))
  <1> DEFINE esc == escrow[e]
             book == hist[e]
             v == call.token_account
             p == call.canceler_token_account
             n == balance[v]
  <1>1. v \in TokenAccounts /\ p \in TokenAccounts
    BY CallsAssumption DEF CancelCall
  <1>2. /\ escrow \in [Escrows -> EscrowRecords] /\ hist \in [Escrows -> Histories]
        /\ esc \in EscrowRecords /\ balance \in Ledgers /\ book \in Histories
    BY DEF HIInv, IInv, TypeOK
  <1>3. n \in Amounts
    BY <1>1, <1>2 DEF Ledgers
  <1>4. balance'[a] = balance[a] + (IF a = p THEN n ELSE 0) - (IF a = v THEN n ELSE 0)
    BY <1>1, <1>2, <1>3, TransferMoves DEF HCancel, Cancel, CancelLedger
  <1>5. esc.token_account = v /\ esc.canceler_token_account = p
    BY DEF HCancel, Cancel, CancelAccepts
  <1>6. /\ escrow'[e].token_account = v
        /\ escrow'[e].canceler_token_account = p
        /\ escrow'[e].reputation_oracle_token_account = esc.reputation_oracle_token_account
        /\ escrow'[e].recording_oracle_token_account = esc.recording_oracle_token_account
    <2>1. escrow'[e] = CancelWrites(esc)
      BY <1>2 DEF HCancel, Cancel
    <2> QED BY <1>2, <1>5, <2>1 DEF CancelWrites, EscrowRecords
  <1>7. /\ hist'[e].recipients = book.recipients
        /\ hist'[e].reputation = book.reputation
        /\ hist'[e].recording = book.recording
        /\ hist'[e].refunded = book.refunded + n
    <2>1. hist'[e] = CancelBook(book, h, n)
      BY <1>2 DEF HCancel
    <2> HIDE DEF book, n
    <2> QED BY <1>2, <2>1 DEF CancelBook, Histories
  <1>8. /\ book.recipients \in Nat /\ book.reputation \in Nat /\ book.recording \in Nat
        /\ book.refunded \in Nat /\ n \in Nat /\ balance[a] \in Int /\ outside[a] \in Int
    BY <1>2, <1>3 DEF Histories, Amounts, Ledgers
  <1>9. outside' = outside
    BY DEF HCancel
  <1> DEFINE rest == (IF a = esc.reputation_oracle_token_account THEN book.reputation ELSE 0)
                     + (IF a = esc.recording_oracle_token_account THEN book.recording ELSE 0)
             paid == book.recipients + book.reputation + book.recording
  <1>10. NetOf(esc, book, a) = rest + (IF a = p THEN book.refunded ELSE 0)
                                    - (IF a = v THEN paid + book.refunded ELSE 0)
    BY <1>5 DEF NetOf, Out
  <1>11. NetOf(escrow'[e], hist'[e], a) = rest + (IF a = p THEN book.refunded + n ELSE 0)
                                    - (IF a = v THEN paid + (book.refunded + n) ELSE 0)
    BY <1>6, <1>7 DEF NetOf, Out
  <1>12. rest \in Int /\ paid \in Int
    BY <1>8
  <1> DEFINE old == NetOf(esc, book, a)
             new == NetOf(escrow'[e], hist'[e], a)
  <1> HIDE DEF esc, book, v, p, n, rest, paid
  <1>13. new - old = (IF a = p THEN n ELSE 0) - (IF a = v THEN n ELSE 0)
    <2> HIDE DEF old, new
    <2>1. /\ old = rest + (IF a = p THEN book.refunded ELSE 0)
                        - (IF a = v THEN paid + book.refunded ELSE 0)
          /\ new = rest + (IF a = p THEN book.refunded + n ELSE 0)
                        - (IF a = v THEN paid + (book.refunded + n) ELSE 0)
      BY <1>10, <1>11 DEF old, new
    <2> QED BY <1>8, <1>12, <2>1
  <1>14. outside'[a] - outside[a] = 0
    BY <1>8, <1>9
  <1>15. balance'[a] - balance[a] = (IF a = p THEN n ELSE 0) - (IF a = v THEN n ELSE 0)
    BY <1>4, <1>8
  <1>16. (IF a = p THEN n ELSE 0) - (IF a = v THEN n ELSE 0) \in Int
    BY <1>8
  <1>17. balance'[a] - balance[a] = (outside'[a] - outside[a]) + (new - old)
    BY <1>13, <1>14, <1>15, <1>16
  <1> QED BY <1>17 DEF esc, book, old, new

-----------------------------------------------------------------------------
(* The invariant with the sum in its inductive form                              *)
Reconciled ==
  \A a \in TokenAccounts : balance[a] = outside[a] + SumOver(NetsOf(escrow, hist, a))

LEMMA ReconcileStep ==
  ASSUME IsFiniteSet(Escrows), HIInv, HTypeOK, HTypeOK', Reconciled, [HNext]_hvars
  PROVE  Reconciled'
  <1> SUFFICES ASSUME NEW a \in TokenAccounts
               PROVE  balance'[a] = outside'[a] + SumOver(NetsOf(escrow', hist', a))
    BY DEF Reconciled
  <1> DEFINE v == NetsOf(escrow, hist, a)
             w == NetsOf(escrow', hist', a)
  <1>1. /\ outside[a] \in Int /\ outside'[a] \in Int
        /\ balance[a] \in Int /\ balance'[a] \in Int
        /\ outside \in [TokenAccounts -> Int]
        /\ balance \in Ledgers
        /\ escrow \in [Escrows -> EscrowRecords]
        /\ hist \in [Escrows -> Histories] /\ hist' \in [Escrows -> Histories]
    BY DEF HTypeOK, TypeOK, Ledgers, Amounts
  <1>2. v \in [Escrows -> Int] /\ w \in [Escrows -> Int]
    BY <1>1, NetsAreInts
  <1>3. \A e \in Escrows : v[e] = NetOf(escrow[e], hist[e], a)
                        /\ w[e] = NetOf(escrow'[e], hist'[e], a)
    BY DEF NetsOf
  <1>4. balance[a] = outside[a] + SumOver(v)
    BY DEF Reconciled
  <1> HIDE DEF v, w
  <1>5. SumOver(v) \in Int /\ SumOver(w) \in Int
    BY <1>2, SumOverEscrows
  <1>6. ASSUME NEW e \in Escrows, \A f \in Escrows : f # e => w[f] = v[f],
               balance'[a] - balance[a] = (outside'[a] - outside[a]) + (w[e] - v[e])
        PROVE  balance'[a] = outside'[a] + SumOver(w)
    <2>1. SumOver(w) = SumOver(v) + (w[e] - v[e])
      BY <1>2, <1>6, SumOverChanges
    <2>2. w[e] \in Int /\ v[e] \in Int
      BY <1>2
    <2> QED BY <1>1, <1>4, <1>5, <1>6, <2>1, <2>2
  <1>7. ASSUME NEW e \in Escrows, NEW h \in Signers, NEW call \in PayoutCalls, HPayout(e, h, call)
        PROVE  balance'[a] = outside'[a] + SumOver(w)
    <2>1. \A f \in Escrows : f # e => w[f] = v[f]
      BY <1>1, <1>3, <1>7 DEF HPayout, Payout
    <2>2. balance'[a] - balance[a] = (outside'[a] - outside[a]) + (w[e] - v[e])
      BY <1>1, <1>3, <1>7, PayoutReconciles
    <2> QED BY <1>6, <2>1, <2>2
  <1>8. ASSUME NEW e \in Escrows, NEW h \in Signers, NEW call \in CancelCalls, HCancel(e, h, call)
        PROVE  balance'[a] = outside'[a] + SumOver(w)
    <2>1. \A f \in Escrows : f # e => w[f] = v[f]
      BY <1>1, <1>3, <1>8 DEF HCancel, Cancel
    <2>2. balance'[a] - balance[a] = (outside'[a] - outside[a]) + (w[e] - v[e])
      BY <1>1, <1>3, <1>8, CancelReconciles
    <2> QED BY <1>6, <2>1, <2>2
  <1>9. ASSUME ~ \E e \in Escrows, h \in Signers, call \in PayoutCalls : HPayout(e, h, call),
               ~ \E e \in Escrows, h \in Signers, call \in CancelCalls : HCancel(e, h, call)
        PROVE  balance'[a] = outside'[a] + SumOver(w)
    <2>1. w = v
      <3>1. \A e \in Escrows : NetStep(e, a)
        BY OnlyPaymentsChangeNets
      <3>2. \A e \in Escrows : w[e] = v[e]
        BY <1>3, <1>9, <3>1 DEF NetStep
      <3> QED BY <1>2, <3>2
    <2>2. CASE UNCHANGED <<balance, outside>>
      BY <1>4, <2>1, <2>2
    <2>3. ASSUME NEW t \in WalletTransfers, HWalletTransfer(t)
          PROVE  balance'[a] = outside'[a] + SumOver(w)
      <3>1. t.from \in TokenAccounts /\ t.to \in TokenAccounts /\ t.amount \in Amounts
        BY CallsAssumption
      <3>2. balance'[a] = balance[a] + (IF a = t.to THEN t.amount ELSE 0)
                                     - (IF a = t.from THEN t.amount ELSE 0)
        BY <1>1, <2>3, <3>1, TransferMoves DEF HWalletTransfer, WalletTransfer
      <3>3. outside'[a] = outside[a] + (IF a = t.to THEN t.amount ELSE 0)
                                     - (IF a = t.from THEN t.amount ELSE 0)
        BY <2>3 DEF HWalletTransfer
      <3>4. t.amount \in Int
        BY <3>1 DEF Amounts
      <3> QED BY <1>1, <1>4, <1>5, <2>1, <3>2, <3>3, <3>4
    <2> QED
      BY <1>9, <2>2, <2>3
         DEF HNext, hvars, vars, HTick, Tick, HFactoryInitialize, FactoryInitialize,
             HInitialize, Initialize, HSetup, Setup, HStoreResults, StoreResults,
             HStoreFinalAmounts, StoreFinalAmounts, HComplete, Complete
  <1> QED BY <1>7, <1>8, <1>9 DEF w

(* Every account holds what the books of all escrows say it holds, for any finite *)
(* number of escrows, with accounts shared between roles and escrows in any way   *)
(* the program accepts (see LedgerReconciles).                                    *)
THEOREM LedgerAlwaysReconciles ==
  ASSUME IsFiniteSet(Escrows)
  PROVE  HSpec => []LedgerReconciles
  <1>1. HInit => Reconciled
    <2> SUFFICES ASSUME HInit, NEW a \in TokenAccounts
                 PROVE  balance[a] = outside[a] + SumOver(NetsOf(escrow, hist, a))
      BY DEF Reconciled
    <2>1. hist \in [Escrows -> Histories]
      BY DEF HInit, NoHistory, Histories
    <2>2. NetsOf(escrow, hist, a) \in [Escrows -> Int]
      BY <2>1, NetsAreInts
    <2>3. ASSUME NEW e \in Escrows
          PROVE  NetsOf(escrow, hist, a)[e] = 0
      <3>1. hist[e] = NoHistory
        BY DEF HInit
      <3>2. Untouched(hist[e]) /\ hist[e].refunded = 0 /\ hist[e] \in Histories
        BY <2>1, <3>1 DEF Untouched, Out, NoHistory
      <3>3. NetOf(escrow[e], hist[e], a) = 0
        BY <3>2, EmptyNet
      <3> QED BY <3>3 DEF NetsOf
    <2>4. SumOver(NetsOf(escrow, hist, a)) = 0
      BY <2>2, <2>3, SumOverEscrows
    <2>5. balance[a] = outside[a] /\ outside[a] \in Int
      BY CallsAssumption DEF HInit, Init, Ledgers, Amounts
    <2> QED BY <2>4, <2>5
  <1>2. HIInv /\ HTypeOK /\ HTypeOK' /\ Reconciled /\ [HNext]_hvars => Reconciled'
    BY ReconcileStep
  <1>3. HTypeOK /\ Reconciled => LedgerReconciles
    BY NetsAreTheEntries DEF HTypeOK, Reconciled, LedgerReconciles
  <1> QED BY <1>1, <1>2, <1>3, BookInductive, HistoryTypeCorrect, PTL DEF HSpec

-----------------------------------------------------------------------------
\* A step of another escrow, or of a wallet, as escrow k sees it.
Spared(k) ==
  /\ escrow'[k] = escrow[k]
  /\ hist'[k] = hist[k]
  /\ Known(k) => balance'[Vault(k)] >= balance[Vault(k)]

LEMMA SparedJob ==
  ASSUME NEW k \in Escrows, Spared(k)
  PROVE  /\ StageOf(escrow'[k].state) = StageOf(escrow[k].state)
         /\ PaidOut(k)' = PaidOut(k)
         /\ hist'[k].refunded = hist[k].refunded
         /\ Pot(k)' >= Pot(k)
  BY DEF Spared, PaidOut, Pot, Known, EscrowInitialized, Vault

\* A step that spares every job is a deposit, ...
LEMMA SparedIsDeposit ==
  ASSUME \A k \in Escrows : Spared(k)
  PROVE  Settlement!Deposit
  BY SparedJob DEF Settlement!Deposit

\* ... one that spares all but e is a step of e only.
LEMMA SparedIsOnly ==
  ASSUME NEW e \in Escrows, \A k \in Escrows \ {e} : Spared(k)
  PROVE  Settlement!Only(e)
  BY SparedJob DEF Settlement!Only

-----------------------------------------------------------------------------
\* What every step starts from
LEMMA Facts ==
  ASSUME HIInv, NEW e \in Escrows
  PROVE  /\ escrow \in [Escrows -> EscrowRecords] /\ escrow[e] \in EscrowRecords
         /\ hist \in [Escrows -> Histories] /\ hist[e] \in Histories
         /\ balance \in Ledgers
         /\ EscrowInv(e, escrow[e]) /\ IInv
  BY DEF HIInv, IInv, TypeOK

\* An escrow whose record, book and vault a step leaves alone is spared.
LEMMA SameIsSpared ==
  ASSUME HIInv, NEW k \in Escrows, escrow'[k] = escrow[k], hist'[k] = hist[k],
         balance' = balance
  PROVE  Spared(k)
  <1>1. Known(k) => balance[Vault(k)] \in Int
    BY I64Assumption, VaultFacts DEF HIInv, Amounts, U64
  <1> QED BY <1>1 DEF Spared

(* Steps of wallets, factories and the clock.                                    *)
LEMMA OutsideDeposits ==
  ASSUME HIInv,
         \/ HTick
         \/ \E t \in WalletTransfers : HWalletTransfer(t)
         \/ \E f \in Factories, v \in FactoryVersions : HFactoryInitialize(f, v)
  PROVE  Settlement!Deposit
  <1>1. CASE HTick \/ \E f \in Factories, v \in FactoryVersions : HFactoryInitialize(f, v)
    BY <1>1, SameIsSpared, SparedIsDeposit DEF HTick, Tick, HFactoryInitialize, FactoryInitialize
  <1>2. ASSUME NEW t \in WalletTransfers, HWalletTransfer(t)
        PROVE  Settlement!Deposit
    <2>1. \A k \in Escrows : Spared(k)
      BY <1>2, WalletsSpareVaults DEF HIInv, HWalletTransfer, WalletTransfer, Spared
    <2> QED BY <2>1, SparedIsDeposit
  <1> QED BY <1>1, <1>2

(* Initialize launches the job with what its pot holds already.                  *)
LEMMA InitializeLaunches ==
  ASSUME HIInv, NEW e \in Escrows, NEW call \in InitializeCalls, HInitialize(e, call)
  PROVE  Settlement!Only(e) /\ Settlement!Launch(e)
  <1>1. Settlement!Only(e)
    BY Facts, SameIsSpared, SparedIsOnly DEF HInitialize, Initialize
  <1>2. escrow[e].state = "Uninitialized"
    BY DEF HInitialize, Initialize, InitializeAccepts, EscrowInitialized
  <1>3. escrow'[e].state = "Launched" /\ escrow'[e].token_account = call.token_account
    BY Facts DEF HInitialize, Initialize, InitializeWrites, BlankEscrow
  <1>4. balance' = balance /\ balance[call.token_account] \in Nat /\ hist' = hist
    BY Facts, CallsAssumption, I64Assumption
       DEF HInitialize, Initialize, InitializeCall, Ledgers, Amounts, U64
  <1>5. Pot(e)' >= 0
    BY <1>3, <1>4 DEF Pot, Known, Vault, EscrowInitialized
  <1> QED BY <1>1, <1>2, <1>3, <1>4, <1>5 DEF Settlement!Launch, StageOf, Unsettled, PaidOut

(* An instruction that only adds a signature to the book and leaves vault and    *)
(* ledger alone keeps pot and accounts of its own job, and touches no other.     *)
LEMMA SignedLeavesPot ==
  ASSUME HIInv, NEW e \in Escrows, NEW h \in Signers, NEW new,
         escrow' = [escrow EXCEPT ![e] = new], Signed(e, h), balance' = balance,
         escrow[e].state # "Uninitialized", new.state # "Uninitialized",
         new.token_account = escrow[e].token_account
  PROVE  /\ Settlement!Only(e)
         /\ Pot(e)' = Pot(e) /\ PaidOut(e)' = PaidOut(e)
         /\ hist'[e].refunded = hist[e].refunded
  <1>1. Settlement!Only(e)
    BY Facts, SameIsSpared, SparedIsOnly DEF Signed
  <1>2. hist'[e] = SignedBook(hist[e], h)
    BY Facts DEF Signed
  <1>3. PaidOut(e)' = PaidOut(e) /\ hist'[e].refunded = hist[e].refunded
    BY <1>2, Facts, SignedBookEffect DEF PaidOut
  <1>4. Pot(e)' = Pot(e)
    BY Facts DEF Pot, Known, Vault, EscrowInitialized
  <1> QED BY <1>1, <1>3, <1>4

LEMMA SetupConfigures ==
  ASSUME HIInv, NEW e \in Escrows, NEW h \in Signers, NEW call \in SetupCalls,
         HSetup(e, h, call)
  PROVE  Settlement!Only(e) /\ Settlement!Configure(e)
  <1> DEFINE new == SetupWrites(escrow[e], call)
  <1>1. escrow[e].state = "Launched"
    BY DEF HSetup, Setup, SetupAccepts, StateCheck
  <1>2. new.state = "Pending" /\ new.token_account = escrow[e].token_account
    BY Facts DEF SetupWrites, EscrowRecords
  <1>3. /\ escrow' = [escrow EXCEPT ![e] = new] /\ balance' = balance /\ Signed(e, h)
    BY DEF HSetup, Setup
  <1> HIDE DEF new
  <1>4. /\ Settlement!Only(e)
        /\ Pot(e)' = Pot(e) /\ PaidOut(e)' = PaidOut(e)
        /\ hist'[e].refunded = hist[e].refunded
    BY <1>1, <1>2, <1>3, SignedLeavesPot
  <1>5. escrow'[e].state = "Pending"
    BY <1>2, <1>3, Facts
  <1> QED BY <1>1, <1>4, <1>5 DEF Settlement!Configure, StageOf, Unsettled

(* Results and totals are no business of the settlement.                         *)
LEMMA StoringDeposits ==
  ASSUME HIInv, NEW e \in Escrows, NEW h \in Signers,
         \/ \E r \in Results : HStoreResults(e, h, r)
         \/ \E call \in AmountsCalls : HStoreFinalAmounts(e, h, call)
  PROVE  Settlement!Deposit
  <1>1. escrow[e].state \in Unsettled
    BY DEF HStoreResults, StoreResults, StoreResultsAccepts, HStoreFinalAmounts,
           StoreFinalAmounts, StoreAmountsAccepts, StateCheck, Unsettled
  <1>2. PICK new : /\ escrow' = [escrow EXCEPT ![e] = new] /\ balance' = balance
                   /\ Signed(e, h)
                   /\ new.state = escrow[e].state
                   /\ new.token_account = escrow[e].token_account
    <2>1. CASE \E r \in Results : HStoreResults(e, h, r)
      BY ZenonT(30), <2>1, Facts DEF HStoreResults, StoreResults, StoreResultsWrites, EscrowRecords
    <2>2. CASE \E call \in AmountsCalls : HStoreFinalAmounts(e, h, call)
      BY ZenonT(30), <2>2, Facts DEF HStoreFinalAmounts, StoreFinalAmounts, StoreAmountsWrites, EscrowRecords
    <2> QED BY <2>1, <2>2
  <1>3. /\ Settlement!Only(e)
        /\ Pot(e)' = Pot(e) /\ PaidOut(e)' = PaidOut(e)
        /\ hist'[e].refunded = hist[e].refunded
    BY <1>1, <1>2, SignedLeavesPot DEF Unsettled
  <1>4. escrow'[e].state = escrow[e].state
    BY <1>2, Facts
  <1>5. Pot(e) \in Int
    BY Facts, VaultFacts, I64Assumption DEF Pot, Known, Amounts, U64
  <1> QED BY <1>3, <1>4, <1>5 DEF Settlement!Deposit, Settlement!Only

LEMMA CompleteCloses ==
  ASSUME HIInv, NEW e \in Escrows, NEW h \in Signers, HComplete(e, h)
  PROVE  Settlement!Only(e) /\ Settlement!Close(e)
  <1> DEFINE new == CompleteWrites(escrow[e])
  <1>1. escrow[e].state = "Paid"
    BY DEF HComplete, Complete, CompleteAccepts, StateCheck
  <1>2. new.state = "Complete" /\ new.token_account = escrow[e].token_account
    BY Facts DEF CompleteWrites, EscrowRecords
  <1>3. /\ escrow' = [escrow EXCEPT ![e] = new] /\ balance' = balance /\ Signed(e, h)
    BY DEF HComplete, Complete
  <1> HIDE DEF new
  <1>4. /\ Settlement!Only(e)
        /\ Pot(e)' = Pot(e) /\ PaidOut(e)' = PaidOut(e)
        /\ hist'[e].refunded = hist[e].refunded
    BY <1>1, <1>2, <1>3, SignedLeavesPot
  <1>5. escrow'[e].state = "Complete"
    BY <1>2, <1>3, Facts
  <1> QED BY <1>1, <1>4, <1>5 DEF Settlement!Close, StageOf, Unsettled

-----------------------------------------------------------------------------
(* The book of a payout grows by exactly the amount of the payout.               *)
LEMMA PayoutCountsAmount ==
  ASSUME HIInv, NEW e \in Escrows, NEW h \in Signers, NEW call \in PayoutCalls,
         HPayout(e, h, call)
  PROVE  /\ PaidOut(e)' = PaidOut(e) + call.amount
         /\ PaidOut(e) \in Nat
         /\ hist'[e].refunded = hist[e].refunded
  <1> DEFINE x == RecipientShare(escrow[e], call.amount)
             y == ReputationFee(escrow[e], call.amount)
             z == RecordingFee(escrow[e], call.amount)
  <1>1. call.amount \in Amounts /\ escrow[e].state \in Unsettled
    BY CallsAssumption
       DEF PayoutCall, HPayout, Payout, PayoutAccepts, StateCheck, Unsettled
  <1>2. /\ escrow[e].reputation_oracle_stake \in Percents
        /\ escrow[e].recording_oracle_stake \in Percents
        /\ escrow[e].reputation_oracle_stake + escrow[e].recording_oracle_stake <= 100
    BY <1>1, Facts DEF EscrowRecords, EscrowInv, OraclesKnown, Percents
  <1>3. /\ escrow[e].reputation_oracle_stake \in 0 .. 100
        /\ escrow[e].recording_oracle_stake \in 0 .. 100
    <2> DEFINE r == escrow[e].reputation_oracle_stake
               s == escrow[e].recording_oracle_stake
    <2>1. r \in Percents /\ s \in Percents /\ r + s <= 100
      BY <1>2
    <2> HIDE DEF r, s
    <2>2. r \in 0 .. 100 /\ s \in 0 .. 100
      BY <2>1 DEF Percents
    <2> QED BY <2>2 DEF r, s
  <1>4. x + y + z = call.amount
    BY <1>1, <1>2, <1>3, SharesAddUp DEF RecipientShare, ReputationFee, RecordingFee
  <1>5. x \in Amounts /\ y \in Amounts /\ z \in Amounts
    BY <1>1, <1>2, ShareTypes DEF RecipientShare, ReputationFee, RecordingFee
  <1>6. hist'[e] = PayoutBook(escrow[e], hist[e], h, call.amount)
    BY Facts DEF HPayout
  <1> HIDE DEF x, y, z
  <1>7. /\ hist'[e].recipients = hist[e].recipients + x
        /\ hist'[e].reputation = hist[e].reputation + y
        /\ hist'[e].recording = hist[e].recording + z
        /\ hist'[e].refunded = hist[e].refunded
    BY <1>6, Facts DEF PayoutBook, Histories, x, y, z
  <1>8. /\ hist[e].recipients \in Nat /\ hist[e].reputation \in Nat
        /\ hist[e].recording \in Nat
    BY Facts DEF Histories
  <1> QED BY <1>4, <1>5, <1>7, <1>8, I64Assumption DEF PaidOut, Amounts, U64

LEMMA PayoutPays ==
  ASSUME HIInv, NEW e \in Escrows, NEW h \in Signers, NEW call \in PayoutCalls,
         HPayout(e, h, call)
  PROVE  Settlement!Only(e) /\ Settlement!Pay(e)
  <1>1. Payout(e, h, call) /\ PayoutAccepts(e, escrow[e], balance, clock, h, call)
    BY DEF HPayout, Payout
  <1>2. \A k \in Escrows \ {e} : Spared(k)
    BY <1>1, Facts, PayoutSparesOthers DEF HPayout, Payout, Spared
  <1>3. escrow[e].state \in Unsettled /\ Known(e)
    BY <1>1 DEF PayoutAccepts, StateCheck, Unsettled, Known, EscrowInitialized
  <1>4. /\ escrow'[e].state \in {"Paid", "Partial"}
        /\ escrow'[e].token_account = escrow[e].token_account
    BY <1>1, Facts DEF Payout, PayoutWrites, EscrowRecords
  <1>5. Pot(e) = balance[Vault(e)] /\ Pot(e)' = balance'[Vault(e)]
    BY <1>3, <1>4 DEF Pot, Known, Vault, EscrowInitialized
  <1>6. balance'[Vault(e)] \in balance[Vault(e)] - call.amount .. balance[Vault(e)]
    BY <1>1, <1>3, Facts, VaultFacts, PayoutEffect DEF Payout, IInv
  <1>7. call.amount \in Amounts /\ call.amount <= balance[Vault(e)] /\ balance[Vault(e)] \in Amounts
    BY <1>1, <1>3, CallsAssumption, Facts, VaultFacts
       DEF PayoutCall, PayoutAccepts, PayoutAccountsMatch, Vault
  <1>8. PaidOut(e)' - PaidOut(e) \in 0 .. Pot(e)
    BY <1>5, <1>7, PayoutCountsAmount, I64Assumption DEF Amounts, U64
  <1>9. Pot(e) - Pot(e)' \in 0 .. PaidOut(e)' - PaidOut(e)
    BY <1>5, <1>6, <1>7, PayoutCountsAmount, I64Assumption DEF Amounts, U64
  <1>10. StageOf(escrow[e].state) = "active" /\ StageOf(escrow'[e].state) \in {"active", "settled"}
    BY <1>3, <1>4 DEF StageOf, Unsettled
  <1>11. hist'[e].refunded = hist[e].refunded
    BY PayoutCountsAmount
  <1> QED BY <1>2, <1>8, <1>9, <1>10, <1>11, SparedIsOnly DEF Settlement!Pay

LEMMA CancelRefunds ==
  ASSUME HIInv, NEW e \in Escrows, NEW h \in Signers, NEW call \in CancelCalls,
         HCancel(e, h, call)
  PROVE  Settlement!Only(e) /\ Settlement!Refund(e)
  <1>1. Cancel(e, h, call) /\ CancelAccepts(e, escrow[e], balance, h, call)
    BY DEF HCancel, Cancel
  <1>2. \A k \in Escrows \ {e} : Spared(k)
    BY <1>1, Facts, CancelSparesOthers DEF HCancel, Cancel, Spared
  <1>3. Known(e) /\ call.token_account = Vault(e) /\ balance[Vault(e)] # 0
    BY <1>1 DEF CancelAccepts, Known, Vault
  <1>4. escrow[e].state \in {"Launched", "Pending", "Partial", "Cancelled"}
    BY <1>1, Facts DEF CancelAccepts, EscrowInitialized, EscrowRecords, EscrowStates
  <1>5. /\ escrow'[e].state = "Cancelled"
        /\ escrow'[e].token_account = escrow[e].token_account
    BY <1>1, Facts DEF Cancel, CancelWrites, EscrowRecords
  <1>6. Pot(e) = balance[Vault(e)] /\ Pot(e)' = balance'[Vault(e)]
    BY <1>3, <1>5 DEF Pot, Known, Vault, EscrowInitialized
  <1>7. balance[Vault(e)] \in Nat /\ Vault(e) \in TokenAccounts
    BY <1>3, Facts, VaultFacts, I64Assumption DEF Amounts, U64
  <1>8. balance'[Vault(e)] \in {0, balance[Vault(e)]}
    BY <1>1, <1>3, <1>7, Facts DEF Cancel, CancelLedger, Transferred, Ledgers
  <1>9. hist'[e] = CancelBook(hist[e], h, balance[Vault(e)])
    BY <1>3, Facts DEF HCancel
  <1>10. /\ hist'[e].refunded = hist[e].refunded + Pot(e)
         /\ PaidOut(e)' = PaidOut(e)
    BY <1>6, <1>9, Facts DEF CancelBook, PaidOut, Histories
  <1>11. StageOf(escrow[e].state) \in {"open", "active", "refunded"}
         /\ StageOf(escrow'[e].state) = "refunded"
    BY <1>4, <1>5 DEF StageOf, Unsettled
  <1> QED BY <1>2, <1>3, <1>6, <1>7, <1>8, <1>10, <1>11, SparedIsOnly DEF Settlement!Refund

-----------------------------------------------------------------------------
(* The program settles its jobs as JobSettlement promises (see SettlesJobs).     *)
THEOREM JobsAreSettled == HSpec => SettlesJobs
  <1>1. HInit => Settlement!Init
    <2> SUFFICES ASSUME HInit
                 PROVE  Settlement!Init
      OBVIOUS
    <2>1. ASSUME NEW e \in Escrows
          PROVE  /\ escrow[e].state = "Uninitialized"
                 /\ hist[e].recipients = 0 /\ hist[e].reputation = 0
                 /\ hist[e].recording = 0 /\ hist[e].refunded = 0
      BY DEF HInit, Init, BlankEscrow, NoHistory
    <2>2. ASSUME NEW e \in Escrows
          PROVE  /\ StageOf(escrow[e].state) = "none"
                 /\ Pot(e) = 0 /\ PaidOut(e) = 0 /\ hist[e].refunded = 0
      BY <2>1 DEF StageOf, Unsettled, Pot, PaidOut, Known, EscrowInitialized
    <2> QED BY <2>2 DEF Settlement!Init
  <1>2. HIInv /\ [HNext]_hvars => [Settlement!Next]_(Settlement!settlement)
    <2> SUFFICES ASSUME HIInv, [HNext]_hvars
                 PROVE  Settlement!Next \/ UNCHANGED Settlement!settlement
      OBVIOUS
    <2>1. CASE UNCHANGED hvars
      BY <2>1, SameIsSpared, SparedIsDeposit DEF hvars, vars, Settlement!Next
    <2>2. CASE HNext
      BY <2>2, OutsideDeposits, InitializeLaunches, SetupConfigures, StoringDeposits,
         PayoutPays, CancelRefunds, CompleteCloses
         DEF HNext, Settlement!Next
    <2> QED BY <2>1, <2>2
  <1> QED BY <1>1, <1>2, BookInductive, PTL DEF SettlesJobs, Settlement!Spec, HSpec
=============================================================================
