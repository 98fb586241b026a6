--------------------------- MODULE EscrowClientsProofs ---------------------------
(****************************************************************************)
(* Requests of any number of clients, interleaved with each other, with time and *)
(* with wallets: what has been read stays usable, at most one batch ever lands on *)
(* an escrow and all of it does, and an answer of success is not undone.          *)
(*                                                                            *)
(* The proof has four parts.  Executing a transaction folds over its             *)
(* instructions; the first part turns that fold into a run and follows a batch    *)
(* along it, whatever its length (BatchLands).  The second says what a landed     *)
(* transaction of each command does to the escrow record (LandEffect) and what    *)
(* survives it.  The third is one lemma per step of a request, for the inductive  *)
(* invariant CInv.  The fourth follows the tokens: what a batch takes from the vault  *)
(* (BatchDebits), why the vault still covers it although it was looked at long before *)
(* (LookInv), and with both the refinement of JobSettlement (ClientsSettle).       *)
(****************************************************************************)
EXTENDS EscrowClients, EscrowLedgerProofs, FoldLemmas, FiniteSetTheorems

(* A total is where adding up one entry after the other ends.                     *)
LEMMA TotalRuns ==
  ASSUME NEW seq \in Seq(Int)
  PROVE  \E f : /\ f[0] = 0
                /\ \A i \in 1 .. Len(seq) : f[i] = f[i - 1] + seq[i]
                /\ Total(seq) = f[Len(seq)]
  <1> DEFINE n == Len(seq)
             g == [x \in (1 .. n) \X Int |-> x[2] + seq[x[1]]]
             iter == CHOOSE f : f = [s \in SUBSET DOMAIN seq |->
                       IF s = {} THEN 0
                       ELSE f[s \ {Max(s)}] + seq[Max(s)]]
  <1>1. n \in Nat /\ DOMAIN seq = 1 .. n /\ \A i \in 1 .. n : seq[i] \in Int
    OBVIOUS
  <1>2. Total(seq) = iter[DOMAIN seq]
    BY DEF Total, FoldLeft, MapThenFoldSet
  <1>3. g \in [(1 .. n) \X Int -> Int]
    BY <1>1
  <1>4. \E f : f = [s \in SUBSET DOMAIN seq |->
                      IF s = {} THEN 0
                      ELSE f[s \ {Max(s)}] + seq[Max(s)]]
    <2>1. PICK f \in [SUBSET (1 .. n) -> Int] : RunEquation(f, g, 0, n)
      <3>1. n \in Nat /\ 0 \in Int
        BY <1>1
      <3> HIDE DEF g, n
      <3>2. \E f \in [SUBSET (1 .. n) -> Int] : RunEquation(f, g, 0, n)
        BY <3>1, <1>3, RunExists
      <3> QED BY <3>2
    <2>2. ASSUME NEW s \in SUBSET (1 .. n), s # {}
          PROVE  g[<<Max(s), f[s \ {Max(s)}]>>] = f[s \ {Max(s)}] + seq[Max(s)]
      <3>1. Max(s) \in 1 .. n /\ f[s \ {Max(s)}] \in Int
        <4> HIDE DEF n
        <4> QED BY <1>1, <2>1, <2>2, MaxOfSome
      <3> QED BY <3>1
    <2>3. f = [s \in SUBSET (1 .. n) |-> IF s = {} THEN 0
                      ELSE f[s \ {Max(s)}] + seq[Max(s)]]
      <3> HIDE DEF g, n
      <3> QED BY <2>1, <2>2 DEF RunEquation
    <2> QED BY <1>1, <2>3
  <1>5. iter = [s \in SUBSET DOMAIN seq |->
                      IF s = {} THEN 0
                      ELSE iter[s \ {Max(s)}] + seq[Max(s)]]
    BY <1>4
  <1> DEFINE run == [i \in 0 .. n |-> iter[1 .. i]]
  <1> HIDE DEF iter
  <1>6. iter[{}] = 0 /\ iter[1 .. 0] = 0
    BY <1>5
  <1>7. ASSUME NEW i \in 1 .. n
        PROVE  iter[1 .. i] = iter[1 .. (i - 1)] + seq[i]
    <2>1. Max(1 .. i) = i /\ (1 .. i) \ {i} = 1 .. (i - 1)
      BY <1>1, MaxOfPrefix
    <2>2. (1 .. i) \in SUBSET DOMAIN seq /\ 1 .. i # {}
      <3>1. i \in Nat /\ 1 <= i /\ i <= n
        BY <1>1
      <3> HIDE DEF n
      <3>2. 1 .. i \subseteq 1 .. n /\ i \in 1 .. i
        BY <1>1, <3>1
      <3> QED BY <1>1, <3>2
    <2>3. iter[1 .. i] = iter[(1 .. i) \ {Max(1 .. i)}] + seq[Max(1 .. i)]
      BY <1>5, <2>2
    <2> QED BY <2>1, <2>3
  <1> HIDE DEF n
  <1>8. /\ run[0] = 0
        /\ \A i \in 1 .. n : run[i] = run[i - 1] + seq[i]
        /\ Total(seq) = run[n]
    BY <1>1, <1>2, <1>6, <1>7
  <1> QED BY <1>8 DEF n

(* A transaction is a run: each instruction starts where the one before it ended,  *)
(* and stays in V if every instruction does.                                      *)
LEMMA TransactionRuns ==
  ASSUME NEW r, NEW n \in Nat, DOMAIN wire[r].instructions = 1 .. n,
         NEW V, Untried(r) \in V,
         \A at \in V, i \in 1 .. n : Processed(r, at, wire[r].instructions[i]) \in V
  PROVE  \E run : /\ run[0] = Untried(r)
                  /\ \A i \in 1 .. n :
                       run[i] = Processed(r, run[i - 1], wire[r].instructions[i])
                  /\ \A i \in 0 .. n : run[i] \in V
                  /\ Executed(r) = run[n]
  <1> DEFINE seq == wire[r].instructions
             base == Untried(r)
             g == [x \in (1 .. n) \X V |-> Processed(r, x[2], seq[x[1]])]
             iter == CHOOSE f : f = [s \in SUBSET DOMAIN seq |->
                       IF s = {} THEN base
                       ELSE Processed(r, f[s \ {Max(s)}], seq[Max(s)])]
  <1>1. Executed(r) = iter[DOMAIN seq]
    BY DEF Executed, FoldLeft, MapThenFoldSet
  <1>2. g \in [(1 .. n) \X V -> V]
    OBVIOUS
  <1>3. \E f : f = [s \in SUBSET DOMAIN seq |->
                      IF s = {} THEN base
                      ELSE Processed(r, f[s \ {Max(s)}], seq[Max(s)])]
    <2>0. base \in V
      OBVIOUS
    <2>1. PICK f \in [SUBSET (1 .. n) -> V] : RunEquation(f, g, base, n)
      <3> HIDE DEF g, base
      <3>1. \E f \in [SUBSET (1 .. n) -> V] : RunEquation(f, g, base, n)
        BY <1>2, <2>0, RunExists
      <3> QED BY <3>1
    <2>2. ASSUME NEW s \in SUBSET (1 .. n), s # {}
          PROVE  g[<<Max(s), f[s \ {Max(s)}]>>] = Processed(r, f[s \ {Max(s)}], seq[Max(s)])
      <3>1. Max(s) \in 1 .. n /\ f[s \ {Max(s)}] \in V
        BY <2>1, <2>2, MaxOfSome
      <3> QED BY <3>1
    <2>3. f = [s \in SUBSET (1 .. n) |-> IF s = {} THEN base
                      ELSE Processed(r, f[s \ {Max(s)}], seq[Max(s)])]
      <3> HIDE DEF g, seq, base
      <3> QED BY <2>1, <2>2 DEF RunEquation
    <2> QED BY <2>3
  <1>4. iter = [s \in SUBSET DOMAIN seq |->
                      IF s = {} THEN base
                      ELSE Processed(r, iter[s \ {Max(s)}], seq[Max(s)])]
    BY <1>3
  <1> DEFINE run == [i \in 0 .. n |-> iter[1 .. i]]
  <1> HIDE DEF iter
  <1>5. iter[{}] = base /\ iter[1 .. 0] = base
    BY <1>4
  <1>6. ASSUME NEW i \in 1 .. n
        PROVE  iter[1 .. i] = Processed(r, iter[1 .. (i - 1)], seq[i])
    <2>1. Max(1 .. i) = i /\ (1 .. i) \ {i} = 1 .. (i - 1)
      BY MaxOfPrefix
    <2>2. (1 .. i) \in SUBSET DOMAIN seq /\ 1 .. i # {}
      <3>1. 1 .. i \subseteq 1 .. n /\ i \in 1 .. i
        OBVIOUS
      <3> QED BY <3>1
    <2>3. iter[1 .. i] = Processed(r, iter[(1 .. i) \ {Max(1 .. i)}], seq[Max(1 .. i)])
      BY <1>4, <2>2
    <2> QED BY <2>1, <2>3
  <1>7. /\ run[0] = base
        /\ \A i \in 1 .. n : run[i] = Processed(r, run[i - 1], seq[i])
        /\ Executed(r) = run[n]
    BY <1>1, <1>5, <1>6
  <1> HIDE DEF run
  <1>8. \A i \in 0 .. n : run[i] \in V
    <2> DEFINE P == {i \in 0 .. n : run[i] \in V}
    <2>1. 0 \in P
      BY <1>7
    <2>2. ASSUME NEW i \in 1 .. n, i - 1 \in P
          PROVE  i \in P
      BY <1>7, <2>2
    <2>3. \A i \in 0 .. n : i \in P
      <3> HIDE DEF P
      <3> QED BY <2>1, <2>2, PrefixInduction
    <2> QED BY <2>3
  <1> QED BY <1>7, <1>8

-----------------------------------------------------------------------------
(* Amounts of a payouts file are u64 once they are converted.                    *)
LEMMA BaseUnitsType ==
  ASSUME NEW ui \in Int
  PROVE  BaseUnits(ui) \in Amounts
  <1> DEFINE q == ui \div UiUnit
  <1>1. ui >= 0 => q \in Nat
    BY ClientsAssumption
  <1>2. BaseUnits(ui) = CASE ui < 0 -> 0 [] ui >= 0 /\ q < U64 -> q [] OTHER -> U64 - 1
    BY DEF BaseUnits
  <1> HIDE DEF q
  <1>3. CASE ui < 0
    BY <1>2, <1>3, I64Assumption DEF Amounts, U64
  <1>4. CASE ui >= 0 /\ q < U64
    BY <1>1, <1>2, <1>4, I64Assumption DEF Amounts, U64
  <1>5. CASE ui >= 0 /\ ~(q < U64)
    BY <1>2, <1>5, I64Assumption DEF Amounts, U64
  <1> QED BY <1>3, <1>4, <1>5

(* A batch has as many amounts as its file has entries, and a total.              *)
LEMMA BatchTypes ==
  ASSUME NEW r \in Requests, Command(r) = "bulkPayout"
  PROVE  LET n == Len(Request[r].payouts) IN
         /\ n \in Nat /\ n < I64
         /\ DOMAIN Request[r].payouts = 1 .. n
         /\ BatchAmounts(r) \in Seq(Amounts)
         /\ Len(BatchAmounts(r)) = n
         /\ \A i \in 1 .. n : BatchAmounts(r)[i] \in Amounts
                              /\ Request[r].payouts[i].recipient \in TokenAccounts
         /\ BatchTotal(r) \in Amounts
         /\ n \in Amounts
  <1> DEFINE file == Request[r].payouts
             n == Len(file)
             uis == [i \in DOMAIN file |-> file[i].ui]
  <1>1. /\ file \in Seq([recipient: TokenAccounts, ui: Int]) /\ n < I64
        /\ Request[r].rounding \in Int
    BY ClientsAssumption DEF PayoutFiles, Command
  <1> HIDE DEF file
  <1>2. n \in Nat /\ DOMAIN file = 1 .. n
    BY <1>1
  <1>3. \A i \in 1 .. n : file[i].recipient \in TokenAccounts /\ file[i].ui \in Int
    <2> DEFINE R == [recipient: TokenAccounts, ui: Int]
    <2>1. file \in Seq(R)
      BY <1>1
    <2>2. \A x \in R : x.recipient \in TokenAccounts /\ x.ui \in Int
      OBVIOUS
    <2> HIDE DEF R
    <2>3. \A i \in 1 .. n : file[i] \in R
      BY <2>1
    <2> QED BY <2>2, <2>3
  <1>4. \A i \in 1 .. n : BaseUnits(file[i].ui) \in Amounts
    BY <1>3, BaseUnitsType
  <1>5. BatchAmounts(r) = [i \in 1 .. n |-> BaseUnits(file[i].ui)]
    BY <1>2 DEF BatchAmounts, file
  <1> HIDE DEF n
  <1>6. BatchAmounts(r) \in Seq(Amounts) /\ Len(BatchAmounts(r)) = n
    BY <1>2, <1>4, <1>5
  <1>7. uis \in Seq(Int)
    BY <1>2, <1>3
  <1> HIDE DEF uis
  <1>8. Total(uis) \in Int
    <2>1. PICK f : /\ f[0] = 0
                   /\ \A i \in 1 .. Len(uis) : f[i] = f[i - 1] + uis[i]
                   /\ Total(uis) = f[Len(uis)]
      BY <1>7, TotalRuns
    <2> DEFINE P == {i \in 0 .. Len(uis) : f[i] \in Int}
    <2>2. Len(uis) \in Nat /\ \A i \in 1 .. Len(uis) : uis[i] \in Int
      BY <1>7
    <2>3. 0 \in P
      BY <2>1, <2>2
    <2>4. ASSUME NEW i \in 1 .. Len(uis), i - 1 \in P
          PROVE  i \in P
      BY <2>1, <2>2, <2>4
    <2>5. \A i \in 0 .. Len(uis) : i \in P
      <3> HIDE DEF P
      <3> QED BY <2>2, <2>3, <2>4, PrefixInduction
    <2> QED BY <2>1, <2>2, <2>5
  <1>9. BatchTotal(r) = BaseUnits(Total(uis) + Request[r].rounding)
    BY DEF BatchTotal, uis, file
  <1>10. BatchTotal(r) \in Amounts
    BY <1>1, <1>8, <1>9, BaseUnitsType
  <1>11. n \in Amounts /\ n < I64
    BY <1>1, <1>2, I64Assumption DEF Amounts, U64, n
  <1>12. \A i \in 1 .. n : BatchAmounts(r)[i] \in Amounts
    BY <1>4, <1>5
  <1> QED BY <1>2, <1>3, <1>6, <1>10, <1>11, <1>12 DEF n, file

-----------------------------------------------------------------------------
(* The instructions a command may put into its transaction, whatever it has read *)
InstructionOf(r, i) ==
  \/ /\ Command(r) = "create"
     /\ i = [kind |-> "Initialize", call |-> Request[r].call]
  \/ /\ Command(r) = "setup"
     /\ i = [kind |-> "Setup", call |-> Request[r].call]
  \/ /\ Command(r) = "storeResults"
     /\ i = [kind |-> "StoreResults", call |-> Request[r].results]
  \/ /\ Command(r) = "bulkPayout"
     /\ i = [kind |-> "StoreFinalAmounts",
             call |-> [total_amount |-> BatchTotal(r),
                       total_recipients |-> Len(Request[r].payouts)]]
  \/ /\ Command(r) = "bulkPayout"
     /\ \E s, k : k \in DOMAIN Request[r].payouts /\ i = PayoutInstruction(r, s, k)
  \/ /\ Command(r) \in {"cancel", "abort"}
     /\ \E s : i = [kind |-> "Cancel",
                    call |-> [token_account |-> s.token_account,
                              authority |-> Authority[Escrow(r)],
                              canceler_token_account |-> s.canceler_token_account]]
  \/ /\ Command(r) = "complete"
     /\ i = [kind |-> "Complete"]

(* What the escrow and the ledger may be between two instructions                *)
AccountInv(e, esc) ==
  /\ EscrowInv(e, esc)
  /\ EscrowInitialized(esc) => esc.canceler_token_account \in TokenAccounts

Between(e) ==
  {at \in [accepted: BOOLEAN, escrow: EscrowRecords, ledger: Ledgers, returned: Nat] :
     AccountInv(e, at.escrow)}

(* All but Initialize leave the account for refunds as it is.                    *)
LEMMA RefundAccountStays ==
  ASSUME NEW esc \in EscrowRecords
  PROVE  LET account == esc.canceler_token_account IN
         /\ \A call : SetupWrites(esc, call).canceler_token_account = account
         /\ \A x : StoreResultsWrites(esc, x).canceler_token_account = account
         /\ \A call : StoreAmountsWrites(esc, call).canceler_token_account = account
         /\ \A n : PayoutWrites(esc, n).canceler_token_account = account
         /\ CancelWrites(esc).canceler_token_account = account
         /\ CompleteWrites(esc).canceler_token_account = account
  BY DEF SetupWrites, StoreResultsWrites, StoreAmountsWrites, PayoutWrites, CancelWrites,
         CompleteWrites, EscrowRecords

(* An instruction of one of the commands, accepted or refused, leaves the escrow a *)
(* record with its invariant and the ledger a ledger.                             *)
LEMMA ProcessedType ==
  ASSUME clock \in Timestamps, NEW r \in Requests, NEW at \in Between(Escrow(r)), NEW i,
         InstructionOf(r, i)
  PROVE  Processed(r, at, i) \in Between(Escrow(r))
  <1> DEFINE e == Escrow(r)
             esc == at.escrow
             Ok == /\ Written(at, i) \in EscrowRecords
                   /\ AccountInv(e, Written(at, i))
                   /\ Moved(at, i) \in Ledgers
                   /\ Refunded(at, i) \in Nat
  <1>1. /\ at = [accepted |-> at.accepted, escrow |-> at.escrow, ledger |-> at.ledger,
                 returned |-> at.returned]
        /\ at.accepted \in BOOLEAN /\ esc \in EscrowRecords /\ at.ledger \in Ledgers
        /\ at.returned \in Nat /\ AccountInv(e, esc) /\ EscrowInv(e, esc)
    BY DEF Between, AccountInv
  <1>2. e \in Escrows
    BY ClientsAssumption DEF Escrow
  <1>3. ASSUME Accepted(r, at, i) PROVE Ok
    <2>1. CASE i.kind = "Initialize"
      <3>1. i.call \in InitializeCall
        BY <2>1, ClientsAssumption DEF InstructionOf, Command, PayoutInstruction
      <3>2. InitializeAccepts(e, esc, version[i.call.factory], i.call)
        BY <1>3, <2>1 DEF Accepted
      <3>3. /\ Written(at, i) = InitializeWrites(clock, i.call)
            /\ Moved(at, i) = at.ledger /\ Refunded(at, i) = 0
        BY <2>1 DEF Written, Moved, Refunded
      <3>4. InitializeWrites(clock, i.call).canceler_token_account \in TokenAccounts
        BY <3>1 DEF InitializeWrites, InitializeCall, BlankEscrow
      <3> QED BY <1>1, <3>1, <3>2, <3>3, <3>4, InitializeWritesType, InstructionsKeepEscrowInv
              DEF AccountInv
    <2>2. CASE i.kind = "Setup"
      <3>1. i.call \in SetupCall
        BY <2>2, ClientsAssumption DEF InstructionOf, Command, PayoutInstruction
      <3>2. SetupAccepts(esc, clock, Signer(r), i.call)
        BY <1>3, <2>2 DEF Accepted
      <3>3. /\ Written(at, i) = SetupWrites(esc, i.call)
            /\ Moved(at, i) = at.ledger /\ Refunded(at, i) = 0
        BY <2>2 DEF Written, Moved, Refunded
      <3>4. esc.canceler_token_account \in TokenAccounts
        BY <1>1, <3>2 DEF AccountInv, SetupAccepts, StateCheck
      <3> QED BY <1>1, <3>1, <3>2, <3>3, <3>4,
              SetupWritesType, InstructionsKeepEscrowInv, RefundAccountStays DEF AccountInv
    <2>3. CASE i.kind = "StoreResults"
      <3>1. i.call \in Documents
        BY <2>3, ClientsAssumption DEF InstructionOf, Command, PayoutInstruction
      <3>2. StoreResultsAccepts(esc, clock, Signer(r))
        BY <1>3, <2>3 DEF Accepted
      <3>3. /\ Written(at, i) = StoreResultsWrites(esc, i.call)
            /\ Moved(at, i) = at.ledger /\ Refunded(at, i) = 0
        BY <2>3 DEF Written, Moved, Refunded
      <3>4. esc.canceler_token_account \in TokenAccounts
        BY <1>1, <3>2 DEF AccountInv, StoreResultsAccepts, StateCheck
      <3> QED BY <1>1, <3>1, <3>2, <3>3, <3>4,
              StoreResultsWritesType, InstructionsKeepEscrowInv, RefundAccountStays DEF AccountInv
    <2>4. CASE i.kind = "StoreFinalAmounts"
      <3>1. i.call \in AmountsCall
        BY <2>4, BatchTypes DEF InstructionOf, PayoutInstruction, AmountsCall
      <3>2. StoreAmountsAccepts(esc, clock, Signer(r))
        BY <1>3, <2>4 DEF Accepted
      <3>3. /\ Written(at, i) = StoreAmountsWrites(esc, i.call)
            /\ Moved(at, i) = at.ledger /\ Refunded(at, i) = 0
        BY <2>4 DEF Written, Moved, Refunded
      <3>4. esc.canceler_token_account \in TokenAccounts
        BY <1>1, <3>2 DEF AccountInv, StoreAmountsAccepts, StateCheck
      <3> QED BY <1>1, <3>1, <3>2, <3>3, <3>4,
              StoreAmountsWritesType, InstructionsKeepEscrowInv, RefundAccountStays DEF AccountInv
    <2>5. CASE i.kind = "Payout"
      <3>1. PayoutAccepts(e, esc, at.ledger, clock, Signer(r), i.call)
        BY <1>3, <2>5 DEF Accepted
      <3>2. PICK s, k : /\ Command(r) = "bulkPayout"
                        /\ k \in DOMAIN Request[r].payouts
                        /\ i = PayoutInstruction(r, s, k)
        BY <2>5 DEF InstructionOf
      <3>3. i.call.amount \in Amounts /\ i.call.recipient_token_account \in TokenAccounts
        BY <3>2, BatchTypes DEF PayoutInstruction
      <3>4. /\ esc.state \in Unsettled
            /\ i.call.token_account = esc.token_account
            /\ i.call.reputation_oracle_token_account = esc.reputation_oracle_token_account
            /\ i.call.recording_oracle_token_account = esc.recording_oracle_token_account
            /\ i.call.authority = Authority[e]
        BY <3>1 DEF PayoutAccepts, PayoutAccountsMatch, StateCheck, Unsettled
      <3>5. /\ esc.token_account \in TokenAccounts
            /\ esc.reputation_oracle_token_account \in TokenAccounts
            /\ esc.recording_oracle_token_account \in TokenAccounts
        BY <1>1, <3>4 DEF EscrowInv, OwnsVault, OraclesKnown, EscrowInitialized, Unsettled
      <3>6. Authority[e] \in Keys
        BY <1>2, AuthorityAssumption
      <3>7. i.call \in PayoutCall
        BY <3>2, <3>3, <3>4, <3>5, <3>6 DEF PayoutCall, PayoutInstruction
      <3>8. PayoutTransfersSucceed(esc, at.ledger, i.call)
        BY <3>1 DEF PayoutAccepts
      <3>9. PayoutLedger(esc, at.ledger, i.call) \in Ledgers
        BY <1>1, <3>7, <3>8, PayoutLedgerType
      <3>10. /\ Written(at, i) = PayoutWrites(esc, i.call.amount)
             /\ Moved(at, i) = PayoutLedger(esc, at.ledger, i.call) /\ Refunded(at, i) = 0
        BY <2>5 DEF Written, Moved, Refunded
      <3>11. esc.canceler_token_account \in TokenAccounts
        BY <1>1, <3>1 DEF AccountInv, PayoutAccepts, StateCheck
      <3> QED BY <1>1, <3>1, <3>3, <3>9, <3>10, <3>11,
              PayoutWritesType, InstructionsKeepEscrowInv, RefundAccountStays DEF AccountInv
    <2>6. CASE i.kind = "Cancel"
      <3>1. CancelAccepts(e, esc, at.ledger, Signer(r), i.call)
        BY <1>3, <2>6 DEF Accepted
      <3>2. PICK s : i = [kind |-> "Cancel",
                          call |-> [token_account |-> s.token_account,
                                    authority |-> Authority[Escrow(r)],
                                    canceler_token_account |-> s.canceler_token_account]]
        BY <2>6 DEF InstructionOf, PayoutInstruction
      <3>3. /\ i.call.token_account = esc.token_account
            /\ esc.token_account \in TokenAccounts
        BY <1>1, <3>1 DEF CancelAccepts, EscrowInv, OwnsVault
      <3>4. i.call.canceler_token_account = esc.canceler_token_account
        BY <3>1 DEF CancelAccepts
      <3>5. /\ esc.canceler_token_account \in TokenAccounts
            /\ i.call \in CancelCall
        <4>1. esc.canceler_token_account \in TokenAccounts
          BY <1>1, <3>1 DEF AccountInv, CancelAccepts
        <4>2. Authority[Escrow(r)] \in Keys
          BY <1>2, AuthorityAssumption
        <4> QED BY <3>2, <3>3, <3>4, <4>1, <4>2 DEF CancelCall
      <3>6. /\ CancelLedger(at.ledger, i.call) \in Ledgers
            /\ at.ledger[i.call.token_account] \in Nat
        BY <1>1, <3>1, <3>3, <3>5, CancelLedgerType, I64Assumption DEF Ledgers, Amounts, U64
      <3>7. /\ Written(at, i) = CancelWrites(esc)
            /\ Moved(at, i) = CancelLedger(at.ledger, i.call)
            /\ Refunded(at, i) = at.ledger[i.call.token_account]
        BY <2>6 DEF Written, Moved, Refunded
      <3> QED BY <1>1, <3>1, <3>5, <3>6, <3>7,
              CancelWritesType, InstructionsKeepEscrowInv, RefundAccountStays DEF AccountInv
    <2>7. CASE i.kind = "Complete"
      <3>1. CompleteAccepts(esc, clock, Signer(r))
        BY <1>3, <2>7 DEF Accepted
      <3>2. /\ Written(at, i) = CompleteWrites(esc)
            /\ Moved(at, i) = at.ledger /\ Refunded(at, i) = 0
        BY <2>7 DEF Written, Moved, Refunded
      <3>3. esc.canceler_token_account \in TokenAccounts
        BY <1>1, <3>1 DEF AccountInv, CompleteAccepts, StateCheck
      <3> QED BY <1>1, <3>1, <3>2, <3>3,
              CompleteWritesType, InstructionsKeepEscrowInv, RefundAccountStays DEF AccountInv
    <2> QED BY <2>1, <2>2, <2>3, <2>4, <2>5, <2>6, <2>7 DEF InstructionOf, PayoutInstruction
  <1>4. CASE at.accepted /\ Accepted(r, at, i)
    <2>1. Ok
      BY <1>3, <1>4
    <2>2. at.returned + Refunded(at, i) \in Nat
      BY <1>1, <2>1
    <2>3. Processed(r, at, i) =
            [accepted |-> TRUE, escrow |-> Written(at, i), ledger |-> Moved(at, i),
             returned |-> at.returned + Refunded(at, i)]
      BY <1>4 DEF Processed
    <2> QED BY <2>1, <2>2, <2>3 DEF Between
  <1>5. CASE ~(at.accepted /\ Accepted(r, at, i))
    <2>1. Processed(r, at, i) =
            [accepted |-> FALSE, escrow |-> at.escrow, ledger |-> at.ledger,
             returned |-> at.returned]
      BY <1>1, <1>5 DEF Processed
    <2> QED BY <1>1, <2>1 DEF Between
  <1> QED BY <1>4, <1>5

(* What a command sends has this shape, whatever it has read: one instruction,   *)
(* but for a batch, which is its totals and one payout for each entry.           *)
LEMMA InstructionsShape ==
  ASSUME NEW r \in Requests, NEW s
  PROVE  LET ins == Instructions(r, s)
             n == Len(Request[r].payouts)
         IN
         /\ Command(r) # "bulkPayout" => DOMAIN ins = 1 .. 1 /\ InstructionOf(r, ins[1])
         /\ Command(r) = "bulkPayout" =>
              /\ DOMAIN ins = 1 .. (n + 1)
              /\ ins[1] = [kind |-> "StoreFinalAmounts",
                           call |-> [total_amount |-> BatchTotal(r), total_recipients |-> n]]
              /\ \A k \in 1 .. n : ins[k + 1] = PayoutInstruction(r, s, k)
  <1>0. Command(r) \in Commands
    BY ClientsAssumption DEF Command
  <1>1. ASSUME Command(r) # "bulkPayout"
        PROVE  \E i : Instructions(r, s) = <<i>> /\ InstructionOf(r, i)
    <2>1. CASE Command(r) = "create"
      BY <2>1 DEF Instructions, CreateInstructions, InstructionOf
    <2>2. CASE Command(r) = "setup"
      BY <2>2 DEF Instructions, SetupInstructions, InstructionOf
    <2>3. CASE Command(r) = "storeResults"
      BY <2>3 DEF Instructions, ResultsInstructions, InstructionOf
    <2>4. CASE Command(r) \in {"cancel", "abort"}
      <3>1. Instructions(r, s) = CancelInstructions(r, s)
        BY <2>4 DEF Instructions
      <3> QED BY <2>4, <3>1 DEF CancelInstructions, InstructionOf
    <2>5. CASE Command(r) = "complete"
      BY <2>5 DEF Instructions, CompleteInstructions, InstructionOf
    <2> QED BY <1>0, <1>1, <2>1, <2>2, <2>3, <2>4, <2>5 DEF Commands
  <1>2. Command(r) # "bulkPayout" =>
          DOMAIN Instructions(r, s) = 1 .. 1 /\ InstructionOf(r, Instructions(r, s)[1])
    BY <1>1
  <1>3. CASE Command(r) = "bulkPayout"
    <2> DEFINE n == Len(Request[r].payouts)
               first == [kind |-> "StoreFinalAmounts",
                         call |-> [total_amount |-> BatchTotal(r), total_recipients |-> n]]
               rest == [i \in 1 .. n |-> PayoutInstruction(r, s, i)]
    <2>1. n \in Nat /\ DOMAIN Request[r].payouts = 1 .. n
      BY <1>3, BatchTypes
    <2>2. Instructions(r, s) = <<first>> \o rest
      BY <1>3, <2>1 DEF Instructions, BatchInstructions
    <2> HIDE DEF n, first
    <2>3. <<first>> \in Seq({first}) /\ Len(<<first>>) = 1 /\ <<first>>[1] = first
      OBVIOUS
    <2> DEFINE X == {PayoutInstruction(r, s, i) : i \in 1 .. n}
    <2>4. rest \in Seq(X) /\ Len(rest) = n
      <3>1. rest \in [1 .. n -> X]
        OBVIOUS
      <3> HIDE DEF X, rest
      <3> QED BY <2>1, <3>1
    <2> HIDE DEF rest
    <2>5. /\ DOMAIN (<<first>> \o rest) = 1 .. (n + 1)
          /\ (<<first>> \o rest)[1] = first
          /\ \A k \in 1 .. n : (<<first>> \o rest)[k + 1] = rest[k]
      BY <2>1, <2>3, <2>4
    <2>6. \A k \in 1 .. n : rest[k] = PayoutInstruction(r, s, k)
      BY DEF rest
    <2> QED BY <1>3, <2>2, <2>5, <2>6 DEF n, first
  <1> QED BY <1>2, <1>3

(* A refused instruction is the end of its transaction.                          *)
LEMMA ProcessedCases ==
  ASSUME NEW r, NEW at, NEW i, at.accepted \in BOOLEAN
  PROVE  Processed(r, at, i).accepted =>
           /\ at.accepted /\ Accepted(r, at, i)
           /\ Processed(r, at, i) =
                [accepted |-> TRUE, escrow |-> Written(at, i), ledger |-> Moved(at, i),
                 returned |-> at.returned + Refunded(at, i)]
  BY DEF Processed

-----------------------------------------------------------------------------
(* The transaction of r as a run from one instruction to the next                *)
LEMMA TransactionSteps ==
  ASSUME clock \in Timestamps, NEW r \in Requests, NEW s,
         wire[r].instructions = Instructions(r, s),
         NEW n \in Nat, DOMAIN Instructions(r, s) = 1 .. n,
         Untried(r) \in Between(Escrow(r))
  PROVE  \E run : /\ run[0] = Untried(r)
                  /\ \A i \in 1 .. n : run[i] = Processed(r, run[i - 1], Instructions(r, s)[i])
                  /\ \A i \in 0 .. n : run[i] \in Between(Escrow(r))
                  /\ Executed(r) = run[n]
  <1> DEFINE V == Between(Escrow(r))
  <1>1. \A i \in 1 .. n : InstructionOf(r, Instructions(r, s)[i])
    <2>1. CASE Command(r) # "bulkPayout"
      <3>1. DOMAIN Instructions(r, s) = 1 .. 1 /\ InstructionOf(r, Instructions(r, s)[1])
        BY <2>1, InstructionsShape
      <3>2. \A i \in 1 .. n : i = 1
        <4>1. 1 .. n = 1 .. 1
          BY <3>1
        <4> QED BY <4>1
      <3> QED BY <3>1, <3>2
    <2>2. CASE Command(r) = "bulkPayout"
      <3> DEFINE m == Len(Request[r].payouts)
                 ins == Instructions(r, s)
      <3>1. /\ m \in Nat /\ DOMAIN Request[r].payouts = 1 .. m
            /\ DOMAIN ins = 1 .. (m + 1)
            /\ ins[1] = [kind |-> "StoreFinalAmounts",
                         call |-> [total_amount |-> BatchTotal(r), total_recipients |-> m]]
            /\ \A k \in 1 .. m : ins[k + 1] = PayoutInstruction(r, s, k)
        BY <2>2, BatchTypes, InstructionsShape
      <3>2. InstructionOf(r, ins[1])
        BY <2>2, <3>1 DEF InstructionOf
      <3>3. ASSUME NEW k \in 1 .. m PROVE InstructionOf(r, ins[k + 1])
        BY <2>2, <3>1 DEF InstructionOf
      <3> HIDE DEF m, ins
      <3>4. ASSUME NEW i \in 1 .. n PROVE InstructionOf(r, ins[i])
        <4>1. i \in 1 .. (m + 1)
          BY <3>1 DEF ins
        <4>2. CASE i = 1
          BY <3>2, <4>2
        <4>3. CASE i # 1
          <5>1. i - 1 \in 1 .. m /\ (i - 1) + 1 = i
            BY <3>1, <4>1, <4>3
          <5> QED BY <3>3, <5>1
        <4> QED BY <4>2, <4>3
      <3> QED BY <3>4 DEF ins
    <2> QED BY <2>1, <2>2
  <1>2. \A at \in V, i \in 1 .. n : Processed(r, at, wire[r].instructions[i]) \in V
    BY <1>1, ProcessedType
  <1> HIDE DEF V
  <1>3. Untried(r) \in V
    BY DEF V
  <1>4. \E run : /\ run[0] = Untried(r)
                 /\ \A i \in 1 .. n : run[i] = Processed(r, run[i - 1], wire[r].instructions[i])
                 /\ \A i \in 0 .. n : run[i] \in V
                 /\ Executed(r) = run[n]
    BY ZenonT(30), <1>2, <1>3, TransactionRuns
  <1> QED BY <1>4 DEF V

(* A transaction of one instruction that lands is that instruction.              *)
LEMMA SingleLands ==
  ASSUME clock \in Timestamps, NEW r \in Requests, NEW s,
         wire[r].instructions = Instructions(r, s), Command(r) # "bulkPayout",
         Untried(r) \in Between(Escrow(r)), Executed(r).accepted
  PROVE  LET i == Instructions(r, s)[1]
             at == Untried(r)
         IN  /\ InstructionOf(r, i)
             /\ Accepted(r, at, i)
             /\ Executed(r).escrow = Written(at, i)
             /\ Executed(r).ledger = Moved(at, i)
             /\ Executed(r).returned = at.returned + Refunded(at, i)
             /\ Executed(r) \in Between(Escrow(r))
  <1>1. DOMAIN Instructions(r, s) = 1 .. 1 /\ InstructionOf(r, Instructions(r, s)[1])
    BY InstructionsShape
  <1>2. PICK n \in Nat : n = 1
    OBVIOUS
  <1>3. DOMAIN Instructions(r, s) = 1 .. n
    BY <1>1, <1>2
  <1>4. PICK run : /\ run[0] = Untried(r)
                   /\ \A i \in 1 .. n : run[i] = Processed(r, run[i - 1], Instructions(r, s)[i])
                   /\ \A i \in 0 .. n : run[i] \in Between(Escrow(r))
                   /\ Executed(r) = run[n]
    BY <1>3, TransactionSteps
  <1>5. /\ Executed(r) = Processed(r, Untried(r), Instructions(r, s)[1])
        /\ Executed(r) \in Between(Escrow(r))
    BY <1>2, <1>4
  <1>6. Untried(r).accepted \in BOOLEAN
    BY DEF Untried
  <1> QED BY <1>1, <1>5, <1>6, ProcessedCases

-----------------------------------------------------------------------------
(* The fields no batch writes                                                    *)
FixedFields ==
  {"token_account", "canceler_token_account", "reputation_oracle",
   "reputation_oracle_token_account", "reputation_oracle_stake", "recording_oracle",
   "recording_oracle_token_account", "recording_oracle_stake", "manifest", "final_results"}

Fixed(old, new) == \A field \in FixedFields : new[field] = old[field]

(* What the two instructions of a batch do to a record, field by field           *)
LEMMA BatchWrites ==
  ASSUME NEW esc \in EscrowRecords
  PROVE  /\ \A call : LET new == StoreAmountsWrites(esc, call) IN
              /\ Fixed(esc, new)
              /\ new.total_amount = call.total_amount
              /\ new.total_recipients = call.total_recipients
              /\ new.sent_amount = esc.sent_amount
              /\ new.sent_recipients = esc.sent_recipients
         /\ \A amount : LET new == PayoutWrites(esc, amount) IN
              /\ Fixed(esc, new)
              /\ new.total_amount = esc.total_amount
              /\ new.total_recipients = esc.total_recipients
              /\ new.sent_amount = WrapAdd(esc.sent_amount, amount)
              /\ new.sent_recipients = WrapAdd(esc.sent_recipients, 1)
              /\ new.state = IF new.sent_recipients = esc.total_recipients
                                /\ new.sent_amount = esc.total_amount
                             THEN "Paid" ELSE "Partial"
  <1>1. ASSUME NEW call
        PROVE  LET new == StoreAmountsWrites(esc, call) IN
               /\ Fixed(esc, new)
               /\ new.total_amount = call.total_amount
               /\ new.total_recipients = call.total_recipients
               /\ new.sent_amount = esc.sent_amount
               /\ new.sent_recipients = esc.sent_recipients
    BY DEF StoreAmountsWrites, EscrowRecords, Fixed, FixedFields
  <1>2. ASSUME NEW amount
        PROVE  LET new == PayoutWrites(esc, amount) IN
               /\ Fixed(esc, new)
               /\ new.total_amount = esc.total_amount
               /\ new.total_recipients = esc.total_recipients
               /\ new.sent_amount = WrapAdd(esc.sent_amount, amount)
               /\ new.sent_recipients = WrapAdd(esc.sent_recipients, 1)
               /\ new.state = IF new.sent_recipients = esc.total_recipients
                                 /\ new.sent_amount = esc.total_amount
                              THEN "Paid" ELSE "Partial"
    BY DEF PayoutWrites, EscrowRecords, Fixed, FixedFields
  <1> QED BY <1>1, <1>2

(* What two parts of a batch both leave alone, they leave alone together.          *)
LEMMA FixedIsTransitive ==
  ASSUME NEW a, NEW b, NEW c, Fixed(a, b), Fixed(b, c)
  PROVE  Fixed(a, c)
  BY DEF Fixed

(* The i-th payout of an accepted batch finds the totals of the batch, and the    *)
(* counters of the account as it was before, advanced by the payouts in front.    *)
BatchAt(r, old, new, sum, i) ==
  LET n == Len(Request[r].payouts)
      recipients == (old.sent_recipients + i) % U64
      amount == (old.sent_amount + sum) % U64
  IN  /\ old.state \in Unsettled
      /\ Fixed(old, new)
      /\ new.total_amount = BatchTotal(r)
      /\ new.total_recipients = n
      /\ new.sent_recipients = recipients
      /\ new.sent_amount = amount
      /\ i > 0 => /\ recipients <= n /\ amount <= BatchTotal(r)
                  /\ new.state = IF recipients = n /\ amount = BatchTotal(r)
                                 THEN "Paid" ELSE "Partial"

(* The totals are stored before the first payout, ...                             *)
LEMMA BatchAtStart ==
  ASSUME NEW r \in Requests, Command(r) = "bulkPayout", NEW esc \in EscrowRecords,
         NEW now, StoreAmountsAccepts(esc, now, Signer(r))
  PROVE  BatchAt(r, esc, StoreAmountsWrites(esc, [total_amount |-> BatchTotal(r),
                                                  total_recipients |-> Len(Request[r].payouts)]),
                 0, 0)
  <1>1. esc.sent_amount \in Amounts /\ esc.sent_recipients \in Amounts
    BY DEF EscrowRecords
  <1>2. ASSUME NEW a \in Amounts PROVE (a + 0) % U64 = a
    BY I64Assumption, Z3 DEF Amounts, U64
  <1>3. esc.state \in Unsettled
    BY DEF StoreAmountsAccepts, StateCheck, Unsettled
  <1> QED BY <1>1, <1>2, <1>3, BatchWrites DEF BatchAt

(* ... and each payout that is accepted advances the counters by itself.           *)
LEMMA BatchAtStep ==
  ASSUME NEW r \in Requests, Command(r) = "bulkPayout", NEW old \in EscrowRecords,
         NEW esc \in EscrowRecords, NEW sum \in Nat, NEW i \in Nat, BatchAt(r, old, esc, sum, i),
         NEW amount \in Amounts, WithinTotals(esc, amount)
  PROVE  BatchAt(r, old, PayoutWrites(esc, amount), sum + amount, i + 1)
  <1> DEFINE n == Len(Request[r].payouts)
             new == PayoutWrites(esc, amount)
             a0 == old.sent_amount
             r0 == old.sent_recipients
  <1>1. a0 \in Nat /\ r0 \in Nat
    BY I64Assumption DEF EscrowRecords, Amounts, U64
  <1>2. 1 \in Amounts
    BY I64Assumption DEF Amounts, U64
  <1>3. WrapAdd((a0 + sum) % U64, amount) = (a0 + (sum + amount)) % U64
    <2>1. a0 + sum \in Nat /\ (a0 + sum) + amount = a0 + (sum + amount)
      BY <1>1, I64Assumption DEF Amounts, U64
    <2>2. WrapAdd((a0 + sum) % U64, amount) = ((a0 + sum) + amount) % U64
      BY <2>1, WrapAddIsModular
    <2> QED BY <2>1, <2>2
  <1>4. WrapAdd((r0 + i) % U64, 1) = (r0 + (i + 1)) % U64
    <2>1. r0 + i \in Nat /\ (r0 + i) + 1 = r0 + (i + 1)
      BY <1>1
    <2>2. WrapAdd((r0 + i) % U64, 1) = ((r0 + i) + 1) % U64
      BY <1>2, <2>1, WrapAddIsModular
    <2> QED BY <2>1, <2>2
  <1>5. /\ esc.sent_amount = (a0 + sum) % U64 /\ esc.sent_recipients = (r0 + i) % U64
        /\ esc.total_amount = BatchTotal(r) /\ esc.total_recipients = n
        /\ old.state \in Unsettled /\ Fixed(old, esc)
    BY DEF BatchAt
  <1>6. /\ Fixed(esc, new)
        /\ new.total_amount = esc.total_amount
        /\ new.total_recipients = esc.total_recipients
        /\ new.sent_amount = WrapAdd(esc.sent_amount, amount)
        /\ new.sent_recipients = WrapAdd(esc.sent_recipients, 1)
        /\ new.state = IF new.sent_recipients = esc.total_recipients
                          /\ new.sent_amount = esc.total_amount
                       THEN "Paid" ELSE "Partial"
    BY BatchWrites
  <1>7. Fixed(old, new)
    BY <1>5, <1>6, FixedIsTransitive
  <1>8. WrapAdd(esc.sent_recipients, 1) <= n /\ WrapAdd(esc.sent_amount, amount) <= BatchTotal(r)
    BY <1>5 DEF WithinTotals
  <1> HIDE DEF new, n, a0, r0
  <1>9. /\ new.sent_amount = (a0 + (sum + amount)) % U64
        /\ new.sent_recipients = (r0 + (i + 1)) % U64
        /\ new.total_amount = BatchTotal(r) /\ new.total_recipients = n
        /\ (r0 + (i + 1)) % U64 <= n
        /\ (a0 + (sum + amount)) % U64 <= BatchTotal(r)
        /\ new.state = IF (r0 + (i + 1)) % U64 = n /\ (a0 + (sum + amount)) % U64 = BatchTotal(r)
                       THEN "Paid" ELSE "Partial"
    BY <1>3, <1>4, <1>5, <1>6, <1>8
  <1> QED BY <1>5, <1>7, <1>9 DEF BatchAt, new, n, a0, r0

(* A batch that lands is the first, pays every entry of its file, and leaves the  *)
(* counters that say so.                                                          *)
LEMMA BatchLands ==
  ASSUME clock \in Timestamps, NEW r \in Requests, NEW s,
         wire[r].instructions = Instructions(r, s), Command(r) = "bulkPayout",
         Request[r].payouts # <<>>, Untried(r) \in Between(Escrow(r)), Executed(r).accepted,
         escrow[Escrow(r)].sent_recipients < I64
  PROVE  LET old == escrow[Escrow(r)]
             new == Executed(r).escrow
             n == Len(Request[r].payouts)
         IN  /\ Executed(r) \in Between(Escrow(r))
             /\ old.state \in Unsettled
             /\ old.sent_recipients = 0
             /\ Fixed(old, new)
             /\ new.total_amount = BatchTotal(r) /\ new.total_recipients = n
             /\ new.sent_recipients = n
             /\ new.sent_amount = (old.sent_amount + Total(BatchAmounts(r))) % U64
             /\ new.sent_amount <= BatchTotal(r)
             /\ new.state = IF new.sent_amount = BatchTotal(r) THEN "Paid" ELSE "Partial"
             /\ Total(BatchAmounts(r)) \in Nat
  <1> DEFINE old == escrow[Escrow(r)]
             n == Len(Request[r].payouts)
             V == Between(Escrow(r))
             ins == Instructions(r, s)
             amounts == BatchAmounts(r)
  <1>1. /\ n \in Nat /\ n < I64 /\ n >= 1
        /\ amounts \in Seq(Int) /\ Len(amounts) = n
        /\ \A k \in 1 .. n : amounts[k] \in Amounts
    <2>1. /\ n \in Nat /\ n < I64 /\ DOMAIN Request[r].payouts = 1 .. n
          /\ amounts \in Seq(Amounts) /\ Len(amounts) = n
          /\ \A k \in 1 .. n : amounts[k] \in Amounts
      BY BatchTypes
    <2>2. n # 0
      <3>1. Request[r].payouts \in Seq([recipient: TokenAccounts, ui: Int])
        BY ClientsAssumption DEF PayoutFiles, Command
      <3> DEFINE R == [recipient: TokenAccounts, ui: Int]
      <3> HIDE DEF R
      <3>2. \A f \in Seq(R) : f # <<>> => Len(f) # 0
        OBVIOUS
      <3> QED BY <3>1, <3>2 DEF R
    <2>3. Seq(Amounts) \subseteq Seq(Int)
      BY I64Assumption DEF Amounts, U64
    <2> QED BY <2>1, <2>2, <2>3
  <1>2. /\ DOMAIN ins = 1 .. (n + 1)
        /\ ins[1] = [kind |-> "StoreFinalAmounts",
                     call |-> [total_amount |-> BatchTotal(r), total_recipients |-> n]]
        /\ \A k \in 1 .. n : ins[k + 1] = PayoutInstruction(r, s, k)
    BY InstructionsShape
  <1>3. PICK sum : /\ sum[0] = 0
                   /\ \A k \in 1 .. n : sum[k] = sum[k - 1] + amounts[k]
                   /\ Total(amounts) = sum[n]
    <2> HIDE DEF amounts, n
    <2> QED BY <1>1, TotalRuns
  <1>4. PICK run : /\ run[0] = Untried(r)
                   /\ \A i \in 1 .. (n + 1) : run[i] = Processed(r, run[i - 1], ins[i])
                   /\ \A i \in 0 .. (n + 1) : run[i] \in V
                   /\ Executed(r) = run[n + 1]
    <2>1. n + 1 \in Nat
      BY <1>1
    <2> HIDE DEF n
    <2> QED BY <1>2, <2>1, TransactionSteps
  <1>5. /\ old \in EscrowRecords
        /\ \A i \in 0 .. (n + 1) : /\ run[i].accepted \in BOOLEAN /\ run[i].escrow \in EscrowRecords
    BY <1>4 DEF Between, Untried
  <1>6. Untried(r).escrow = old
    BY DEF Untried
  <1> HIDE DEF n, V, ins, amounts
  <1> DEFINE P == {k \in 0 .. n : /\ sum[k] \in Nat
                                  /\ run[k + 1].accepted =>
                                       BatchAt(r, old, run[k + 1].escrow, sum[k], k)}
  <1>7. 0 \in P
    <2>1. run[1] = Processed(r, Untried(r), ins[1]) /\ Untried(r).accepted \in BOOLEAN
      BY <1>1, <1>4, <1>5
    <2>2. ASSUME run[1].accepted
          PROVE  BatchAt(r, old, run[1].escrow, 0, 0)
      <3>1. /\ Accepted(r, Untried(r), ins[1])
            /\ run[1].escrow = Written(Untried(r), ins[1])
        BY <2>1, <2>2, ProcessedCases
      <3>2. StoreAmountsAccepts(old, clock, Signer(r))
        BY <1>2, <1>6, <3>1 DEF Accepted
      <3>3. run[1].escrow = StoreAmountsWrites(old, [total_amount |-> BatchTotal(r),
                                                     total_recipients |-> n])
        BY <1>2, <1>6, <3>1 DEF Written
      <3> HIDE DEF old
      <3> QED BY <1>5, <3>2, <3>3, BatchAtStart DEF n
    <2> QED BY <1>1, <1>3, <2>2
  <1>8. ASSUME NEW k \in 1 .. n, k - 1 \in P
        PROVE  k \in P
    <2> DEFINE i == k - 1
               at == run[k]
               pay == PayoutInstruction(r, s, k)
    <2>1. /\ i \in Nat /\ i + 1 = k /\ k \in 0 .. (n + 1) /\ k + 1 \in 1 .. (n + 1)
          /\ (k + 1) - 1 = k /\ k \in 0 .. n
      BY <1>1
    <2>2. /\ sum[i] \in Nat /\ (at.accepted => BatchAt(r, old, at.escrow, sum[i], i))
      BY <1>8, <2>1
    <2>3. amounts[k] \in Amounts /\ sum[k] = sum[i] + amounts[k]
      BY <1>1, <1>3
    <2>4. sum[k] \in Nat
      BY <2>2, <2>3, I64Assumption DEF Amounts, U64
    <2>5. ASSUME run[k + 1].accepted
          PROVE  BatchAt(r, old, run[k + 1].escrow, sum[k], k)
      <3>1. run[k + 1] = Processed(r, at, pay) /\ at.accepted \in BOOLEAN
            /\ at.escrow \in EscrowRecords
        BY <1>2, <1>4, <1>5, <2>1
      <3>2. /\ at.accepted /\ Accepted(r, at, pay)
            /\ run[k + 1].escrow = Written(at, pay)
        BY <2>5, <3>1, ProcessedCases
      <3>3. pay.kind = "Payout" /\ pay.call.amount = amounts[k]
        BY DEF PayoutInstruction, amounts
      <3>4. WithinTotals(at.escrow, amounts[k])
        BY <3>2, <3>3 DEF Accepted, PayoutAccepts
      <3>5. run[k + 1].escrow = PayoutWrites(at.escrow, amounts[k])
        BY <3>2, <3>3 DEF Written
      <3>6. BatchAt(r, old, at.escrow, sum[i], i)
        BY <2>2, <3>2
      <3> HIDE DEF i, at, pay, old
      <3>7. BatchAt(r, old, PayoutWrites(at.escrow, amounts[k]), sum[i] + amounts[k], i + 1)
        BY <1>5, <2>1, <2>2, <2>3, <3>1, <3>4, <3>6, BatchAtStep
      <3> QED BY <2>1, <2>3, <3>5, <3>7
    <2> QED BY <2>1, <2>4, <2>5
  <1>9. n \in P
    <2>1. \A k \in 0 .. n : k \in P
      <3> HIDE DEF P
      <3> QED BY <1>1, <1>7, <1>8, PrefixInduction
    <2> QED BY <1>1, <2>1
  <1> DEFINE new == Executed(r).escrow
             r0 == old.sent_recipients
  <1>10. BatchAt(r, old, new, Total(amounts), n) /\ Total(amounts) \in Nat
    BY <1>3, <1>4, <1>9
  <1>11. /\ (r0 + n) % U64 <= n /\ r0 \in Nat /\ r0 < I64
    <2>1. (r0 + n) % U64 <= n
      BY <1>1, <1>10 DEF BatchAt, n
    <2>2. r0 \in Nat
      BY <1>5, I64Assumption DEF EscrowRecords, Amounts, U64
    <2> QED BY <2>1, <2>2
  <1>12. r0 = 0 /\ (r0 + n) % U64 = n
    <2> HIDE DEF r0, old
    <2>1. r0 + n \in 0 .. U64 - 1 /\ U64 \in Nat /\ U64 > 0
      BY <1>1, <1>11, I64Assumption DEF U64
    <2>2. (r0 + n) % U64 = r0 + n
      BY <2>1, Z3
    <2> QED BY <1>1, <1>11, <2>2
  <1>13. Executed(r) \in V
    BY <1>1, <1>4
  <1>14. /\ old.state \in Unsettled /\ Fixed(old, new)
         /\ new.total_amount = BatchTotal(r) /\ new.total_recipients = n
         /\ new.sent_recipients = n
         /\ new.sent_amount = (old.sent_amount + Total(amounts)) % U64
         /\ new.sent_amount <= BatchTotal(r)
         /\ new.state = IF new.sent_amount = BatchTotal(r) THEN "Paid" ELSE "Partial"
    <2> HIDE DEF old, new
    <2> QED BY <1>1, <1>10, <1>12 DEF BatchAt, n, r0
  <1> QED BY <1>10, <1>12, <1>13, <1>14 DEF n, V, amounts

-----------------------------------------------------------------------------
(* The inductive invariant.  Accounts are filled in once each, ...               *)
FreshAccounts(esc) ==
  /\ esc.state = "Uninitialized" =>
       esc.token_account = NoAccount /\ esc.canceler_token_account = NoAccount
  /\ esc.state \in {"Uninitialized", "Launched"} =>
       /\ esc.reputation_oracle_token_account = NoAccount
       /\ esc.recording_oracle_token_account = NoAccount

(* ... an escrow shows the one batch that landed, or none, ...                   *)
ShowsNoBatch(esc) ==
  /\ esc.sent_amount = 0 /\ esc.sent_recipients = 0
  /\ esc.state \notin {"Partial"} \cup Settled

ShowsBatch(r, esc) ==
  /\ esc.sent_amount = Total(BatchAmounts(r)) % U64
  /\ esc.sent_recipients = Len(Request[r].payouts)
  /\ esc.state \in IF BatchTotal(r) = Total(BatchAmounts(r)) % U64
                   THEN Settled ELSE {"Partial", "Cancelled"}

BatchInv(e) ==
  IF LandedBatches(e) = {}
  THEN ShowsNoBatch(escrow[e])
  ELSE \E r \in LandedBatches(e) : LandedBatches(e) = {r} /\ ShowsBatch(r, escrow[e])

(* ... what a request has done to the escrow stays done, ...                      *)
Done(r, esc) ==
  /\ Command(r) = "create" => esc.state # "Uninitialized"
  /\ Command(r) = "setup" =>
       /\ esc.state \notin {"Uninitialized", "Launched"}
       /\ \A field \in DOMAIN Request[r].call : esc[field] = Request[r].call[field]
  /\ Command(r) = "storeResults" =>
       esc.state \notin {"Uninitialized", "Launched"} /\ esc.final_results \in Documents
  /\ Command(r) \in {"cancel", "abort"} => esc.state = "Cancelled"
  /\ Command(r) = "complete" => esc.state = "Complete"

(* ... and a request sends one transaction, built from what it has read, after its *)
(* arguments were checked.                                                        *)
RequestInv(r) ==
  /\ phase[r] \in {"new", "read", "ready"} => wire[r].status = "unsent"
  /\ phase[r] \in {"read", "ready"} \/ wire[r].status # "unsent" => ArgumentsAccepted(r)
  /\ InFlight(r) => \E s : wire[r].instructions = Instructions(r, s)
  /\ phase[r] = "ok" => Landed(r) \/ (Command(r) = "abort" /\ wire[r].status = "unsent")
  /\ Landed(r) => Done(r, escrow[Escrow(r)])

CInv ==
  /\ CTypeOK
  /\ DOMAIN wire = Requests
  /\ wire = [r \in Requests |->
               [status |-> wire[r].status, instructions |-> wire[r].instructions]]
  /\ \A e \in Escrows : /\ AccountInv(e, escrow[e])
                        /\ FreshAccounts(escrow[e])
                        /\ BatchInv(e)
  /\ \A r \in Requests : RequestInv(r)
  /\ SnapshotsStayValid

(* What a transaction that lands does to its escrow                               *)
LandedAs(r, old, new) ==
  \/ /\ Command(r) = "create"
     /\ old.state = "Uninitialized"
     /\ new = InitializeWrites(clock, Request[r].call)
  \/ /\ Command(r) = "setup"
     /\ old.state = "Launched"
     /\ new = SetupWrites(old, Request[r].call)
  \/ /\ Command(r) = "storeResults"
     /\ old.state \in Unsettled
     /\ new = StoreResultsWrites(old, Request[r].results)
  \/ /\ Command(r) = "bulkPayout"
     /\ old.state \in Unsettled
     /\ old.sent_recipients = 0
     /\ Fixed(old, new)
     /\ new.sent_recipients = Len(Request[r].payouts)
     /\ new.sent_amount = (old.sent_amount + Total(BatchAmounts(r))) % U64
     /\ new.sent_amount <= BatchTotal(r)
     /\ new.state = IF new.sent_amount = BatchTotal(r) THEN "Paid" ELSE "Partial"
     /\ Total(BatchAmounts(r)) \in Nat
  \/ /\ Command(r) \in {"cancel", "abort"}
     /\ old.state \notin {"Uninitialized", "Complete", "Paid"}
     /\ new = CancelWrites(old)
  \/ /\ Command(r) = "complete"
     /\ old.state = "Paid"
     /\ new = CompleteWrites(old)

(* A transaction starts from a record with its invariant.                          *)
LEMMA UntriedType ==
  ASSUME CInv, NEW r \in Requests
  PROVE  Untried(r) \in Between(Escrow(r))
  <1>1. Escrow(r) \in Escrows
    BY ClientsAssumption DEF Escrow
  <1>2. /\ escrow[Escrow(r)] \in EscrowRecords /\ balance \in Ledgers
        /\ returned[Escrow(r)] \in Nat /\ AccountInv(Escrow(r), escrow[Escrow(r)])
    BY <1>1 DEF CInv, CTypeOK, TypeOK
  <1> QED BY <1>2 DEF Untried, Between

(* A counter of recipients is never near the end of its word.                     *)
LEMMA FewRecipients ==
  ASSUME CInv, NEW e \in Escrows
  PROVE  escrow[e].sent_recipients < I64
  <1>1. BatchInv(e)
    BY DEF CInv
  <1>2. CASE LandedBatches(e) = {}
    BY <1>1, <1>2, I64Assumption DEF BatchInv, ShowsNoBatch
  <1>3. ASSUME NEW r \in LandedBatches(e), ShowsBatch(r, escrow[e])
        PROVE  escrow[e].sent_recipients < I64
    <2>1. r \in Requests /\ Command(r) = "bulkPayout"
      BY DEF LandedBatches, Batches
    <2>2. Len(Request[r].payouts) < I64
      BY <2>1, BatchTypes
    <2> QED BY <1>3, <2>2 DEF ShowsBatch
  <1> QED BY <1>1, <1>2, <1>3 DEF BatchInv

(* What lands is what the command of its request does.                            *)
LEMMA LandEffect ==
  ASSUME CInv, NEW r \in Requests, Land(r)
  PROVE  /\ LandedAs(r, escrow[Escrow(r)], Executed(r).escrow)
         /\ Executed(r) \in Between(Escrow(r))
         /\ Command(r) = "bulkPayout" => Request[r].payouts # <<>>
  <1> DEFINE e == Escrow(r)
             old == escrow[e]
             new == Executed(r).escrow
  <1>1. e \in Escrows /\ clock \in Timestamps
    <2>1. e \in Escrows
      BY ClientsAssumption DEF Escrow
    <2>2. clock \in 0 .. MaxClock /\ MaxClock \in 0 .. I64 - 1
      BY CallsAssumption DEF CInv, CTypeOK, TypeOK
    <2>3. clock \in Timestamps
      BY <2>2, I64Assumption DEF Timestamps
    <2> QED BY <2>1, <2>3
  <1>2. /\ InFlight(r) /\ Executed(r).accepted /\ RequestInv(r)
        /\ Untried(r) \in Between(Escrow(r)) /\ old.sent_recipients < I64
    BY <1>1, UntriedType, FewRecipients DEF Land, CInv
  <1>3. PICK s : wire[r].instructions = Instructions(r, s)
    BY <1>2 DEF RequestInv
  <1>4. ArgumentsAccepted(r)
    BY <1>2 DEF RequestInv, InFlight
  <1>5. CASE Command(r) = "bulkPayout"
    <2>1. Request[r].payouts # <<>>
      BY <1>4, <1>5 DEF ArgumentsAccepted
    <2> QED BY <1>1, <1>2, <1>3, <1>5, <2>1, BatchLands DEF LandedAs
  <1>6. CASE Command(r) # "bulkPayout"
    <2> DEFINE i == Instructions(r, s)[1]
               at == Untried(r)
    <2>1. /\ InstructionOf(r, i) /\ Accepted(r, at, i) /\ Executed(r).escrow = Written(at, i)
          /\ Executed(r) \in Between(Escrow(r))
      BY <1>1, <1>2, <1>3, <1>6, SingleLands
    <2>2. at.escrow = old
      BY DEF Untried
    <2> HIDE DEF i, at, old
    <2>3. CASE Command(r) = "create"
      <3>1. i = [kind |-> "Initialize", call |-> Request[r].call]
        BY <2>1, <2>3 DEF InstructionOf
      <3>2. old.state = "Uninitialized"
        BY <2>1, <2>2, <3>1 DEF Accepted, InitializeAccepts, EscrowInitialized
      <3>3. new = InitializeWrites(clock, Request[r].call)
        BY <2>1, <3>1 DEF Written
      <3> QED BY <1>6, <2>1, <2>3, <3>2, <3>3 DEF LandedAs, old
    <2>4. CASE Command(r) = "setup"
      <3>1. i = [kind |-> "Setup", call |-> Request[r].call]
        BY <2>1, <2>4 DEF InstructionOf
      <3>2. old.state = "Launched"
        BY <2>1, <2>2, <3>1 DEF Accepted, SetupAccepts, StateCheck
      <3>3. new = SetupWrites(old, Request[r].call)
        BY <2>1, <2>2, <3>1 DEF Written
      <3> QED BY <1>6, <2>1, <2>4, <3>2, <3>3 DEF LandedAs, old
    <2>5. CASE Command(r) = "storeResults"
      <3>1. i = [kind |-> "StoreResults", call |-> Request[r].results]
        BY <2>1, <2>5 DEF InstructionOf
      <3>2. old.state \in Unsettled
        BY <2>1, <2>2, <3>1 DEF Accepted, StoreResultsAccepts, StateCheck, Unsettled
      <3>3. new = StoreResultsWrites(old, Request[r].results)
        BY <2>1, <2>2, <3>1 DEF Written
      <3> QED BY <1>6, <2>1, <2>5, <3>2, <3>3 DEF LandedAs, old
    <2>6. CASE Command(r) \in {"cancel", "abort"}
      <3>1. i.kind = "Cancel"
        BY <2>1, <2>6 DEF InstructionOf
      <3>2. old.state \notin {"Uninitialized", "Complete", "Paid"}
        BY <2>1, <2>2, <3>1 DEF Accepted, CancelAccepts, EscrowInitialized
      <3>3. new = CancelWrites(old)
        BY <2>1, <2>2, <3>1 DEF Written
      <3> QED BY <1>6, <2>1, <2>6, <3>2, <3>3 DEF LandedAs, old
    <2>7. CASE Command(r) = "complete"
      <3>1. i.kind = "Complete"
        BY <2>1, <2>7 DEF InstructionOf
      <3>2. old.state = "Paid"
        BY <2>1, <2>2, <3>1 DEF Accepted, CompleteAccepts, StateCheck
      <3>3. new = CompleteWrites(old)
        BY <2>1, <2>2, <3>1 DEF Written
      <3> QED BY <1>6, <2>1, <2>7, <3>2, <3>3 DEF LandedAs, old
    <2>8. Command(r) \in Commands
      BY ClientsAssumption DEF Command
    <2> QED BY <1>6, <2>3, <2>4, <2>5, <2>6, <2>7, <2>8 DEF Commands
  <1> QED BY <1>5, <1>6

-----------------------------------------------------------------------------
(* The fields clients read an escrow account for                                  *)
AccountFields ==
  {"token_account", "canceler_token_account", "reputation_oracle_token_account",
   "recording_oracle_token_account"}

(* The accounts of an escrow are filled in once: whoever has read one before a    *)
(* transaction landed has read nothing or what is still there.                    *)
LEMMA LandedKeepsAccounts ==
  ASSUME NEW r \in Requests, NEW old \in EscrowRecords, NEW new, FreshAccounts(old),
         LandedAs(r, old, new)
  PROVE  /\ FreshAccounts(new)
         /\ \A field \in AccountFields : old[field] \in {NoAccount, new[field]}
  <1> USE DEF FreshAccounts, AccountFields
  <1>1. CASE /\ old.state = "Uninitialized"
             /\ new = InitializeWrites(clock, Request[r].call)
    BY <1>1 DEF InitializeWrites, BlankEscrow
  <1>2. CASE /\ old.state = "Launched"
             /\ new = SetupWrites(old, Request[r].call)
    BY <1>2 DEF SetupWrites, EscrowRecords
  <1>3. CASE /\ old.state \in Unsettled
             /\ new = StoreResultsWrites(old, Request[r].results)
    BY <1>3 DEF StoreResultsWrites, EscrowRecords, Unsettled
  <1>4. CASE Fixed(old, new) /\ new.state \in {"Paid", "Partial"}
    BY <1>4 DEF Fixed, FixedFields
  <1>5. CASE new = CancelWrites(old)
    BY <1>5 DEF CancelWrites, EscrowRecords
  <1>6. CASE new = CompleteWrites(old)
    BY <1>6 DEF CompleteWrites, EscrowRecords
  <1> QED BY <1>1, <1>2, <1>3, <1>4, <1>5, <1>6 DEF LandedAs

(* What has been done is never undone.                                            *)
LEMMA LandedKeepsDone ==
  ASSUME NEW r \in Requests, NEW q \in Requests, NEW old \in EscrowRecords, NEW new,
         LandedAs(r, old, new), Done(q, old)
  PROVE  Done(q, new)
  <1>0. Command(q) = "setup" =>
          DOMAIN Request[q].call =
            {"reputation_oracle", "reputation_oracle_token_account", "recording_oracle",
             "recording_oracle_token_account", "reputation_oracle_stake",
             "recording_oracle_stake", "manifest"}
    BY ClientsAssumption DEF Command, SetupCall
  <1>1. CASE /\ old.state = "Uninitialized"
             /\ new = InitializeWrites(clock, Request[r].call)
    BY <1>1 DEF Done, InitializeWrites, BlankEscrow
  <1>2. CASE /\ old.state = "Launched"
             /\ new = SetupWrites(old, Request[r].call)
    BY <1>2 DEF Done, SetupWrites, EscrowRecords
  <1>3. CASE /\ old.state \in Unsettled
             /\ new = StoreResultsWrites(old, Request[r].results)
             /\ Request[r].results \in Documents
    <2>1. /\ new.state = old.state /\ new.final_results \in Documents
          /\ \A field \in FixedFields \ {"final_results"} : new[field] = old[field]
      BY <1>3 DEF StoreResultsWrites, EscrowRecords, FixedFields
    <2> QED BY <1>0, <1>3, <2>1 DEF Done, FixedFields, Unsettled
  <1>4. CASE /\ old.state \in Unsettled /\ Fixed(old, new)
             /\ new.state \in {"Paid", "Partial"}
    BY <1>0, <1>4 DEF Done, Fixed, FixedFields, Unsettled
  <1>5. CASE /\ old.state \notin {"Uninitialized", "Complete", "Paid"}
             /\ new = CancelWrites(old)
    <2>1. new.state = "Cancelled" /\ Fixed(old, new)
      BY <1>5 DEF CancelWrites, EscrowRecords, Fixed, FixedFields
    <2> QED BY <1>0, <1>5, <2>1 DEF Done, Fixed, FixedFields
  <1>6. CASE /\ old.state = "Paid"
             /\ new = CompleteWrites(old)
    <2>1. new.state = "Complete" /\ Fixed(old, new)
      BY <1>6 DEF CompleteWrites, EscrowRecords, Fixed, FixedFields
    <2> QED BY <1>0, <1>6, <2>1 DEF Done, Fixed, FixedFields
  <1>7. Command(r) = "storeResults" => Request[r].results \in Documents
    BY ClientsAssumption DEF Command
  <1> QED BY <1>1, <1>2, <1>3, <1>4, <1>5, <1>6, <1>7 DEF LandedAs

(* A transaction that lands does what its request asked for.                      *)
LEMMA LandedIsDone ==
  ASSUME NEW r \in Requests, NEW old \in EscrowRecords, NEW new,
         LandedAs(r, old, new)
  PROVE  Done(r, new)
  <1>1. CASE /\ Command(r) = "create" /\ new = InitializeWrites(clock, Request[r].call)
    BY <1>1 DEF Done, InitializeWrites, BlankEscrow
  <1>2. CASE /\ Command(r) = "setup" /\ new = SetupWrites(old, Request[r].call)
    <2>1. Request[r].call \in SetupCall
      BY <1>2, ClientsAssumption DEF Command
    <2> QED BY <1>2, <2>1 DEF Done, SetupWrites, EscrowRecords, SetupCall
  <1>3. CASE /\ Command(r) = "storeResults"
             /\ old.state \in Unsettled
             /\ new = StoreResultsWrites(old, Request[r].results)
    <2>1. Request[r].results \in Documents
      BY <1>3, ClientsAssumption DEF Command
    <2> QED BY <1>3, <2>1 DEF Done, StoreResultsWrites, EscrowRecords, Unsettled
  <1>4. CASE Command(r) = "bulkPayout"
    BY <1>4 DEF Done
  <1>5. CASE Command(r) \in {"cancel", "abort"} /\ new = CancelWrites(old)
    BY <1>5 DEF Done, CancelWrites, EscrowRecords
  <1>6. CASE Command(r) = "complete" /\ new = CompleteWrites(old)
    BY <1>6 DEF Done, CompleteWrites, EscrowRecords
  <1> QED BY <1>1, <1>2, <1>3, <1>4, <1>5, <1>6 DEF LandedAs

-----------------------------------------------------------------------------
(* A transaction that is no batch leaves what the escrow shows of batches, ...    *)
LEMMA OthersKeepBatch ==
  ASSUME NEW r \in Requests, NEW old \in EscrowRecords, NEW new,
         LandedAs(r, old, new), Command(r) # "bulkPayout"
  PROVE  /\ ShowsNoBatch(old) => ShowsNoBatch(new)
         /\ \A q : ShowsBatch(q, old) => ShowsBatch(q, new)
  <1> USE DEF ShowsNoBatch, ShowsBatch, Settled
  <1>1. CASE /\ old.state = "Uninitialized"
             /\ new = InitializeWrites(clock, Request[r].call)
    BY <1>1 DEF InitializeWrites, BlankEscrow
  <1>2. CASE /\ old.state = "Launched"
             /\ new = SetupWrites(old, Request[r].call)
    <2>1. /\ new.state = "Pending" /\ new.sent_amount = old.sent_amount
          /\ new.sent_recipients = old.sent_recipients
      BY <1>2 DEF SetupWrites, EscrowRecords
    <2> QED BY <1>2, <2>1
  <1>3. CASE new = StoreResultsWrites(old, Request[r].results)
    <2>1. /\ new.state = old.state /\ new.sent_amount = old.sent_amount
          /\ new.sent_recipients = old.sent_recipients
      BY <1>3 DEF StoreResultsWrites, EscrowRecords
    <2> QED BY <2>1
  <1>4. CASE /\ old.state \notin {"Uninitialized", "Complete", "Paid"}
             /\ new = CancelWrites(old)
    <2>1. /\ new.state = "Cancelled" /\ new.sent_amount = old.sent_amount
          /\ new.sent_recipients = old.sent_recipients
      BY <1>4 DEF CancelWrites, EscrowRecords
    <2> QED BY <1>4, <2>1
  <1>5. CASE /\ old.state = "Paid"
             /\ new = CompleteWrites(old)
    <2>1. /\ new.state = "Complete" /\ new.sent_amount = old.sent_amount
          /\ new.sent_recipients = old.sent_recipients
      BY <1>5 DEF CompleteWrites, EscrowRecords
    <2> QED BY <1>5, <2>1
  <1> QED BY <1>1, <1>2, <1>3, <1>4, <1>5 DEF LandedAs

(* ... and a batch lands only where none has landed, and then it is the one shown. *)
LEMMA BatchIsFirst ==
  ASSUME NEW r \in Requests, NEW old \in EscrowRecords, NEW new,
         LandedAs(r, old, new), Command(r) = "bulkPayout"
  PROVE  /\ ShowsNoBatch(old) => ShowsBatch(r, new)
         /\ \A q \in Requests : Command(q) = "bulkPayout" /\ ArgumentsAccepted(q)
                                  => ~ShowsBatch(q, old)
  <1>1. /\ old.sent_recipients = 0
        /\ new.sent_recipients = Len(Request[r].payouts)
        /\ new.sent_amount = (old.sent_amount + Total(BatchAmounts(r))) % U64
        /\ new.state = IF new.sent_amount = BatchTotal(r) THEN "Paid" ELSE "Partial"
        /\ Total(BatchAmounts(r)) \in Nat
    BY DEF LandedAs
  <1>2. ASSUME ShowsNoBatch(old)
        PROVE  ShowsBatch(r, new)
    <2>1. new.sent_amount = Total(BatchAmounts(r)) % U64
      BY <1>1, <1>2 DEF ShowsNoBatch
    <2> QED BY <1>1, <2>1 DEF ShowsBatch, Settled
  <1>3. ASSUME NEW q \in Requests, Command(q) = "bulkPayout", ArgumentsAccepted(q)
        PROVE  ~ShowsBatch(q, old)
    <2>1. Request[q].payouts # <<>> /\ Request[q].payouts \in PayoutFiles
      BY <1>3, ClientsAssumption DEF ArgumentsAccepted, Command
    <2>2. Len(Request[q].payouts) # 0
      BY <2>1 DEF PayoutFiles
    <2> QED BY <1>1, <2>2 DEF ShowsBatch
  <1> QED BY <1>2, <1>3

-----------------------------------------------------------------------------
(* A request nothing has happened to                                              *)
LEMMA RequestKept ==
  ASSUME NEW q \in Requests, RequestInv(q), phase'[q] = phase[q], wire'[q] = wire[q],
         Done(q, escrow[Escrow(q)]) => Done(q, escrow'[Escrow(q)])
  PROVE  RequestInv(q)'
  BY DEF RequestInv, InFlight, Landed

(* A step that leaves the escrows alone and lets no transaction land              *)
LEMMA QuietStep ==
  ASSUME CInv, CTypeOK', escrow' = escrow, NEW r \in Requests,
         \/ wire' = wire
         \/ /\ ~Landed(r)
            /\ \E status, ins : /\ status # "landed"
                                /\ wire' = [wire EXCEPT ![r] = [status |-> status,
                                                                instructions |-> ins]],
         \A q \in Requests \ {r} : phase'[q] = phase[q],
         RequestInv(r)',
         SnapshotsStayValid'
  PROVE  CInv'
  <1>1. /\ DOMAIN wire' = Requests
        /\ wire' = [q \in Requests |->
               [status |-> wire'[q].status, instructions |-> wire'[q].instructions]]
        /\ \A q \in Requests \ {r} : wire'[q] = wire[q]
        /\ \A q \in Requests : Landed(q)' <=> Landed(q)
    BY DEF CInv, Landed
  <1>2. ASSUME NEW q \in Requests PROVE RequestInv(q)'
    BY <1>1, <1>2, RequestKept DEF CInv
  <1>3. \A e \in Escrows : LandedBatches(e)' = LandedBatches(e)
    BY <1>1 DEF LandedBatches, Batches
  <1>4. ASSUME NEW e \in Escrows PROVE BatchInv(e)'
    BY <1>3 DEF BatchInv, CInv
  <1>5. \A e \in Escrows : AccountInv(e, escrow'[e]) /\ FreshAccounts(escrow'[e])
    BY DEF CInv
  <1> QED BY <1>1, <1>2, <1>4, <1>5 DEF CInv

-----------------------------------------------------------------------------
(* What has been forgotten directs no transaction.                                *)
LEMMA Forgetting ==
  ASSUME CInv, NEW r \in Requests, escrow' = escrow,
         snapshot' = [snapshot EXCEPT ![r] = NothingRead]
  PROVE  SnapshotsStayValid'
  <1>1. \A field \in DOMAIN NothingRead : NothingRead[field] = NoAccount
    BY DEF NothingRead, Accounts, BlankEscrow
  <1>2. ASSUME NEW q \in Requests, NEW field \in DOMAIN snapshot'[q]
        PROVE  snapshot'[q][field] \in {NoAccount, escrow'[Escrow(q)][field]}
    <2>1. snapshot \in [Requests -> [DOMAIN NothingRead -> TokenAccounts \cup {NoAccount}]]
      BY DEF CInv, CTypeOK
    <2>2. CASE q = r
      BY <1>1, <2>1, <2>2
    <2>3. CASE q # r
      BY <2>1, <2>3 DEF CInv, SnapshotsStayValid
    <2> QED BY <2>2, <2>3
  <1> QED BY <1>2 DEF SnapshotsStayValid

(* A handler that gives its answer forgets what it has read.                      *)
LEMMA Answering ==
  ASSUME CInv, NEW r \in Requests, NEW answer \in Answered, Finish(r, answer),
         wire' = wire, UNCHANGED <<vars, returned>>,
         answer = "ok" => Landed(r) \/ (Command(r) = "abort" /\ wire[r].status = "unsent")
  PROVE  CInv'
  <1>1. /\ phase' = [phase EXCEPT ![r] = answer]
        /\ snapshot' = [snapshot EXCEPT ![r] = NothingRead]
        /\ TypeOK' /\ escrow' = escrow
    BY DEF Finish, CInv, CTypeOK, TypeOK, vars
  <1>2. NothingRead \in [DOMAIN NothingRead -> TokenAccounts \cup {NoAccount}]
    BY DEF NothingRead, Accounts, BlankEscrow
  <1>3. CTypeOK'
    BY <1>1, <1>2 DEF CInv, CTypeOK
  <1>4. SnapshotsStayValid'
    BY <1>1, Forgetting
  <1>5. phase'[r] = answer /\ \A q \in Requests \ {r} : phase'[q] = phase[q]
    BY <1>1 DEF CInv, CTypeOK
  <1>6. RequestInv(r)'
    BY <1>1, <1>5 DEF CInv, RequestInv, InFlight, Landed, Answered
  <1> QED BY <1>1, <1>3, <1>4, <1>5, <1>6, QuietStep

(* A handler that goes on with what it has read                                   *)
LEMMA GoingOn ==
  ASSUME CInv, NEW r \in Requests, phase[r] = "read",
         phase' = [phase EXCEPT ![r] = "ready"], UNCHANGED <<vars, snapshot, wire, returned>>
  PROVE  CInv'
  <1>1. TypeOK' /\ escrow' = escrow
    BY DEF CInv, CTypeOK, TypeOK, vars
  <1>2. CTypeOK' /\ SnapshotsStayValid'
    BY <1>1 DEF CInv, CTypeOK, SnapshotsStayValid, Working
  <1>3. phase'[r] = "ready" /\ \A q \in Requests \ {r} : phase'[q] = phase[q]
    BY DEF CInv, CTypeOK
  <1>4. RequestInv(r)'
    BY <1>1, <1>3 DEF CInv, RequestInv, InFlight, Landed
  <1> QED BY <1>1, <1>2, <1>3, <1>4, QuietStep

(* A request arrives and reads the escrow account.                                *)
LEMMA ReadKeeps ==
  ASSUME CInv, NEW r \in Requests, ReadEscrow(r)
  PROVE  CInv'
  <1>1. CASE ~ArgumentsAccepted(r)
    BY <1>1, Answering DEF ReadEscrow, Answered
  <1>2. CASE ArgumentsAccepted(r)
    <2>1. /\ phase[r] = "new"
          /\ \E ph \in {"read", "ready"} : phase' = [phase EXCEPT ![r] = ph]
          /\ snapshot' = [snapshot EXCEPT ![r] =
                            IF Command(r) \in {"create", "complete"} THEN @
                            ELSE Accounts(escrow[Escrow(r)])]
          /\ UNCHANGED <<vars, wire, returned>>
      BY <1>2 DEF ReadEscrow
    <2>2. TypeOK' /\ escrow' = escrow /\ escrow[Escrow(r)] \in EscrowRecords
      BY <2>1, ClientsAssumption DEF CInv, CTypeOK, TypeOK, vars, Escrow
    <2>3. /\ Accounts(escrow[Escrow(r)]) \in
               [DOMAIN NothingRead -> TokenAccounts \cup {NoAccount}]
          /\ \A field \in DOMAIN NothingRead :
               Accounts(escrow[Escrow(r)])[field] = escrow[Escrow(r)][field]
      BY <2>2 DEF Accounts, NothingRead, EscrowRecords
    <2>4. CTypeOK'
      BY <2>1, <2>2, <2>3 DEF CInv, CTypeOK, Working
    <2>5. SnapshotsStayValid'
      <3> HIDE DEF Accounts, NothingRead
      <3>1. ASSUME NEW q \in Requests, NEW field \in DOMAIN snapshot'[q]
            PROVE  snapshot'[q][field] \in {NoAccount, escrow'[Escrow(q)][field]}
        <4>1. snapshot \in [Requests -> [DOMAIN NothingRead -> TokenAccounts \cup {NoAccount}]]
          BY DEF CInv, CTypeOK
        <4>2. CASE snapshot'[q] = snapshot[q]
          BY <2>2, <4>2 DEF CInv, SnapshotsStayValid
        <4>3. CASE q = r /\ snapshot'[q] = Accounts(escrow[Escrow(r)])
          BY <2>2, <2>3, <4>3
        <4> QED BY <2>1, <4>1, <4>2, <4>3
      <3> QED BY <3>1 DEF SnapshotsStayValid
    <2>6. /\ phase'[r] \in {"read", "ready"}
          /\ \A q \in Requests \ {r} : phase'[q] = phase[q]
      BY <2>1 DEF CInv, CTypeOK
    <2>7. RequestInv(r)'
      BY <1>2, <2>1, <2>2, <2>6 DEF CInv, RequestInv, InFlight, Landed
    <2>8. wire' = wire
      BY <2>1
    <2> QED BY <2>2, <2>4, <2>5, <2>6, <2>7, <2>8, QuietStep
  <1> QED BY <1>1, <1>2

(* abort_job looks at the vault: it may answer without sending anything.           *)
LEMMA AbortKeeps ==
  ASSUME CInv, NEW r \in Requests, AbortLooksAtVault(r)
  PROVE  CInv'
  <1>1. phase[r] = "read" /\ Command(r) = "abort" /\ UNCHANGED <<vars, wire, returned>>
    BY DEF AbortLooksAtVault
  <1>2. wire[r].status = "unsent"
    BY <1>1 DEF CInv, RequestInv
  <1>3. CASE Finish(r, "error") \/ Finish(r, "ok")
    BY <1>1, <1>2, <1>3, Answering DEF Answered
  <1>4. CASE phase' = [phase EXCEPT ![r] = "ready"] /\ UNCHANGED snapshot
    BY <1>1, <1>4, GoingOn
  <1> QED BY <1>3, <1>4 DEF AbortLooksAtVault

(* bulk_payout looks at the vault.                                                *)
LEMMA PayoutKeeps ==
  ASSUME CInv, NEW r \in Requests, PayoutLooksAtVault(r)
  PROVE  CInv'
  <1>1. phase[r] = "read" /\ UNCHANGED <<vars, wire, returned>>
    BY DEF PayoutLooksAtVault
  <1>2. CASE Finish(r, "error")
    BY <1>1, <1>2, Answering DEF Answered
  <1>3. CASE phase' = [phase EXCEPT ![r] = "ready"] /\ UNCHANGED snapshot
    BY <1>1, <1>3, GoingOn
  <1> QED BY <1>2, <1>3 DEF PayoutLooksAtVault

(* The client learns that its transaction landed, or was dropped.                  *)
LEMMA AnswerKeeps ==
  ASSUME CInv, NEW r \in Requests, Answer(r)
  PROVE  CInv'
  <1>1. UNCHANGED <<vars, wire, returned>>
    BY DEF Answer
  <1>2. CASE Landed(r) /\ Finish(r, "ok")
    BY <1>1, <1>2, Answering DEF Answered
  <1>3. CASE Finish(r, "error")
    BY <1>1, <1>3, Answering DEF Answered
  <1> QED BY <1>2, <1>3 DEF Answer

(* A call to the node fails; a transaction that was sent stays in flight.          *)
LEMMA FailKeeps ==
  ASSUME CInv, NEW r \in Requests, Fail(r)
  PROVE  CInv'
  BY Answering DEF Fail, Answered

(* The transaction is built from what was read, and sent.                         *)
LEMMA SendKeeps ==
  ASSUME CInv, NEW r \in Requests, Send(r)
  PROVE  CInv'
  <1>1. /\ phase[r] = "ready"
        /\ wire' = [wire EXCEPT ![r] = [status |-> "in flight",
                                        instructions |-> Instructions(r, snapshot[r])]]
        /\ phase' = [phase EXCEPT ![r] = "sent"]
        /\ snapshot' = [snapshot EXCEPT ![r] = NothingRead]
        /\ UNCHANGED <<vars, returned>>
    BY DEF Send
  <1>2. TypeOK' /\ escrow' = escrow
    BY <1>1 DEF CInv, CTypeOK, TypeOK, vars
  <1>3. NothingRead \in [DOMAIN NothingRead -> TokenAccounts \cup {NoAccount}]
    BY DEF NothingRead, Accounts, BlankEscrow
  <1>4. /\ wire'[r].status = "in flight" /\ wire'[r].instructions = Instructions(r, snapshot[r])
        /\ \A q \in Requests \ {r} : wire'[q] = wire[q]
    BY <1>1 DEF CInv
  <1>5. CTypeOK'
    BY <1>1, <1>2, <1>3, <1>4 DEF CInv, CTypeOK, Working
  <1>6. SnapshotsStayValid'
    BY <1>1, <1>2, Forgetting
  <1>7. phase'[r] = "sent" /\ \A q \in Requests \ {r} : phase'[q] = phase[q]
    BY <1>1 DEF CInv, CTypeOK
  <1>8. RequestInv(r)'
    BY <1>1, <1>4, <1>7 DEF CInv, RequestInv, InFlight, Landed
  <1>9. ~Landed(r)
    BY <1>1 DEF CInv, RequestInv, Landed
  <1> QED BY <1>1, <1>2, <1>5, <1>6, <1>7, <1>8, <1>9, QuietStep

(* The cluster refuses or forgets a transaction.                                  *)
LEMMA DropKeeps ==
  ASSUME CInv, NEW r \in Requests, Drop(r)
  PROVE  CInv'
  <1>1. /\ InFlight(r)
        /\ wire' = [wire EXCEPT ![r] = [status |-> "dropped", instructions |-> <<>>]]
        /\ UNCHANGED <<vars, phase, snapshot, returned>>
    BY DEF Drop
  <1>2. TypeOK' /\ escrow' = escrow
    BY <1>1 DEF CInv, CTypeOK, TypeOK, vars
  <1>3. wire'[r].status = "dropped" /\ \A q \in Requests \ {r} : wire'[q] = wire[q]
    BY <1>1 DEF CInv
  <1>4. CTypeOK' /\ SnapshotsStayValid'
    BY <1>1, <1>2, <1>3 DEF CInv, CTypeOK, SnapshotsStayValid
  <1>5. RequestInv(r)'
    BY <1>1, <1>3 DEF CInv, RequestInv, InFlight, Landed
  <1>6. ~Landed(r)
    BY <1>1 DEF InFlight, Landed
  <1> QED BY <1>1, <1>2, <1>4, <1>5, <1>6, QuietStep

-----------------------------------------------------------------------------
(* The cluster executes a transaction: the accounts others have read are still     *)
(* there, what was done stays done, and a batch is the first of its escrow.        *)
LEMMA LandKeeps ==
  ASSUME CInv, NEW r \in Requests, Land(r)
  PROVE  CInv'
  <1> DEFINE e == Escrow(r)
             old == escrow[e]
             new == Executed(r).escrow
  <1>1. /\ InFlight(r)
        /\ escrow' = [escrow EXCEPT ![e] = new]
        /\ balance' = Executed(r).ledger
        /\ returned' = [returned EXCEPT ![e] = Executed(r).returned]
        /\ wire' = [wire EXCEPT ![r] = [status |-> "landed", instructions |-> <<>>]]
        /\ UNCHANGED <<clock, version, transfers, phase, snapshot>>
    BY DEF Land
  <1>2. /\ e \in Escrows /\ old \in EscrowRecords
        /\ FreshAccounts(old) /\ BatchInv(e) /\ AccountInv(e, old)
    BY ClientsAssumption DEF CInv, CTypeOK, TypeOK, Escrow
  <1>3. LandedAs(r, old, new)
    BY LandEffect
  <1>4. /\ new \in EscrowRecords /\ Executed(r).ledger \in Ledgers
        /\ Executed(r).returned \in Nat /\ AccountInv(e, new)
    BY LandEffect DEF Between
  <1> HIDE DEF e, old, new
  <1>5. /\ escrow'[e] = new /\ escrow[e] = old
        /\ \A f \in Escrows \ {e} : escrow'[f] = escrow[f]
    BY <1>1, <1>2 DEF CInv, CTypeOK, TypeOK, old
  <1>6. /\ wire'[r] = [status |-> "landed", instructions |-> <<>>]
        /\ \A q \in Requests \ {r} : wire'[q] = wire[q]
        /\ DOMAIN wire' = Requests
        /\ wire' = [q \in Requests |->
               [status |-> wire'[q].status, instructions |-> wire'[q].instructions]]
    BY <1>1 DEF CInv
  <1>7. CTypeOK'
    <2>1. TypeOK'
      BY <1>1, <1>2, <1>4 DEF CInv, CTypeOK, TypeOK
    <2>2. ASSUME NEW q \in Requests
          PROVE  wire'[q].status \in {"unsent", "in flight", "landed", "dropped"}
      <3>1. wire'[r].status = "landed"
        BY <1>1 DEF CInv
      <3>2. CASE q = r
        BY <3>1, <3>2
      <3>3. CASE q # r
        <4>1. wire'[q] = wire[q] /\ CTypeOK
          BY <1>6, <3>3 DEF CInv
        <4> QED BY <4>1 DEF CTypeOK
      <3> QED BY <3>2, <3>3
    <2>3. returned' \in [Escrows -> Nat]
      BY <1>1, <1>2, <1>4 DEF CInv, CTypeOK
    <2> QED BY <1>1, <2>1, <2>2, <2>3 DEF CInv, CTypeOK
  <1>8. /\ FreshAccounts(new)
        /\ \A field \in AccountFields : old[field] \in {NoAccount, new[field]}
    BY <1>2, <1>3, LandedKeepsAccounts
  <1>9. SnapshotsStayValid'
    <2>1. ASSUME NEW q \in Requests, NEW field \in DOMAIN snapshot'[q]
          PROVE  snapshot'[q][field] \in {NoAccount, escrow'[Escrow(q)][field]}
      <3>1. /\ snapshot'[q][field] = snapshot[q][field]
            /\ snapshot[q][field] \in {NoAccount, escrow[Escrow(q)][field]}
        BY <1>1, <2>1 DEF CInv, SnapshotsStayValid
      <3>2. field \in AccountFields
        BY <1>1, <2>1 DEF CInv, CTypeOK, NothingRead, Accounts, AccountFields
      <3>3. Escrow(q) \in Escrows
        BY ClientsAssumption DEF Escrow
      <3> QED BY <1>5, <1>8, <3>1, <3>2, <3>3
    <2> QED BY <2>1 DEF SnapshotsStayValid
  <1>10. ASSUME NEW q \in Requests PROVE RequestInv(q)'
    <2>1. CASE q = r
      <3>1. Done(r, new)
        BY <1>2, <1>3, LandedIsDone
      <3>2. Landed(r)' /\ ~InFlight(r)'
        BY <1>6 DEF Landed, InFlight
      <3>3. ArgumentsAccepted(r) /\ phase[r] \notin {"new", "read", "ready"}
        BY <1>1 DEF CInv, RequestInv, InFlight
      <3>4. Done(r, escrow'[Escrow(r)])
        BY <1>5, <3>1 DEF e
      <3>5. phase'[r] = phase[r]
        BY <1>1
      <3> QED BY <2>1, <3>2, <3>3, <3>4, <3>5 DEF RequestInv
    <2>2. CASE q # r
      <3>1. Done(q, escrow[Escrow(q)]) => Done(q, escrow'[Escrow(q)])
        <4>1. Escrow(q) \in Escrows
          BY ClientsAssumption DEF Escrow
        <4>2. CASE Escrow(q) # e
          BY <1>5, <4>1, <4>2
        <4>3. CASE Escrow(q) = e
          BY <1>2, <1>3, <1>5, <4>3, LandedKeepsDone
        <4> QED BY <4>2, <4>3
      <3>2. RequestInv(q) /\ phase'[q] = phase[q] /\ wire'[q] = wire[q]
        BY <1>1, <1>6, <2>2 DEF CInv
      <3> QED BY <3>1, <3>2, RequestKept
    <2> QED BY <2>1, <2>2
  <1>11. ASSUME NEW f \in Escrows PROVE BatchInv(f)'
    <2>1. /\ Landed(r)' /\ ~Landed(r)
          /\ \A q \in Requests \ {r} : Landed(q)' <=> Landed(q)
      BY <1>1, <1>6 DEF Landed, InFlight
    <2>2. ASSUME r \notin Batches(f), escrow'[f] = escrow[f] \/ (f = e /\ Command(r) # "bulkPayout")
          PROVE  BatchInv(f)'
      <3>1. LandedBatches(f)' = LandedBatches(f)
        BY <2>1, <2>2 DEF LandedBatches, Batches
      <3>2. BatchInv(f)
        BY DEF CInv
      <3>3. CASE escrow'[f] = escrow[f]
        BY <3>1, <3>2, <3>3 DEF BatchInv
      <3>4. CASE f = e /\ Command(r) # "bulkPayout"
        <4>1. /\ ShowsNoBatch(escrow[f]) => ShowsNoBatch(escrow'[f])
              /\ \A q : ShowsBatch(q, escrow[f]) => ShowsBatch(q, escrow'[f])
          BY <1>2, <1>3, <1>5, <3>4, OthersKeepBatch
        <4> QED BY <3>1, <3>2, <4>1 DEF BatchInv
      <3> QED BY <2>2, <3>3, <3>4
    <2>3. CASE f # e
      <3>1. r \notin Batches(f)
        BY <2>3 DEF Batches, e
      <3> QED BY <1>5, <2>2, <2>3, <3>1
    <2>4. CASE f = e /\ Command(r) # "bulkPayout"
      <3>1. r \notin Batches(f)
        BY <2>4 DEF Batches
      <3> QED BY <2>2, <2>4, <3>1
    <2>5. CASE f = e /\ Command(r) = "bulkPayout"
      <3>1. /\ ShowsNoBatch(old) => ShowsBatch(r, new)
            /\ \A q \in Requests : Command(q) = "bulkPayout" /\ ArgumentsAccepted(q)
                                     => ~ShowsBatch(q, old)
        BY <1>2, <1>3, <2>5, BatchIsFirst
      <3>2. LandedBatches(f) = {}
        <4>1. ASSUME NEW q \in LandedBatches(f)
              PROVE  q \in Requests /\ Command(q) = "bulkPayout" /\ ArgumentsAccepted(q)
          BY <4>1 DEF LandedBatches, Batches, Landed, CInv, RequestInv
        <4> QED BY <1>2, <1>5, <2>5, <3>1, <4>1 DEF BatchInv
      <3>3. ShowsBatch(r, escrow'[f])
        BY <1>2, <1>5, <2>5, <3>1, <3>2 DEF BatchInv
      <3>4. r \in Batches(f)
        BY <2>5 DEF Batches, e
      <3>5. LandedBatches(f)' = {r}
        BY <2>1, <3>2, <3>4 DEF LandedBatches, Batches
      <3> QED BY <3>3, <3>5 DEF BatchInv
    <2> QED BY <2>3, <2>4, <2>5
  <1>12. ASSUME NEW f \in Escrows PROVE AccountInv(f, escrow'[f]) /\ FreshAccounts(escrow'[f])
    BY <1>4, <1>5, <1>8 DEF CInv
  <1> QED BY <1>6, <1>7, <1>9, <1>10, <1>11, <1>12 DEF CInv

(* Time, wallets and new factories change no escrow account.                       *)
LEMMA WorldKeeps ==
  ASSUME CInv, World \/ NewFactory
  PROVE  CInv'
  <1>1. /\ Next /\ escrow' = escrow /\ UNCHANGED <<phase, snapshot, wire, returned>>
    BY DEF World, NewFactory, Next, Tick, WalletTransfer, FactoryInitialize
  <1>2. TypeOK'
    BY <1>1, TypeStep DEF CInv, CTypeOK
  <1>3. CTypeOK' /\ SnapshotsStayValid'
    BY <1>1, <1>2 DEF CInv, CTypeOK, SnapshotsStayValid
  <1>4. ASSUME NEW q \in Requests PROVE RequestInv(q)'
    BY <1>1, RequestKept DEF CInv
  <1>5. ASSUME NEW e \in Escrows
        PROVE  BatchInv(e)' /\ AccountInv(e, escrow'[e]) /\ FreshAccounts(escrow'[e])
    <2>1. LandedBatches(e)' = LandedBatches(e)
      BY <1>1 DEF LandedBatches, Batches, Landed
    <2> QED BY <1>1, <2>1 DEF CInv, BatchInv
  <1> QED BY <1>1, <1>3, <1>4, <1>5 DEF CInv

(* Nothing happens.                                                             *)
LEMMA StutteringKeeps ==
  ASSUME CInv, UNCHANGED cvars
  PROVE  CInv'
  <1>1. UNCHANGED <<escrow, phase, snapshot, wire, returned>> /\ UNCHANGED vars
    BY DEF cvars, vars
  <1>2. CTypeOK' /\ SnapshotsStayValid'
    BY <1>1 DEF CInv, CTypeOK, TypeOK, SnapshotsStayValid, vars
  <1>3. ASSUME NEW q \in Requests PROVE RequestInv(q)'
    BY <1>1, RequestKept DEF CInv
  <1>4. ASSUME NEW e \in Escrows
        PROVE  BatchInv(e)' /\ AccountInv(e, escrow'[e]) /\ FreshAccounts(escrow'[e])
    <2>1. LandedBatches(e)' = LandedBatches(e)
      BY <1>1 DEF LandedBatches, Batches, Landed
    <2> QED BY <1>1, <2>1 DEF CInv, BatchInv
  <1> QED BY <1>1, <1>2, <1>3, <1>4 DEF CInv

(* In the beginning no escrow exists and nothing has been read or sent.            *)
LEMMA StartKeeps ==
  ASSUME CInit
  PROVE  CInv
  <1>1. TypeOK
    BY BlankEscrowType, CallsAssumption, FactoriesAssumption DEF CInit, Init, TypeOK
  <1>2. /\ NothingRead \in [DOMAIN NothingRead -> TokenAccounts \cup {NoAccount}]
        /\ \A field \in DOMAIN NothingRead : NothingRead[field] = NoAccount
    BY DEF NothingRead, Accounts, BlankEscrow
  <1>3. CTypeOK
    BY <1>1, <1>2 DEF CInit, CTypeOK
  <1>4. SnapshotsStayValid
    BY <1>2 DEF CInit, SnapshotsStayValid
  <1>5. ASSUME NEW e \in Escrows
        PROVE  AccountInv(e, escrow[e]) /\ FreshAccounts(escrow[e]) /\ BatchInv(e)
    <2>1. escrow[e] = BlankEscrow
      BY DEF CInit, Init
    <2>2. AccountInv(e, BlankEscrow)
      BY DEF AccountInv, EscrowInv, OwnsVault, OraclesKnown, CountersFull, BlankEscrow,
             EscrowInitialized, Unsettled, Settled
    <2>3. FreshAccounts(BlankEscrow) /\ ShowsNoBatch(BlankEscrow)
      BY DEF FreshAccounts, ShowsNoBatch, BlankEscrow, Settled
    <2>4. LandedBatches(e) = {}
      BY DEF LandedBatches, Batches, Landed, CInit
    <2> QED BY <2>1, <2>2, <2>3, <2>4 DEF BatchInv
  <1>6. ASSUME NEW r \in Requests PROVE RequestInv(r)
    BY DEF CInit, RequestInv, InFlight, Landed
  <1>7. /\ DOMAIN wire = Requests
        /\ wire = [r \in Requests |->
               [status |-> wire[r].status, instructions |-> wire[r].instructions]]
    BY DEF CInit
  <1> QED BY <1>3, <1>4, <1>5, <1>6, <1>7 DEF CInv

(* The invariant holds in the beginning and no step of any request, of the cluster *)
(* or of the world breaks it.                                                     *)
THEOREM ClientsInductive == CSpec => []CInv
  <1>1. CInv /\ [CNext]_cvars => CInv'
    BY WorldKeeps, ReadKeeps, AbortKeeps, PayoutKeeps, SendKeeps, AnswerKeeps, FailKeeps,
       LandKeeps, DropKeeps, StutteringKeeps DEF CNext
  <1>2. CInit => CInv
    BY StartKeeps
  <1> QED BY <1>1, <1>2, PTL DEF CSpec

(* Every variable keeps its type while requests interleave (see CTypeOK).          *)
THEOREM ClientsTypeCorrect == CSpec => []CTypeOK
  <1>1. CInv => CTypeOK
    BY DEF CInv
  <1> QED BY <1>1, ClientsInductive, PTL

(* A stale read directs no payment (see SnapshotsStayValid).                       *)
THEOREM StaleReadsAreHarmless == CSpec => []SnapshotsStayValid
  <1>1. CInv => SnapshotsStayValid
    BY DEF CInv
  <1> QED BY <1>1, ClientsInductive, PTL

(* However often it is retried, one batch per escrow (see BatchesPayOnce).         *)
THEOREM OneBatchLands == CSpec => []BatchesPayOnce
  <1>1. ASSUME CInv, NEW e \in Escrows
        PROVE  Cardinality(LandedBatches(e)) <= 1
    <2>1. CASE LandedBatches(e) = {}
      BY <2>1, FS_EmptySet
    <2>2. CASE LandedBatches(e) # {}
      <3>1. PICK r : LandedBatches(e) = {r}
        BY <1>1, <2>2 DEF CInv, BatchInv
      <3>2. Cardinality({r}) = 1
        BY FS_Singleton
      <3> QED BY <3>1, <3>2
    <2> QED BY <2>1, <2>2
  <1>2. CInv => BatchesPayOnce
    BY <1>1 DEF BatchesPayOnce
  <1> QED BY <1>2, ClientsInductive, PTL

(* All of a batch or nothing of it (see BatchesPayEverybody).                      *)
THEOREM BatchesAreWhole == CSpec => []BatchesPayEverybody
  <1>1. CInv => BatchesPayEverybody
    BY DEF CInv, BatchInv, ShowsNoBatch, ShowsBatch, BatchesPayEverybody
  <1> QED BY <1>1, ClientsInductive, PTL

(* The roundings decide whether a batch settles its escrow (see BatchOutcome).     *)
THEOREM RoundingsDecide == CSpec => []BatchOutcome
  <1>1. CInv => BatchOutcome
    BY DEF CInv, BatchInv, ShowsBatch, BatchOutcome
  <1> QED BY <1>1, ClientsInductive, PTL

(* An answer of success stays true (see OkMeansDone).                              *)
THEOREM SuccessIsLasting == CSpec => []OkMeansDone
  <1>1. ASSUME CInv, NEW r \in Requests, phase[r] = "ok"
        PROVE  LET esc == escrow[Escrow(r)] IN
               CASE Command(r) = "create" -> EscrowInitialized(esc)
                 [] Command(r) = "setup" ->
                      \A field \in DOMAIN Request[r].call : esc[field] = Request[r].call[field]
                 [] Command(r) = "storeResults" ->
                      /\ esc.final_results \in Documents
                      /\ esc.state \notin {"Uninitialized", "Launched"}
                 [] Command(r) = "bulkPayout" -> r \in LandedBatches(Escrow(r))
                 [] Command(r) = "cancel" -> esc.state = "Cancelled"
                 [] Command(r) = "abort" -> esc.state = "Cancelled" \/ wire[r].status = "unsent"
                 [] Command(r) = "complete" -> esc.state = "Complete"
    <2>1. Command(r) \in Commands
      BY ClientsAssumption DEF Command
    <2>2. CASE Landed(r) /\ Done(r, escrow[Escrow(r)])
      BY <2>1, <2>2 DEF Done, Commands, LandedBatches, Batches, EscrowInitialized
    <2>3. CASE Command(r) = "abort" /\ wire[r].status = "unsent"
      BY <2>3
    <2> QED BY <1>1, <2>2, <2>3 DEF CInv, RequestInv
  <1>2. CInv => OkMeansDone
    BY <1>1 DEF OkMeansDone
  <1> QED BY <1>2, ClientsInductive, PTL

-----------------------------------------------------------------------------
(* What a batch does to the ledger.  Each of its accepted payouts is a well-formed *)
(* call on the escrow's accounts, ...                                             *)
LEMMA AcceptedPayout ==
  ASSUME NEW r \in Requests, Command(r) = "bulkPayout", NEW s,
         NEW k \in DOMAIN Request[r].payouts, NEW at \in Between(Escrow(r)),
         Accepted(r, at, PayoutInstruction(r, s, k))
  PROVE  LET call == PayoutInstruction(r, s, k).call
             esc == at.escrow
         IN  /\ call \in PayoutCall
             /\ esc \in EscrowRecords /\ at.ledger \in Ledgers
             /\ call.token_account = esc.token_account
             /\ esc.reputation_oracle_stake + esc.recording_oracle_stake <= 100
             /\ PayoutTransfersSucceed(esc, at.ledger, call)
  <1> DEFINE call == PayoutInstruction(r, s, k).call
             esc == at.escrow
             e == Escrow(r)
  <1>1. PayoutAccepts(e, esc, at.ledger, clock, Signer(r), call)
    BY DEF Accepted, PayoutInstruction
  <1>2. /\ esc \in EscrowRecords /\ at.ledger \in Ledgers /\ EscrowInv(e, esc)
    BY DEF Between, AccountInv
  <1>3. call.amount \in Amounts /\ call.recipient_token_account \in TokenAccounts
    BY BatchTypes DEF PayoutInstruction
  <1>4. /\ esc.state \in Unsettled
        /\ call.token_account = esc.token_account
        /\ call.reputation_oracle_token_account = esc.reputation_oracle_token_account
        /\ call.recording_oracle_token_account = esc.recording_oracle_token_account
        /\ call.authority = Authority[e]
        /\ PayoutTransfersSucceed(esc, at.ledger, call)
    BY <1>1 DEF PayoutAccepts, PayoutAccountsMatch, StateCheck, Unsettled
  <1>5. /\ esc.token_account \in TokenAccounts
        /\ esc.reputation_oracle_token_account \in TokenAccounts
        /\ esc.recording_oracle_token_account \in TokenAccounts
        /\ esc.reputation_oracle_stake + esc.recording_oracle_stake \in 1 .. 100
    BY <1>2, <1>4 DEF EscrowInv, OwnsVault, OraclesKnown, EscrowInitialized, Unsettled
  <1>6. Authority[e] \in Keys
    BY AuthorityAssumption, ClientsAssumption DEF Escrow
  <1>7. call \in PayoutCall
    BY <1>3, <1>4, <1>5, <1>6 DEF PayoutCall, PayoutInstruction
  <1>8. esc.reputation_oracle_stake + esc.recording_oracle_stake <= 100
    <2> DEFINE sum == esc.reputation_oracle_stake + esc.recording_oracle_stake
    <2>1. sum \in 1 .. 100
      BY <1>5
    <2> HIDE DEF sum
    <2>2. sum <= 100
      BY <2>1
    <2> QED BY <2>2 DEF sum
  <1> QED BY <1>2, <1>4, <1>5, <1>7, <1>8

(* ... so that up to any payout the vault has lost at most the sum of the amounts, *)
(* and no other account anything.                                                 *)
DebitedFor(r, at, sum) ==
  LET v == escrow[Escrow(r)].token_account IN
  /\ at.escrow.token_account = v
  /\ at.returned = returned[Escrow(r)]
  /\ at.ledger[v] \in balance[v] - sum .. balance[v]
  /\ \A a \in TokenAccounts : a # v => at.ledger[a] >= balance[a]

(* One more payout of a batch, executed after those that took sum, takes its amount *)
(* on top: only what went back into the vault by its own transfers may be missing.   *)
LEMMA DebitStep ==
  ASSUME NEW r \in Requests, Command(r) = "bulkPayout", NEW s,
         NEW k \in DOMAIN Request[r].payouts, NEW at \in Between(Escrow(r)), balance \in Ledgers,
         Accepted(r, at, PayoutInstruction(r, s, k)), NEW sum \in Nat, DebitedFor(r, at, sum),
         NEW next, next.escrow = Written(at, PayoutInstruction(r, s, k)),
         next.ledger = Moved(at, PayoutInstruction(r, s, k)),
         next.returned = at.returned + Refunded(at, PayoutInstruction(r, s, k)),
         at.returned \in Nat
  PROVE  DebitedFor(r, next, sum + BatchAmounts(r)[k])
  <1> DEFINE call == PayoutInstruction(r, s, k).call
             esc == at.escrow
             v == escrow[Escrow(r)].token_account
             amount == BatchAmounts(r)[k]
             after == PayoutLedger(esc, at.ledger, call)
  <1>1. /\ call \in PayoutCall
        /\ esc \in EscrowRecords /\ at.ledger \in Ledgers
        /\ call.token_account = esc.token_account
        /\ esc.reputation_oracle_stake + esc.recording_oracle_stake <= 100
        /\ PayoutTransfersSucceed(esc, at.ledger, call)
    BY AcceptedPayout
  <1>2. /\ esc.token_account = v
        /\ at.returned = returned[Escrow(r)]
        /\ at.ledger[v] \in balance[v] - sum .. balance[v]
        /\ \A a \in TokenAccounts : a # v => at.ledger[a] >= balance[a]
    BY DEF DebitedFor
  <1>3. call.amount = amount
    BY DEF PayoutInstruction
  <1>4. /\ next.escrow = PayoutWrites(esc, amount)
        /\ next.ledger = after
        /\ next.returned = at.returned
    <2>1. /\ next.escrow = PayoutWrites(esc, call.amount) /\ next.ledger = after
          /\ next.returned = at.returned + 0
      BY DEF Written, Moved, Refunded, PayoutInstruction
    <2> QED BY <1>3, <2>1
  <1>5. /\ v \in TokenAccounts
        /\ after[v] \in at.ledger[v] - amount .. at.ledger[v]
        /\ \A a \in TokenAccounts : a # v => after[a] >= at.ledger[a]
    <2>1. v \in TokenAccounts
      BY <1>1, <1>2 DEF PayoutCall
    <2> QED BY <1>1, <1>2, <1>3, <2>1, PaymentEffect
  <1>6. after \in Ledgers /\ amount \in Nat
    BY <1>1, <1>3, PayoutLedgerType, I64Assumption DEF PayoutCall, Amounts, U64
  <1>7. Fixed(esc, next.escrow)
    BY <1>1, <1>4, BatchWrites
  <1> HIDE DEF after, amount, v, esc
  <1>8. \A a \in TokenAccounts : after[a] \in Int /\ at.ledger[a] \in Int /\ balance[a] \in Int
    BY <1>1, <1>6 DEF Ledgers, Amounts
  <1>9. after[v] \in balance[v] - (sum + amount) .. balance[v]
    BY <1>2, <1>5, <1>6, <1>8
  <1>10. \A a \in TokenAccounts : a # v => after[a] >= balance[a]
    BY <1>2, <1>5, <1>8
  <1>11. next.escrow.token_account = v
    BY <1>2, <1>7 DEF Fixed, FixedFields
  <1> QED BY <1>2, <1>4, <1>9, <1>10, <1>11 DEF DebitedFor, v, amount

(* Storing the totals moves nothing.                                              *)
LEMMA DebitStart ==
  ASSUME NEW r \in Requests, Command(r) = "bulkPayout", Untried(r) \in Between(Escrow(r)),
         NEW i, i.kind = "StoreFinalAmounts", Accepted(r, Untried(r), i),
         NEW next, next.escrow = Written(Untried(r), i), next.ledger = Moved(Untried(r), i),
         next.returned = Untried(r).returned + Refunded(Untried(r), i)
  PROVE  DebitedFor(r, next, 0)
  <1> DEFINE old == escrow[Escrow(r)]
             v == old.token_account
  <1>1. /\ old \in EscrowRecords /\ balance \in Ledgers /\ returned[Escrow(r)] \in Nat
        /\ EscrowInv(Escrow(r), old)
    BY DEF Between, Untried, AccountInv
  <1>2. old.state \in Unsettled
    BY DEF Accepted, Untried, StoreAmountsAccepts, StateCheck, Unsettled
  <1>3. v \in TokenAccounts
    BY <1>1, <1>2 DEF EscrowInv, OwnsVault, EscrowInitialized, Unsettled
  <1>4. /\ next.escrow = StoreAmountsWrites(old, i.call)
        /\ next.ledger = balance
        /\ next.returned = returned[Escrow(r)] + 0
    BY DEF Written, Moved, Refunded, Untried
  <1>5. Fixed(old, next.escrow)
    BY <1>1, <1>4, BatchWrites
  <1>6. next.escrow.token_account = v
    BY <1>5 DEF Fixed, FixedFields
  <1>7. \A a \in TokenAccounts : balance[a] \in Int
    BY <1>1 DEF Ledgers, Amounts
  <1> HIDE DEF v
  <1>8. /\ next.ledger[v] \in balance[v] - 0 .. balance[v]
        /\ \A a \in TokenAccounts : a # v => next.ledger[a] >= balance[a]
        /\ next.returned = returned[Escrow(r)]
    BY <1>1, <1>3, <1>4, <1>7
  <1> QED BY <1>6, <1>8 DEF DebitedFor, v

(* A batch that lands takes at most its total out of the vault, and lowers no other *)
(* account.                                                                      *)
LEMMA BatchDebits ==
  ASSUME clock \in Timestamps, NEW r \in Requests, NEW s,
         wire[r].instructions = Instructions(r, s), Command(r) = "bulkPayout",
         Untried(r) \in Between(Escrow(r)), Executed(r).accepted
  PROVE  DebitedFor(r, Executed(r), Total(BatchAmounts(r)))
  <1> DEFINE n == Len(Request[r].payouts)
             V == Between(Escrow(r))
             ins == Instructions(r, s)
             amounts == BatchAmounts(r)
  <1>1. /\ n \in Nat /\ amounts \in Seq(Int) /\ Len(amounts) = n
        /\ DOMAIN Request[r].payouts = 1 .. n
        /\ \A k \in 1 .. n : amounts[k] \in Nat
    <2>1. /\ n \in Nat /\ amounts \in Seq(Amounts) /\ Len(amounts) = n
          /\ DOMAIN Request[r].payouts = 1 .. n
          /\ \A k \in 1 .. n : amounts[k] \in Amounts
      BY BatchTypes
    <2>2. Seq(Amounts) \subseteq Seq(Int) /\ Amounts \subseteq Nat
      BY I64Assumption DEF Amounts, U64
    <2> QED BY <2>1, <2>2
  <1>2. /\ DOMAIN ins = 1 .. (n + 1)
        /\ ins[1] = [kind |-> "StoreFinalAmounts",
                     call |-> [total_amount |-> BatchTotal(r), total_recipients |-> n]]
        /\ \A k \in 1 .. n : ins[k + 1] = PayoutInstruction(r, s, k)
    BY InstructionsShape
  <1>3. PICK sum : /\ sum[0] = 0
                   /\ \A k \in 1 .. n : sum[k] = sum[k - 1] + amounts[k]
                   /\ Total(amounts) = sum[n]
    <2> HIDE DEF amounts, n
    <2> QED BY <1>1, TotalRuns
  <1>4. PICK run : /\ run[0] = Untried(r)
                   /\ \A i \in 1 .. (n + 1) : run[i] = Processed(r, run[i - 1], ins[i])
                   /\ \A i \in 0 .. (n + 1) : run[i] \in V
                   /\ Executed(r) = run[n + 1]
    <2>1. n + 1 \in Nat
      BY <1>1
    <2> HIDE DEF n
    <2> QED BY <1>2, <2>1, TransactionSteps
  <1>5. \A i \in 0 .. (n + 1) : run[i].accepted \in BOOLEAN /\ run[i].returned \in Nat
    BY <1>4 DEF Between
  <1>6. balance \in Ledgers
    BY DEF Between, Untried
  <1> HIDE DEF n, V, ins, amounts
  <1> DEFINE P == {k \in 0 .. n : /\ sum[k] \in Nat
                                  /\ run[k + 1].accepted => DebitedFor(r, run[k + 1], sum[k])}
  <1>7. 0 \in P
    <2>1. run[1] = Processed(r, Untried(r), ins[1]) /\ Untried(r).accepted \in BOOLEAN
      BY <1>1, <1>4, <1>5
    <2>2. ASSUME run[1].accepted
          PROVE  DebitedFor(r, run[1], 0)
      <3>1. /\ Accepted(r, Untried(r), ins[1])
            /\ run[1] = [accepted |-> TRUE, escrow |-> Written(Untried(r), ins[1]),
                         ledger |-> Moved(Untried(r), ins[1]),
                         returned |-> Untried(r).returned + Refunded(Untried(r), ins[1])]
        <4>1. Processed(r, Untried(r), ins[1]).accepted
          BY <2>1, <2>2
        <4>2. \A at, i : at.accepted \in BOOLEAN /\ Processed(r, at, i).accepted =>
                /\ Accepted(r, at, i)
                /\ Processed(r, at, i) =
                     [accepted |-> TRUE, escrow |-> Written(at, i), ledger |-> Moved(at, i),
                      returned |-> at.returned + Refunded(at, i)]
          BY ProcessedCases
        <4> QED BY <2>1, <4>1, <4>2
      <3>2. /\ run[1].escrow = Written(Untried(r), ins[1])
            /\ run[1].ledger = Moved(Untried(r), ins[1])
            /\ run[1].returned = Untried(r).returned + Refunded(Untried(r), ins[1])
        BY <3>1
      <3>3. ins[1].kind = "StoreFinalAmounts"
        BY <1>2
      <3> QED BY <3>1, <3>2, <3>3, DebitStart
    <2> QED BY <1>1, <1>3, <2>2
  <1>8. ASSUME NEW k \in 1 .. n, k - 1 \in P
        PROVE  k \in P
    <2> DEFINE i == k - 1
               at == run[k]
               pay == PayoutInstruction(r, s, k)
    <2>1. /\ i \in Nat /\ i + 1 = k /\ k \in 0 .. (n + 1) /\ k + 1 \in 1 .. (n + 1)
          /\ (k + 1) - 1 = k /\ k \in 0 .. n
      BY <1>1
    <2>2. /\ sum[i] \in Nat /\ (at.accepted => DebitedFor(r, at, sum[i]))
      BY <1>8, <2>1
    <2>3. amounts[k] \in Nat /\ sum[k] = sum[i] + amounts[k]
      BY <1>1, <1>3
    <2>4. sum[k] \in Nat
      BY <2>2, <2>3
    <2>5. ASSUME run[k + 1].accepted
          PROVE  DebitedFor(r, run[k + 1], sum[k])
      <3>1. run[k + 1] = Processed(r, at, pay) /\ at \in V /\ at.accepted \in BOOLEAN
            /\ at.returned \in Nat
        BY <1>2, <1>4, <1>5, <2>1
      <3>2. /\ at.accepted /\ Accepted(r, at, pay)
            /\ run[k + 1] = [accepted |-> TRUE, escrow |-> Written(at, pay),
                             ledger |-> Moved(at, pay),
                             returned |-> at.returned + Refunded(at, pay)]
        <4>1. Processed(r, at, pay).accepted
          BY <2>5, <3>1
        <4> HIDE DEF at, pay
        <4> QED BY <3>1, <4>1, ProcessedCases
      <3>3. /\ run[k + 1].escrow = Written(at, pay)
            /\ run[k + 1].ledger = Moved(at, pay)
            /\ run[k + 1].returned = at.returned + Refunded(at, pay)
        BY <3>2
      <3>4. DebitedFor(r, at, sum[i])
        BY <2>2, <3>2
      <3>5. k \in DOMAIN Request[r].payouts
        BY <1>1
      <3> HIDE DEF i, at
      <3>6. DebitedFor(r, run[k + 1], sum[i] + BatchAmounts(r)[k])
        BY <1>6, <2>2, <3>1, <3>2, <3>3, <3>4, <3>5, DebitStep DEF V
      <3> QED BY <2>3, <3>6 DEF amounts
    <2> QED BY <2>1, <2>4, <2>5
  <1>9. n \in P
    <2>1. \A k \in 0 .. n : k \in P
      <3> HIDE DEF P
      <3> QED BY <1>1, <1>7, <1>8, PrefixInduction
    <2> QED BY <1>1, <2>1
  <1> QED BY <1>3, <1>4, <1>9 DEF amounts

-----------------------------------------------------------------------------
(* What a transaction that lands does to the ledger and to what has been returned  *)
LandMoves(r) ==
  LET old == escrow[Escrow(r)]
      v == old.token_account
      at == Executed(r)
  IN  /\ Command(r) \in {"create", "setup", "storeResults", "complete"} =>
           at.ledger = balance /\ at.returned = returned[Escrow(r)]
      /\ Command(r) = "bulkPayout" => DebitedFor(r, at, Total(BatchAmounts(r)))
      /\ Command(r) \in {"cancel", "abort"} =>
           /\ v \in TokenAccounts /\ balance[v] # 0
           /\ at.ledger = Transferred(balance, v, old.canceler_token_account, balance[v])
           /\ at.returned = returned[Escrow(r)] + balance[v]

(* A transaction that lands moves tokens the way its command says.                 *)
LEMMA LandingMoves ==
  ASSUME CInv, NEW r \in Requests, Land(r)
  PROVE  LandMoves(r)
  <1> DEFINE e == Escrow(r)
             old == escrow[e]
  <1>1. e \in Escrows /\ clock \in Timestamps
    <2>1. e \in Escrows
      BY ClientsAssumption DEF Escrow
    <2>2. clock \in 0 .. MaxClock /\ MaxClock \in 0 .. I64 - 1
      BY CallsAssumption DEF CInv, CTypeOK, TypeOK
    <2>3. clock \in Timestamps
      BY <2>2, I64Assumption DEF Timestamps
    <2> QED BY <2>1, <2>3
  <1>2. /\ InFlight(r) /\ Executed(r).accepted /\ RequestInv(r)
        /\ Untried(r) \in Between(e) /\ returned[e] \in Nat
    BY <1>1, UntriedType DEF Land, CInv, CTypeOK
  <1>3. PICK s : wire[r].instructions = Instructions(r, s)
    BY <1>2 DEF RequestInv
  <1>4. CASE Command(r) = "bulkPayout"
    <2>1. DebitedFor(r, Executed(r), Total(BatchAmounts(r)))
      BY <1>1, <1>2, <1>3, <1>4, BatchDebits
    <2> QED BY <1>4, <2>1 DEF LandMoves
  <1>5. CASE Command(r) # "bulkPayout"
    <2> DEFINE i == Instructions(r, s)[1]
               at == Untried(r)
    <2>1. /\ InstructionOf(r, i) /\ Accepted(r, at, i)
          /\ Executed(r).ledger = Moved(at, i)
          /\ Executed(r).returned = at.returned + Refunded(at, i)
      BY <1>1, <1>2, <1>3, <1>5, SingleLands
    <2>2. at.escrow = old /\ at.ledger = balance /\ at.returned = returned[e]
      BY DEF Untried
    <2> HIDE DEF i, at
    <2>3. CASE Command(r) \in {"create", "setup", "storeResults", "complete"}
      <3>1. i.kind \in {"Initialize", "Setup", "StoreResults", "Complete"}
        BY <2>1, <2>3 DEF InstructionOf
      <3>2. Moved(at, i) = at.ledger /\ Refunded(at, i) = 0
        BY <3>1 DEF Moved, Refunded
      <3> QED BY <1>2, <2>1, <2>2, <2>3, <3>2 DEF LandMoves
    <2>4. CASE Command(r) \in {"cancel", "abort"}
      <3>1. i.kind = "Cancel"
        BY <2>1, <2>4 DEF InstructionOf
      <3>2. CancelAccepts(e, old, balance, Signer(r), i.call)
        BY <2>1, <2>2, <3>1 DEF Accepted
      <3>3. /\ i.call.token_account = old.token_account
            /\ i.call.canceler_token_account = old.canceler_token_account
            /\ balance[old.token_account] # 0
            /\ EscrowInitialized(old)
        BY <3>2 DEF CancelAccepts
      <3>4. old.token_account \in TokenAccounts
        BY <1>1, <3>3 DEF CInv, AccountInv, EscrowInv, OwnsVault
      <3>5. /\ Moved(at, i) = CancelLedger(balance, i.call)
            /\ Refunded(at, i) = balance[i.call.token_account]
        BY <2>2, <3>1 DEF Moved, Refunded
      <3> QED BY <2>1, <2>2, <2>4, <3>3, <3>4, <3>5 DEF LandMoves, CancelLedger
    <2>5. Command(r) \in Commands
      BY ClientsAssumption DEF Command
    <2> QED BY <1>5, <2>3, <2>4, <2>5 DEF Commands
  <1> QED BY <1>4, <1>5

-----------------------------------------------------------------------------
(* A step of another escrow's request, of a wallet or of the node, as escrow k     *)
(* sees it                                                                        *)
Untouched(k) ==
  /\ escrow'[k] = escrow[k]
  /\ returned'[k] = returned[k]
  /\ Known(k) => balance'[Vault(k)] >= balance[Vault(k)]

(* To JobSettlement such a job only ever gained.                                     *)
LEMMA UntouchedJob ==
  ASSUME NEW k \in Escrows, Untouched(k)
  PROVE  /\ StageOf(escrow'[k].state) = StageOf(escrow[k].state)
         /\ escrow'[k].sent_amount = escrow[k].sent_amount
         /\ returned'[k] = returned[k]
         /\ Pot(k)' >= Pot(k)
  BY DEF Untouched, Pot, Known, EscrowInitialized, Vault

(* A step that touches no job is a deposit, ...                                   *)
LEMMA UntouchedIsDeposit ==
  ASSUME \A k \in Escrows : Untouched(k), returned' = returned
  PROVE  Settlement!Deposit
  BY UntouchedJob DEF Settlement!Deposit

(* ... one that touches only e is a step of e.                                    *)
LEMMA UntouchedIsOnly ==
  ASSUME NEW e \in Escrows, \A k \in Escrows \ {e} : Untouched(k)
  PROVE  Settlement!Only(e)
  BY UntouchedJob DEF Settlement!Only

(* A step that changes neither accounts nor balances deposits nothing.              *)
LEMMA QuietIsDeposit ==
  ASSUME CInv, UNCHANGED <<escrow, balance, returned>>
  PROVE  Settlement!Deposit
  <1>1. ASSUME NEW k \in Escrows, Known(k)
        PROVE  balance[Vault(k)] \in Int
    <2>1. IInv
      BY DEF CInv, CTypeOK, AccountInv, IInv
    <2>2. balance[Vault(k)] \in Amounts
      BY <1>1, <2>1, VaultFacts
    <2> QED BY <2>2 DEF Amounts
  <1> QED BY <1>1, UntouchedIsDeposit DEF Untouched

(* Time, wallets and new factories.                                              *)
LEMMA WorldDeposits ==
  ASSUME CInv, World \/ NewFactory
  PROVE  Settlement!Deposit
  <1>1. CASE UNCHANGED <<escrow, balance, returned>>
    BY <1>1, QuietIsDeposit
  <1>2. ASSUME NEW t \in WalletTransfers, WalletTransfer(t), returned' = returned
        PROVE  Settlement!Deposit
    <2>1. IInv
      BY DEF CInv, CTypeOK, AccountInv, IInv
    <2>2. \A k \in Escrows : Untouched(k)
      BY <1>2, <2>1, WalletsSpareVaults DEF WalletTransfer, Untouched
    <2> QED BY <1>2, <2>2, UntouchedIsDeposit
  <1> QED BY <1>1, <1>2 DEF World, NewFactory, Tick, FactoryInitialize
(* A transaction lowers no other job's vault.                                     *)
LEMMA LandSparesOthers ==
  ASSUME CInv, NEW r \in Requests, Land(r), NEW k \in Escrows, k # Escrow(r)
  PROVE  Untouched(k)
  <1> DEFINE e == Escrow(r)
             v == Vault(e)
  <1>1. /\ IInv /\ e \in Escrows /\ balance \in Ledgers
        /\ escrow \in [Escrows -> EscrowRecords] /\ returned \in [Escrows -> Nat]
        /\ AccountInv(e, escrow[e])
    BY ClientsAssumption DEF CInv, CTypeOK, TypeOK, AccountInv, IInv, Escrow
  <1>2. escrow'[k] = escrow[k] /\ returned'[k] = returned[k]
    BY <1>1 DEF Land
  <1>3. balance' = Executed(r).ledger
    BY DEF Land
  <1>4. LandedAs(r, escrow[e], Executed(r).escrow) /\ LandMoves(r)
    BY LandEffect, LandingMoves
  <1>5. ASSUME Known(k)
        PROVE  balance'[Vault(k)] >= balance[Vault(k)]
    <2>1. Vault(k) \in TokenAccounts /\ OwnerOf[Vault(k)] = Authority[k]
          /\ balance[Vault(k)] \in Amounts
      BY <1>1, <1>5, VaultFacts
    <2>2. Known(e) => Vault(k) # v
      BY <1>1, <2>1, VaultFacts, AuthorityAssumption
    <2>3. CASE Command(r) \in {"create", "setup", "storeResults", "complete"}
      <3>1. balance' = balance
        BY <1>4, <1>3, <2>3 DEF LandMoves
      <3> QED BY <2>1, <3>1 DEF Amounts
    <2>4. CASE Command(r) = "bulkPayout"
      <3>1. Known(e)
        BY <1>4, <2>4 DEF LandedAs, Known, EscrowInitialized, Unsettled
      <3>2. \A a \in TokenAccounts : a # v => Executed(r).ledger[a] >= balance[a]
        BY <1>4, <2>4 DEF LandMoves, DebitedFor, Vault
      <3> QED BY <1>3, <2>1, <2>2, <3>1, <3>2
    <2>5. CASE Command(r) \in {"cancel", "abort"}
      <3>1. Known(e)
        BY <1>4, <2>5 DEF LandedAs, Known, EscrowInitialized
      <3>2. /\ v \in TokenAccounts
            /\ Executed(r).ledger
                 = Transferred(balance, v, escrow[e].canceler_token_account, balance[v])
        BY <1>4, <2>5 DEF LandMoves, Vault
      <3>3. escrow[e].canceler_token_account \in TokenAccounts /\ balance[v] \in Amounts
        BY <1>1, <3>1, <3>2 DEF AccountInv, Known, Ledgers
      <3> QED BY <1>1, <1>3, <2>1, <2>2, <3>1, <3>2, <3>3, TransferEffect
    <2>6. Command(r) \in Commands
      BY ClientsAssumption DEF Command
    <2> QED BY <2>3, <2>4, <2>5, <2>6 DEF Commands
  <1> QED BY <1>2, <1>5 DEF Untouched

-----------------------------------------------------------------------------
(* A batch spends no more than the pot holds because bulk_payout looked at the     *)
(* vault, long before its transaction lands.  What it saw stays true until then:   *)
(* a vault only loses tokens to a batch or a cancel of its escrow, and both shut    *)
(* every other batch out.                                                         *)
Looked(r) == Command(r) = "bulkPayout" /\ (phase[r] = "ready" \/ InFlight(r))

VaultCovers(r) ==
  Looked(r) =>
    LET esc == escrow[Escrow(r)] IN
    /\ esc.state \notin {"Uninitialized", "Launched"}
    /\ esc.state \in Unsettled /\ esc.sent_recipients = 0 =>
         BatchTotal(r) <= balance[esc.token_account]

(* Who has read a fee account has read the vault with it.                         *)
SnapshotWhole(r) ==
  snapshot[r].reputation_oracle_token_account # NoAccount =>
    snapshot[r].token_account # NoAccount

LookInv == \A r \in Requests : SnapshotWhole(r) /\ VaultCovers(r)

(* A step that opens an escrow to no batch, and takes nothing from its vault while  *)
(* the escrow is open to one                                                      *)
KeepsCover(f) ==
  LET old == escrow[f]
      new == escrow'[f]
  IN  old.state \notin {"Uninitialized", "Launched"} =>
        /\ new.state \notin {"Uninitialized", "Launched"}
        /\ new.state \in Unsettled /\ new.sent_recipients = 0 =>
             /\ old.state \in Unsettled /\ old.sent_recipients = 0
             /\ balance'[new.token_account] >= balance[old.token_account]

(* The vault of an escrow that exists holds a number of tokens.                    *)
LEMMA VaultType ==
  ASSUME CInv, NEW f \in Escrows, Known(f)
  PROVE  Vault(f) \in TokenAccounts /\ balance[Vault(f)] \in Int
  <1>1. IInv
    BY DEF CInv, CTypeOK, AccountInv, IInv
  <1>2. Vault(f) \in TokenAccounts /\ balance[Vault(f)] \in Amounts
    BY <1>1, VaultFacts
  <1> QED BY <1>2 DEF Amounts

(* Whatever lands on f, if f has not been paid from afterwards it had not been       *)
(* before either, and no token left its vault in between: a refund would have        *)
(* cancelled it.                                                                    *)
LEMMA LandKeepsCover ==
  ASSUME CInv, NEW r \in Requests, Land(r), NEW f \in Escrows
  PROVE  KeepsCover(f)
  <1> DEFINE old == escrow[f]
             new == escrow'[f]
  <1>1. ASSUME f # Escrow(r) PROVE KeepsCover(f)
    <2>1. Untouched(f)
      BY <1>1, LandSparesOthers
    <2> QED BY <2>1 DEF KeepsCover, Untouched, Known, EscrowInitialized, Vault
  <1>2. ASSUME f = Escrow(r), old.state \notin {"Uninitialized", "Launched"}
        PROVE  /\ new.state \notin {"Uninitialized", "Launched"}
               /\ new.state \in Unsettled /\ new.sent_recipients = 0 =>
                    /\ old.state \in Unsettled /\ old.sent_recipients = 0
                    /\ balance'[new.token_account] >= balance[old.token_account]
    <2>1. /\ LandedAs(r, old, Executed(r).escrow) /\ LandMoves(r)
          /\ Command(r) = "bulkPayout" => Request[r].payouts # <<>>
      BY <1>2, LandEffect, LandingMoves
    <2>2. /\ old \in EscrowRecords /\ new = Executed(r).escrow /\ balance' = Executed(r).ledger
      BY <1>2 DEF CInv, CTypeOK, TypeOK, Land
    <2>3. balance[old.token_account] \in Int
      BY <1>2, VaultType DEF Known, EscrowInitialized, Vault
    <2>4. CASE Command(r) \in {"create", "setup"}
      BY <1>2, <2>1, <2>4 DEF LandedAs
    <2>5. CASE Command(r) = "storeResults"
      <3>1. balance' = balance
        BY <2>1, <2>2, <2>5 DEF LandMoves
      <3>2. /\ new.state = old.state /\ new.sent_recipients = old.sent_recipients
            /\ new.token_account = old.token_account
        BY <2>1, <2>2, <2>5 DEF LandedAs, StoreResultsWrites, EscrowRecords
      <3> QED BY <1>2, <2>3, <3>1, <3>2
    <2>6. CASE Command(r) = "bulkPayout"
      <3>1. Len(Request[r].payouts) # 0
        <4>1. Request[r].payouts # <<>> /\ Request[r].payouts \in PayoutFiles
          BY <2>1, <2>6, ClientsAssumption DEF Command
        <4> QED BY <4>1 DEF PayoutFiles
      <3> QED BY <2>1, <2>2, <2>6, <3>1 DEF LandedAs, Unsettled
    <2>7. CASE Command(r) \in {"cancel", "abort"}
      <3>1. new.state = "Cancelled"
        BY <2>1, <2>2, <2>7 DEF LandedAs, CancelWrites, EscrowRecords
      <3> QED BY <3>1 DEF Unsettled
    <2>8. CASE Command(r) = "complete"
      <3>1. new.state = "Complete"
        BY <2>1, <2>2, <2>8 DEF LandedAs, CompleteWrites, EscrowRecords
      <3> QED BY <3>1 DEF Unsettled
    <2>9. Command(r) \in Commands
      BY ClientsAssumption DEF Command
    <2> QED BY <2>4, <2>5, <2>6, <2>7, <2>8, <2>9 DEF Commands
  <1> QED BY <1>1, <1>2 DEF KeepsCover

(* So does every step of the system, wallets included: no wallet signs for a vault.  *)
LEMMA StepKeepsCover ==
  ASSUME CInv, [CNext]_cvars, NEW f \in Escrows
  PROVE  KeepsCover(f)
  <1>1. CASE UNCHANGED <<escrow, balance>>
    <2>1. Known(f) => balance[Vault(f)] \in Int
      BY VaultType
    <2> QED BY <1>1, <2>1 DEF KeepsCover, Known, EscrowInitialized, Vault
  <1>2. ASSUME NEW t \in WalletTransfers, WalletTransfer(t)
        PROVE  KeepsCover(f)
    <2>1. IInv
      BY DEF CInv, CTypeOK, AccountInv, IInv
    <2>2. Known(f) => balance'[Vault(f)] >= balance[Vault(f)]
      BY <1>2, <2>1, WalletsSpareVaults
    <2> QED BY <1>2, <2>2 DEF WalletTransfer, KeepsCover, Known, EscrowInitialized, Vault
  <1>3. CASE \E r \in Requests : Land(r)
    BY <1>3, LandKeepsCover
  <1> QED BY <1>1, <1>2, <1>3
          DEF CNext, cvars, vars, World, NewFactory, Tick, FactoryInitialize,
              ReadEscrow, AbortLooksAtVault, PayoutLooksAtVault, Send, Answer, Fail, Drop

(* What a request has seen of the vault stays true from step to step, ...          *)
LEMMA CoverKept ==
  ASSUME CInv, CInv', [CNext]_cvars, NEW q \in Requests, VaultCovers(q), Looked(q)' => Looked(q)
  PROVE  VaultCovers(q)'
  <1> DEFINE f == Escrow(q)
  <1>1. f \in Escrows
    BY ClientsAssumption DEF Escrow
  <1>2. KeepsCover(f)
    BY <1>1, StepKeepsCover
  <1>3. Known(f) => balance[Vault(f)] \in Int
    BY <1>1, VaultType
  <1>4. Known(f)' => balance'[Vault(f)'] \in Int
    <2>1. IInv'
      BY DEF CInv, CTypeOK, AccountInv, IInv
    <2> QED BY <1>1, <2>1 DEF IInv, EscrowInv, OwnsVault, Known, Vault, TypeOK, Ledgers, Amounts
  <1>5. Looked(q) => BatchTotal(q) \in Int
    <2>1. Looked(q) => BatchTotal(q) \in Amounts
      BY BatchTypes DEF Looked
    <2> QED BY <2>1 DEF Amounts
  <1> HIDE DEF f
  <1> QED BY <1>2, <1>3, <1>4, <1>5
          DEF VaultCovers, KeepsCover, Known, EscrowInitialized, Vault, Unsettled, f

(* ... and only a look at the vault starts it.                                    *)
LEMMA LookStarts ==
  ASSUME CInv, [CNext]_cvars, NEW q \in Requests, ~PayoutLooksAtVault(q)
  PROVE  Looked(q)' => Looked(q)
  <1>1. phase \in [Requests -> {"new"} \cup Working \cup Answered] /\ DOMAIN wire = Requests
    BY DEF CInv, CTypeOK
  <1>2. ASSUME NEW r \in Requests, ReadEscrow(r)
        PROVE  Looked(q)' => Looked(q)
    BY <1>1, <1>2 DEF ReadEscrow, Finish, Looked, InFlight
  <1>3. ASSUME NEW r \in Requests, AbortLooksAtVault(r)
        PROVE  Looked(q)' => Looked(q)
    <2>1. /\ Command(r) = "abort" /\ wire' = wire
          /\ \A p \in Requests \ {r} : phase'[p] = phase[p]
      <3>1. phase' \in {[phase EXCEPT ![r] = "error"], [phase EXCEPT ![r] = "ok"],
                       [phase EXCEPT ![r] = "ready"]}
        BY <1>3, Zenon DEF AbortLooksAtVault, Finish
      <3> QED BY <1>1, <1>3, <3>1 DEF AbortLooksAtVault
    <2> QED BY <2>1 DEF Looked, InFlight
  <1>4. ASSUME NEW r \in Requests, PayoutLooksAtVault(r)
        PROVE  Looked(q)' => Looked(q)
    BY <1>1, <1>4 DEF PayoutLooksAtVault, Finish, Looked, InFlight
  <1>5. ASSUME NEW r \in Requests, Send(r)
        PROVE  Looked(q)' => Looked(q)
    BY <1>1, <1>5 DEF Send, Looked, InFlight
  <1>6. ASSUME NEW r \in Requests, Answer(r) \/ Fail(r)
        PROVE  Looked(q)' => Looked(q)
    BY <1>1, <1>6 DEF Answer, Fail, Finish, Looked, InFlight
  <1>7. ASSUME NEW r \in Requests, Land(r) \/ Drop(r)
        PROVE  Looked(q)' => Looked(q)
    BY <1>1, <1>7 DEF Land, Drop, Looked, InFlight
  <1>8. ASSUME World \/ NewFactory \/ UNCHANGED cvars
        PROVE  Looked(q)' => Looked(q)
    BY <1>8 DEF World, NewFactory, cvars, Looked, InFlight
  <1> QED BY <1>2, <1>3, <1>4, <1>5, <1>6, <1>7, <1>8 DEF CNext

(* What bulk_payout looks at is the vault of its escrow, which covers the total.   *)
LEMMA LookCovers ==
  ASSUME CInv, NEW q \in Requests, SnapshotWhole(q), PayoutLooksAtVault(q)
  PROVE  VaultCovers(q)'
  <1> DEFINE esc == escrow[Escrow(q)]
  <1>1. /\ escrow' = escrow /\ balance' = balance
        /\ Escrow(q) \in Escrows /\ FreshAccounts(esc)
        /\ phase[q] = "read" /\ wire' = wire /\ ~InFlight(q)
        /\ phase \in [Requests -> {"new"} \cup Working \cup Answered]
    BY ClientsAssumption DEF PayoutLooksAtVault, vars, CInv, CTypeOK, RequestInv, InFlight, Escrow
  <1>2. SUFFICES ASSUME phase'[q] = "ready"
                 PROVE  VaultCovers(q)'
    BY <1>1 DEF VaultCovers, Looked, InFlight
  <1>3. /\ snapshot[q].reputation_oracle_token_account # NoAccount
        /\ BatchTotal(q) <= balance[snapshot[q].token_account]
    BY <1>1, <1>2 DEF PayoutLooksAtVault, Finish
  <1>4. /\ "token_account" \in DOMAIN snapshot[q]
        /\ "reputation_oracle_token_account" \in DOMAIN snapshot[q]
    BY DEF CInv, CTypeOK, NothingRead, Accounts
  <1>5. /\ snapshot[q].token_account = esc.token_account
        /\ esc.reputation_oracle_token_account # NoAccount
    BY <1>3, <1>4 DEF CInv, SnapshotsStayValid, SnapshotWhole
  <1>6. esc.state \notin {"Uninitialized", "Launched"}
    BY <1>1, <1>5 DEF FreshAccounts
  <1> QED BY <1>1, <1>3, <1>5, <1>6 DEF VaultCovers

(* One read gives a snapshot all of its accounts, and Initialize stores the vault     *)
(* before Setup stores a fee account.                                                *)
LEMMA SnapshotStaysWhole ==
  ASSUME CInv, [CNext]_cvars, NEW q \in Requests, SnapshotWhole(q)
  PROVE  SnapshotWhole(q)'
  <1>1. /\ snapshot \in [Requests -> [DOMAIN NothingRead -> TokenAccounts \cup {NoAccount}]]
        /\ NothingRead.reputation_oracle_token_account = NoAccount
    BY DEF CInv, CTypeOK, NothingRead, Accounts, BlankEscrow
  <1>2. ASSUME NEW r \in Requests, snapshot' = [snapshot EXCEPT ![r] = NothingRead]
        PROVE  SnapshotWhole(q)'
    BY <1>1, <1>2 DEF SnapshotWhole
  <1>3. CASE snapshot' = snapshot
    BY <1>3 DEF SnapshotWhole
  <1>4. ASSUME NEW r \in Requests,
               snapshot' = [snapshot EXCEPT ![r] = Accounts(escrow[Escrow(r)])]
        PROVE  SnapshotWhole(q)'
    <2> DEFINE esc == escrow[Escrow(r)]
    <2>1. FreshAccounts(esc) /\ AccountInv(Escrow(r), esc)
      BY ClientsAssumption DEF CInv, Escrow
    <2>2. esc.reputation_oracle_token_account # NoAccount => esc.token_account # NoAccount
      BY <2>1, DefaultsAssumption
         DEF FreshAccounts, AccountInv, EscrowInv, OwnsVault, EscrowInitialized
    <2>3. CASE q = r
      BY <1>1, <1>4, <2>2, <2>3 DEF SnapshotWhole, Accounts
    <2>4. CASE q # r
      BY <1>1, <1>4, <2>4 DEF SnapshotWhole
    <2> QED BY <2>3, <2>4
  <1>5. ASSUME NEW r \in Requests, ReadEscrow(r)
        PROVE  SnapshotWhole(q)'
    <2>1. \/ snapshot' = [snapshot EXCEPT ![r] = Accounts(escrow[Escrow(r)])]
          \/ snapshot' = [snapshot EXCEPT ![r] = snapshot[r]]
          \/ snapshot' = [snapshot EXCEPT ![r] = NothingRead]
      BY <1>5 DEF ReadEscrow, Finish
    <2>2. [snapshot EXCEPT ![r] = snapshot[r]] = snapshot
      BY <1>1
    <2> QED BY <1>2, <1>3, <1>4, <2>1, <2>2
  <1>6. ASSUME NEW r \in Requests, AbortLooksAtVault(r)
        PROVE  SnapshotWhole(q)'
    <2>1. snapshot' \in {[snapshot EXCEPT ![r] = NothingRead], snapshot}
      BY <1>6, Zenon DEF AbortLooksAtVault, Finish
    <2> QED BY <1>2, <1>3, <2>1
  <1>7. ASSUME NEW r \in Requests, PayoutLooksAtVault(r) \/ Send(r) \/ Answer(r) \/ Fail(r)
        PROVE  SnapshotWhole(q)'
    <2>1. snapshot' \in {[snapshot EXCEPT ![r] = NothingRead], snapshot}
      BY <1>7 DEF PayoutLooksAtVault, Send, Answer, Fail, Finish
    <2> QED BY <1>2, <1>3, <2>1
  <1>8. ASSUME \/ World \/ NewFactory \/ UNCHANGED cvars
               \/ \E r \in Requests : Land(r) \/ Drop(r)
        PROVE  SnapshotWhole(q)'
    BY <1>3, <1>8 DEF World, NewFactory, cvars, Land, Drop
  <1> QED BY <1>5, <1>6, <1>7, <1>8 DEF CNext

(* What a batch found in the vault when it looked is still there when it lands, in    *)
(* every step of every request.                                                      *)
LEMMA LookStep ==
  ASSUME CInv, CInv', LookInv, [CNext]_cvars
  PROVE  LookInv'
  <1>1. ASSUME NEW q \in Requests
        PROVE  SnapshotWhole(q)' /\ VaultCovers(q)'
    <2>1. SnapshotWhole(q) /\ VaultCovers(q)
      BY DEF LookInv
    <2>2. CASE PayoutLooksAtVault(q)
      BY <2>1, <2>2, LookCovers, SnapshotStaysWhole
    <2>3. CASE ~PayoutLooksAtVault(q)
      BY <2>1, <2>3, LookStarts, CoverKept, SnapshotStaysWhole
    <2> QED BY <2>2, <2>3
  <1> QED BY <1>1 DEF LookInv

-----------------------------------------------------------------------------
(* Every transaction that lands is one step of one job, or a deposit.              *)
LEMMA LandSettles ==
  ASSUME CInv, NEW r \in Requests, VaultCovers(r), Land(r),
         Command(r) = "bulkPayout" => Total(BatchAmounts(r)) < U64
  PROVE  Settlement!Next
  <1> DEFINE e == Escrow(r)
             old == escrow[e]
             new == Executed(r).escrow
             v == Vault(e)
  <1>1. /\ IInv /\ e \in Escrows /\ balance \in Ledgers
        /\ escrow \in [Escrows -> EscrowRecords] /\ returned \in [Escrows -> Nat]
        /\ AccountInv(e, old) /\ old \in EscrowRecords /\ FreshAccounts(old)
    BY ClientsAssumption DEF CInv, CTypeOK, TypeOK, AccountInv, IInv, Escrow
  <1>2. /\ LandedAs(r, old, new) /\ Executed(r) \in Between(e)
        /\ Command(r) = "bulkPayout" => Request[r].payouts # <<>>
    BY LandEffect
  <1>3. LandMoves(r)
    BY LandingMoves
  <1>4. Settlement!Only(e)
    BY <1>1, LandSparesOthers, UntouchedIsOnly
  <1>5. /\ escrow'[e] = new /\ balance' = Executed(r).ledger
        /\ returned'[e] = Executed(r).returned
        /\ returned' = [returned EXCEPT ![e] = Executed(r).returned]
    BY <1>1 DEF Land
  <1>6. Executed(r).ledger \in Ledgers
    BY <1>2 DEF Between
  <1>7. Known(e) => v \in TokenAccounts /\ balance[v] \in Nat /\ Pot(e) = balance[v]
    BY <1>1, VaultFacts, I64Assumption DEF Pot, Amounts, U64
  <1>8. Command(r) \in Commands
    BY ClientsAssumption DEF Command
  <1> HIDE DEF e, old, new
  <1>10. CASE Command(r) = "create"
    <2>1. /\ old.state = "Uninitialized" /\ new = InitializeWrites(clock, Request[r].call)
          /\ Request[r].call \in InitializeCall
      BY <1>2, <1>10, ClientsAssumption DEF LandedAs, Command
    <2>2. old.sent_amount = 0
      <3>1. BatchInv(e)
        BY <1>1 DEF CInv
      <3> QED BY <2>1, <3>1 DEF BatchInv, ShowsNoBatch, ShowsBatch, Settled, old
    <2>3. /\ new.state = "Launched" /\ new.sent_amount = 0
          /\ new.token_account \in TokenAccounts
      BY <2>1 DEF InitializeWrites, BlankEscrow, InitializeCall
    <2>4. balance' = balance /\ returned'[e] = returned[e]
      BY <1>3, <1>5, <1>10 DEF LandMoves, e
    <2>5. Pot(e)' >= 0
      BY <1>1, <1>5, <2>3, <2>4, I64Assumption DEF Pot, Known, Vault, EscrowInitialized, Ledgers, Amounts, U64
    <2>6. Settlement!Launch(e)
      BY <1>1, <1>5, <2>1, <2>2, <2>3, <2>4, <2>5
         DEF Settlement!Launch, StageOf, Unsettled, old
    <2> QED BY <1>1, <1>4, <2>6 DEF Settlement!Next
  <1>11. CASE Command(r) \in {"setup", "storeResults", "complete"}
    <2>1. /\ balance' = balance /\ returned'[e] = returned[e] /\ returned' = returned
      BY <1>1, <1>3, <1>5, <1>11 DEF LandMoves, e
    <2>2. /\ old.state # "Uninitialized" /\ new.state # "Uninitialized"
          /\ new.sent_amount = old.sent_amount
          /\ new.token_account = old.token_account
          /\ Command(r) = "setup" => old.state = "Launched" /\ new.state = "Pending"
          /\ Command(r) = "storeResults" => new.state = old.state
          /\ Command(r) = "complete" => old.state = "Paid" /\ new.state = "Complete"
      <3>1. CASE Command(r) = "setup"
        BY <1>1, <1>2, <3>1 DEF LandedAs, SetupWrites, EscrowRecords
      <3>2. CASE Command(r) = "storeResults"
        BY <1>1, <1>2, <3>2 DEF LandedAs, StoreResultsWrites, EscrowRecords, Unsettled
      <3>3. CASE Command(r) = "complete"
        BY <1>1, <1>2, <3>3 DEF LandedAs, CompleteWrites, EscrowRecords
      <3> QED BY <1>11, <3>1, <3>2, <3>3
    <2>3. Pot(e)' = Pot(e)
      BY <1>5, <2>1, <2>2 DEF Pot, Known, Vault, EscrowInitialized, old
    <2>4. CASE Command(r) = "setup"
      <3>1. Settlement!Configure(e)
        BY <1>1, <1>5, <2>1, <2>2, <2>3, <2>4 DEF Settlement!Configure, StageOf, Unsettled, old
      <3> QED BY <1>1, <1>4, <3>1 DEF Settlement!Next
    <2>5. CASE Command(r) = "complete"
      <3>1. Settlement!Close(e)
        BY <1>1, <1>5, <2>1, <2>2, <2>3, <2>5 DEF Settlement!Close, StageOf, Unsettled, old
      <3> QED BY <1>1, <1>4, <3>1 DEF Settlement!Next
    <2>6. CASE Command(r) = "storeResults"
      <3>1. \A k \in Escrows : escrow'[k].state = escrow[k].state
                               /\ escrow'[k].sent_amount = escrow[k].sent_amount
                               /\ Pot(k)' >= Pot(k)
        <4>1. ASSUME NEW k \in Escrows, k # e
              PROVE  Untouched(k)
          BY <4>1, LandSparesOthers DEF e
        <4>2. Known(e)
          BY <2>2 DEF Known, EscrowInitialized, old
        <4>3. Pot(e) \in Int
          BY <1>7, <4>2 DEF e
        <4>4. ASSUME NEW k \in Escrows
              PROVE  escrow'[k].state = escrow[k].state
                               /\ escrow'[k].sent_amount = escrow[k].sent_amount
                               /\ Pot(k)' >= Pot(k)
          <5>1. CASE k = e
            BY <1>5, <2>2, <2>3, <2>6, <4>3, <5>1 DEF old
          <5>2. CASE k # e
            <6>1. Untouched(k)
              BY <4>1, <5>2
            <6> QED BY <6>1, UntouchedJob DEF Untouched
          <5> QED BY <5>1, <5>2
        <4> QED BY <4>4
      <3>2. Settlement!Deposit
        BY <2>1, <3>1 DEF Settlement!Deposit
      <3> QED BY <3>2 DEF Settlement!Next
    <2> QED BY <1>11, <2>4, <2>5, <2>6
  <1>12. CASE Command(r) = "bulkPayout"
    <2> DEFINE total == Total(BatchAmounts(r))
    <2>1. /\ old.state \in Unsettled /\ Fixed(old, new)
          /\ new.sent_amount = (old.sent_amount + total) % U64
          /\ new.sent_amount <= BatchTotal(r)
          /\ new.state \in {"Paid", "Partial"}
          /\ old.sent_recipients = 0 /\ total \in Nat
      BY <1>2, <1>12 DEF LandedAs
    <2>2. old.sent_amount = 0
      <3>1. \A q \in Requests : Command(q) = "bulkPayout" /\ ArgumentsAccepted(q)
                                     => ~ShowsBatch(q, old)
        BY <1>1, <1>2, <1>12, BatchIsFirst
      <3>2. LandedBatches(e) = {}
        <4>1. BatchInv(e)
          BY <1>1 DEF CInv
        <4>2. ASSUME NEW q \in LandedBatches(e)
              PROVE  q \in Requests /\ Command(q) = "bulkPayout" /\ ArgumentsAccepted(q)
          BY <4>2 DEF LandedBatches, Batches, Landed, CInv, RequestInv
        <4> QED BY <3>1, <4>1, <4>2 DEF BatchInv, old
      <3>3. BatchInv(e)
        BY <1>1 DEF CInv
      <3> QED BY <3>2, <3>3 DEF BatchInv, ShowsNoBatch, old
    <2>3. DebitedFor(r, Executed(r), total)
      BY <1>3, <1>12 DEF LandMoves
    <2>4. /\ Known(e) /\ balance'[v] \in balance[v] - total .. balance[v]
          /\ new.token_account = old.token_account /\ returned'[e] = returned[e]
      BY <1>5, <2>1, <2>3
         DEF DebitedFor, Vault, Known, EscrowInitialized, Unsettled, e, old, new
    <2>5. BatchTotal(r) <= balance[v] /\ BatchTotal(r) \in Nat
      <3>1. InFlight(r)
        BY DEF Land
      <3>2. BatchTotal(r) <= balance[v]
        BY <1>12, <2>1, <3>1 DEF VaultCovers, Looked, Vault, e, old
      <3>3. BatchTotal(r) \in Amounts
        BY <1>12, BatchTypes
      <3> QED BY <3>2, <3>3 DEF Amounts
    <2> HIDE DEF v, total
    <2>6. /\ balance'[v] \in Nat /\ balance[v] \in Nat
      BY <1>1, <1>5, <1>6, <1>7, <2>4, I64Assumption DEF Ledgers, Amounts, U64
    <2>7. new.sent_amount = total
      <3>1. total \in 0 .. U64 - 1 /\ U64 \in Nat /\ U64 > 0
        BY <1>12, <2>1, I64Assumption DEF U64, total
      <3>2. total % U64 = total
        BY <3>1, Z3
      <3> QED BY <2>1, <2>2, <3>2
    <2>8. Pot(e) = balance[v] /\ Pot(e)' = balance'[v]
      BY <1>5, <2>1, <2>4 DEF Pot, Known, Vault, EscrowInitialized, v, old
    <2>9. /\ new.sent_amount - old.sent_amount \in 0 .. Pot(e)
          /\ Pot(e) - Pot(e)' \in 0 .. new.sent_amount - old.sent_amount
      BY <2>1, <2>2, <2>4, <2>5, <2>6, <2>7, <2>8
    <2>10. StageOf(old.state) = "active" /\ StageOf(new.state) \in {"active", "settled"}
      BY <2>1 DEF StageOf, Unsettled
    <2>11. Settlement!Pay(e)
      BY <1>1, <1>5, <2>4, <2>9, <2>10 DEF Settlement!Pay, old
    <2> QED BY <1>1, <1>4, <2>11 DEF Settlement!Next
  <1>13. CASE Command(r) \in {"cancel", "abort"}
    <2>1. /\ old.state \notin {"Uninitialized", "Complete", "Paid"} /\ new = CancelWrites(old)
      BY <1>2, <1>13 DEF LandedAs
    <2>2. /\ balance[v] # 0
          /\ balance' = Transferred(balance, v, old.canceler_token_account, balance[v])
          /\ returned'[e] = returned[e] + balance[v]
      BY <1>3, <1>5, <1>13 DEF LandMoves, Vault, e, old
    <2>3. /\ Known(e) /\ new.state = "Cancelled" /\ new.sent_amount = old.sent_amount
          /\ new.token_account = old.token_account
      BY <1>1, <2>1 DEF CancelWrites, EscrowRecords, Known, EscrowInitialized, old
    <2>4. Pot(e) = balance[v] /\ Pot(e)' = balance'[v] /\ balance[v] \in Nat /\ v \in TokenAccounts
      BY <1>5, <1>7, <2>3 DEF Pot, Known, Vault, EscrowInitialized, e, old
    <2> HIDE DEF v
    <2>5. old.canceler_token_account \in TokenAccounts
      BY <1>1, <2>3 DEF AccountInv, Known, old
    <2>6. balance'[v] \in {0, balance[v]}
      BY <1>1, <2>2, <2>4, <2>5 DEF Transferred, Ledgers
    <2>7. StageOf(old.state) \in {"open", "active", "refunded"} /\ StageOf(new.state) = "refunded"
      BY <1>1, <2>1, <2>3 DEF StageOf, Unsettled, EscrowRecords, EscrowStates
    <2>8. Settlement!Refund(e)
      BY <1>1, <1>5, <2>2, <2>3, <2>4, <2>6, <2>7 DEF Settlement!Refund, old
    <2> QED BY <1>1, <1>4, <2>8 DEF Settlement!Next
  <1> QED BY <1>8, <1>10, <1>11, <1>12, <1>13 DEF Commands

(* Requests settle jobs (see ClientsSettleJobs), as long as the amounts of no batch *)
(* add up to 2^64 or more.  Nothing in the code prevents that for a batch that pays *)
(* its own vault, which can hold the tokens of one payout ready for the next; then   *)
(* the counter wraps and says less than what left the vault.                        *)
THEOREM ClientsSettle ==
  ASSUME \A r \in Requests : Command(r) = "bulkPayout" => Total(BatchAmounts(r)) < U64
  PROVE  CSpec => ClientsSettleJobs
  <1>1. CInit => Settlement!Init /\ LookInv
    <2> SUFFICES ASSUME CInit
                 PROVE  Settlement!Init /\ LookInv
      OBVIOUS
    <2>1. ASSUME NEW e \in Escrows
          PROVE  escrow[e].state = "Uninitialized" /\ escrow[e].sent_amount = 0
      BY DEF CInit, Init, BlankEscrow
    <2>2. ASSUME NEW e \in Escrows
          PROVE  StageOf(escrow[e].state) = "none" /\ Pot(e) = 0
      BY <2>1 DEF StageOf, Unsettled, Pot, Known, EscrowInitialized
    <2>3. returned = [e \in Escrows |-> 0]
      BY DEF CInit
    <2>4. ASSUME NEW r \in Requests
          PROVE  SnapshotWhole(r) /\ VaultCovers(r)
      <3>1. phase[r] = "new" /\ wire[r].status = "unsent" /\ snapshot[r] = NothingRead
        BY DEF CInit
      <3>2. NothingRead.reputation_oracle_token_account = NoAccount
        BY DEF NothingRead, Accounts, BlankEscrow
      <3> QED BY <3>1, <3>2 DEF SnapshotWhole, VaultCovers, Looked, InFlight
    <2> QED BY <2>1, <2>2, <2>3, <2>4 DEF Settlement!Init, LookInv
  <1>2. CInv /\ LookInv /\ [CNext]_cvars => [Settlement!Next]_(Settlement!settlement)
    <2> SUFFICES ASSUME CInv, LookInv, [CNext]_cvars
                 PROVE  Settlement!Next
      OBVIOUS
    <2>1. CASE UNCHANGED <<escrow, balance, returned>>
      BY <2>1, QuietIsDeposit DEF Settlement!Next
    <2>2. CASE World \/ NewFactory
      BY <2>2, WorldDeposits DEF Settlement!Next
    <2>3. CASE \E r \in Requests : Land(r)
      BY <2>3, LandSettles DEF LookInv
    <2> QED BY <2>1, <2>2, <2>3
            DEF CNext, cvars, vars, ReadEscrow, AbortLooksAtVault, PayoutLooksAtVault, Send,
                Answer, Fail, Drop
  <1>3. CInv /\ CInv' /\ LookInv /\ [CNext]_cvars => LookInv'
    BY LookStep
  <1> QED BY <1>1, <1>2, <1>3, ClientsInductive, PTL
          DEF CSpec, ClientsSettleJobs, Settlement!Spec
=============================================================================
