----------------------------- MODULE EscrowClients -----------------------------
(****************************************************************************)
(* The handlers of the REST API (human-api/src/job.rs) and the commands of the *)
(* command-line client (cli/src/main.rs), which drive the escrow program in the *)
(* same way: read accounts through RPC, build one transaction from what was     *)
(* read, send it and wait for it to be confirmed.  Each of these is a step of   *)
(* its own, so requests of several callers interleave, what a handler has read  *)
(* is stale when its transaction executes, and an RPC failure can hide that a   *)
(* transaction still lands.                                                     *)
(*                                                                            *)
(* The cluster is external.  A transaction in flight either lands, with all its *)
(* instructions accepted one after the other, or is dropped: refused as a whole, *)
(* or too old.  It never lands twice.                                           *)
(****************************************************************************)
EXTENDS EscrowProgram, SequencesExt

CONSTANTS
  Requests,    \* one element per HTTP request or command invocation
  Request,     \* what each of them asks for
  UiUnit,      \* the resolution of amounts in files: fractions of one base unit
  MaxActive    \* bound: requests and transactions under way at once

Commands == {"create", "setup", "storeResults", "bulkPayout", "cancel", "abort", "complete"}

\* A payouts file lists accounts and amounts, in fractions of a base unit; a Vec
\* never has more than isize::MAX elements.
PayoutFiles ==
  {file \in Seq([recipient: TokenAccounts, ui: Int]) : Len(file) < I64}

ASSUME ClientsAssumption ==
  /\ UiUnit \in Nat \ {0}
  /\ MaxActive \in Nat
  /\ \A r \in Requests :
       /\ Request[r].command \in Commands
       /\ Request[r].escrow \in Escrows
       /\ Request[r].signer \in Keys
       /\ Request[r].command = "create" => Request[r].call \in InitializeCall
       /\ Request[r].command = "setup" => Request[r].call \in SetupCall
       /\ Request[r].command = "storeResults" => Request[r].results \in Documents
       /\ Request[r].command = "bulkPayout" =>
            Request[r].payouts \in PayoutFiles /\ Request[r].rounding \in Int

VARIABLES
  phase,      \* how far each request has come
  snapshot,   \* the fields a handler keeps of the escrow account it has read
  wire,       \* each request's transaction on its way to the cluster
  returned    \* history: tokens each escrow has sent back

cvars == <<vars, phase, snapshot, wire, returned>>

Command(r) == Request[r].command
Escrow(r) == Request[r].escrow
Signer(r) == [key |-> Request[r].signer, is_signer |-> TRUE]

Working == {"read", "ready", "sent"}
Answered == {"ok", "error"}
InFlight(r) == wire[r].status = "in flight"
Landed(r) == wire[r].status = "landed"

\* as if the canceler were taken for the account refunds go to
BugRefundToCanceler(esc) ==
  [token_account |-> esc.token_account,
   canceler_token_account |-> esc.canceler,
   reputation_oracle_token_account |-> esc.reputation_oracle_token_account,
   recording_oracle_token_account |-> esc.recording_oracle_token_account]

Accounts(esc) ==
  [token_account |-> esc.token_account,
   canceler_token_account |-> esc.canceler_token_account,
   reputation_oracle_token_account |-> esc.reputation_oracle_token_account,
   recording_oracle_token_account |-> esc.recording_oracle_token_account]

NothingRead == Accounts(BlankEscrow)

CInit ==
  /\ Init
  /\ phase = [r \in Requests |-> "new"]
  /\ snapshot = [r \in Requests |-> NothingRead]
  /\ wire = [r \in Requests |-> [status |-> "unsent", instructions |-> <<>>]]
  /\ returned = [e \in Escrows |-> 0]

-----------------------------------------------------------------------------
\* spl_token::ui_amount_to_amount casts an f64 to u64, which truncates and saturates.
BaseUnits(ui) ==
  CASE ui < 0 -> 0
    [] ui >= 0 /\ ui \div UiUnit < U64 -> ui \div UiUnit
    [] OTHER -> U64 - 1

Total(seq) == FoldLeft(LAMBDA sum, n : sum + n, 0, seq)

\* What the batch of r sends, payout by payout, in base units
BatchAmounts(r) ==
  [i \in DOMAIN Request[r].payouts |-> BaseUnits(Request[r].payouts[i].ui)]

\* The sum is taken in f64, which may round it, before it is converted.
BatchTotal(r) ==
  BaseUnits(Total([i \in DOMAIN Request[r].payouts |-> Request[r].payouts[i].ui])
              + Request[r].rounding)

PayoutInstruction(r, s, i) ==
  [kind |-> "Payout",
   call |-> [token_account |-> s.token_account,
             authority |-> Authority[Escrow(r)],
             recipient_token_account |-> Request[r].payouts[i].recipient,
             reputation_oracle_token_account |-> s.reputation_oracle_token_account,
             recording_oracle_token_account |-> s.recording_oracle_token_account,
             amount |-> BatchAmounts(r)[i]]]

\* bulk_payout and command_payout: the totals and then every payout
BatchInstructions(r, s) ==
  <<[kind |-> "StoreFinalAmounts",
     call |-> [total_amount |-> BatchTotal(r),
               total_recipients |-> Len(Request[r].payouts)]]>>
  \o [i \in DOMAIN Request[r].payouts |-> PayoutInstruction(r, s, i)]

\* abort_job, cancel_job and command_cancel send the same transaction.
CancelInstructions(r, s) ==
  <<[kind |-> "Cancel",
     call |-> [token_account |-> s.token_account,
               authority |-> Authority[Escrow(r)],
               canceler_token_account |-> s.canceler_token_account]]>>

\* command_create and command_setup make missing token accounts in the same
\* transaction; here all of them exist beforehand.
CreateInstructions(r) == <<[kind |-> "Initialize", call |-> Request[r].call]>>
SetupInstructions(r) == <<[kind |-> "Setup", call |-> Request[r].call]>>
ResultsInstructions(r) == <<[kind |-> "StoreResults", call |-> Request[r].results]>>
CompleteInstructions(r) == <<[kind |-> "Complete"]>>

Instructions(r, s) ==
  CASE Command(r) = "create" -> CreateInstructions(r)
    [] Command(r) = "setup" -> SetupInstructions(r)
    [] Command(r) = "storeResults" -> ResultsInstructions(r)
    [] Command(r) = "bulkPayout" -> BatchInstructions(r, s)
    [] Command(r) \in {"cancel", "abort"} -> CancelInstructions(r, s)
    [] Command(r) = "complete" -> CompleteInstructions(r)

-----------------------------------------------------------------------------
(* Executing a transaction: at is the escrow and the ledger between two of its *)
(* instructions, and whether all of them were accepted so far.                 *)
Accepted(r, at, i) ==
  CASE i.kind = "Initialize" ->
         InitializeAccepts(Escrow(r), at.escrow, version[i.call.factory], i.call)
    [] i.kind = "Setup" -> SetupAccepts(at.escrow, clock, Signer(r), i.call)
    [] i.kind = "StoreResults" -> StoreResultsAccepts(at.escrow, clock, Signer(r))
    [] i.kind = "StoreFinalAmounts" -> StoreAmountsAccepts(at.escrow, clock, Signer(r))
    [] i.kind = "Payout" ->
         PayoutAccepts(Escrow(r), at.escrow, at.ledger, clock, Signer(r), i.call)
    [] i.kind = "Cancel" -> CancelAccepts(Escrow(r), at.escrow, at.ledger, Signer(r), i.call)
    [] i.kind = "Complete" -> CompleteAccepts(at.escrow, clock, Signer(r))

Written(at, i) ==
  CASE i.kind = "Initialize" -> InitializeWrites(clock, i.call)
    [] i.kind = "Setup" -> SetupWrites(at.escrow, i.call)
    [] i.kind = "StoreResults" -> StoreResultsWrites(at.escrow, i.call)
    [] i.kind = "StoreFinalAmounts" -> StoreAmountsWrites(at.escrow, i.call)
    [] i.kind = "Payout" -> PayoutWrites(at.escrow, i.call.amount)
    [] i.kind = "Cancel" -> CancelWrites(at.escrow)
    [] i.kind = "Complete" -> CompleteWrites(at.escrow)

Moved(at, i) ==
  CASE i.kind = "Payout" -> PayoutLedger(at.escrow, at.ledger, i.call)
    [] i.kind = "Cancel" -> CancelLedger(at.ledger, i.call)
    [] OTHER -> at.ledger

\* For the history only: what Cancel sends back
Refunded(at, i) == IF i.kind = "Cancel" THEN at.ledger[i.call.token_account] ELSE 0

Processed(r, at, i) ==
  IF at.accepted /\ Accepted(r, at, i)
  THEN [accepted |-> TRUE, escrow |-> Written(at, i), ledger |-> Moved(at, i),
        returned |-> at.returned + Refunded(at, i)]
  ELSE [at EXCEPT !.accepted = FALSE]

Untried(r) ==
  [accepted |-> TRUE, escrow |-> escrow[Escrow(r)], ledger |-> balance,
   returned |-> returned[Escrow(r)]]

Executed(r) == FoldLeft(LAMBDA at, i : Processed(r, at, i), Untried(r), wire[r].instructions)

-----------------------------------------------------------------------------
(* The steps of a request.                                                     *)

UnderWay == {r \in Requests : phase[r] \in Working \/ InFlight(r)}

\* The checks a client makes of its own arguments: the stakes on the command
\* line, and that the payouts file names somebody.
ArgumentsAccepted(r) ==
  /\ Command(r) = "setup" =>
       Request[r].call.reputation_oracle_stake + Request[r].call.recording_oracle_stake <= 100
  /\ Command(r) = "bulkPayout" => Request[r].payouts # <<>>

\* The answer is given and the handler's locals are gone.
Finish(r, answer) ==
  /\ phase' = [phase EXCEPT ![r] = answer]
  /\ snapshot' = [snapshot EXCEPT ![r] = NothingRead]

\* The request arrives, is checked, and the escrow account is read where the
\* handler needs it; whether the account is initialised is never looked at.
ReadEscrow(r) ==
  /\ phase[r] = "new"
  /\ Cardinality(UnderWay) < MaxActive
  /\ IF ArgumentsAccepted(r)
     THEN /\ phase' = [phase EXCEPT ![r] =
                         IF Command(r) \in {"bulkPayout", "abort"} THEN "read" ELSE "ready"]
          /\ snapshot' = [snapshot EXCEPT ![r] =
                            IF Command(r) \in {"create", "complete"} THEN @
                            ELSE Accounts(escrow[Escrow(r)])]
     ELSE Finish(r, "error")
  /\ UNCHANGED <<vars, wire, returned>>

\* abort_job: an empty vault is success, and no transaction is sent.
AbortLooksAtVault(r) ==
  /\ phase[r] = "read"
  /\ Command(r) = "abort"
  /\ CASE snapshot[r].token_account = NoAccount -> Finish(r, "error")
       [] snapshot[r].token_account # NoAccount /\ balance[snapshot[r].token_account] = 0 ->
            Finish(r, "ok")
       [] OTHER -> /\ phase' = [phase EXCEPT ![r] = "ready"]
                   /\ UNCHANGED snapshot
  /\ UNCHANGED <<vars, wire, returned>>

\* bulk_payout: there must be fee accounts, and a vault that covers the total.
PayoutLooksAtVault(r) ==
  /\ phase[r] = "read"
  /\ Command(r) = "bulkPayout"
  /\ IF /\ snapshot[r].reputation_oracle_token_account # NoAccount
        /\ snapshot[r].recording_oracle_token_account # NoAccount
        /\ BatchTotal(r) <= balance[snapshot[r].token_account]
     THEN /\ phase' = [phase EXCEPT ![r] = "ready"]
          /\ UNCHANGED snapshot
     ELSE Finish(r, "error")
  /\ UNCHANGED <<vars, wire, returned>>

\* The transaction is built from the snapshot, signed and sent.
Send(r) ==
  /\ phase[r] = "ready"
  /\ wire' = [wire EXCEPT ![r] = [status |-> "in flight",
                                  instructions |-> Instructions(r, snapshot[r])]]
  /\ phase' = [phase EXCEPT ![r] = "sent"]
  /\ snapshot' = [snapshot EXCEPT ![r] = NothingRead]
  /\ UNCHANGED <<vars, returned>>

\* as if a transaction whose blockhash expired were taken for confirmed, or
\* waited for without end
BugAnswersOk(r) ==
  /\ phase[r] = "sent"
  /\ wire[r].status \in {"landed", "dropped"}
  /\ Finish(r, "ok")
  /\ UNCHANGED <<vars, wire, returned>>
BugWaitsForever(r) ==
  /\ phase[r] = "sent"
  /\ Landed(r)
  /\ Finish(r, "ok")
  /\ UNCHANGED <<vars, wire, returned>>

\* send_and_confirm_transaction returns.
Answer(r) ==
  /\ phase[r] = "sent"
  /\ \/ Landed(r) /\ Finish(r, "ok")
     \/ wire[r].status = "dropped" /\ Finish(r, "error")
  /\ UNCHANGED <<vars, wire, returned>>

\* Any call to the node may fail or time out, also the wait for a confirmation
\* of a transaction that is on its way.
Fail(r) ==
  /\ phase[r] \in Working
  /\ Finish(r, "error")
  /\ UNCHANGED <<vars, wire, returned>>

\* The cluster executes the transaction, all of it at once.
Land(r) ==
  /\ InFlight(r)
  /\ Executed(r).accepted
  /\ escrow' = [escrow EXCEPT ![Escrow(r)] = Executed(r).escrow]
  /\ balance' = Executed(r).ledger
  /\ returned' = [returned EXCEPT ![Escrow(r)] = Executed(r).returned]
  /\ wire' = [wire EXCEPT ![r] = [status |-> "landed", instructions |-> <<>>]]
  /\ UNCHANGED <<clock, version, transfers, phase, snapshot>>

\* It is refused, or its blockhash grows too old.
Drop(r) ==
  /\ InFlight(r)
  /\ wire' = [wire EXCEPT ![r] = [status |-> "dropped", instructions |-> <<>>]]
  /\ UNCHANGED <<vars, phase, snapshot, returned>>

\* Time passes, wallets fund the vault.
World ==
  /\ Tick \/ \E t \in WalletTransfers : WalletTransfer(t)
  /\ UNCHANGED <<phase, snapshot, wire, returned>>

\* new_factory and command_create_factory read nothing that may change; their
\* request is one step.
NewFactory ==
  /\ \E f \in Factories, v \in FactoryVersions : FactoryInitialize(f, v)
  /\ UNCHANGED <<phase, snapshot, wire, returned>>

CNext ==
  \/ World
  \/ NewFactory
  \/ \E r \in Requests : ReadEscrow(r)
  \/ \E r \in Requests : AbortLooksAtVault(r)
  \/ \E r \in Requests : PayoutLooksAtVault(r)
  \/ \E r \in Requests : Send(r)
  \/ \E r \in Requests : Answer(r)
  \/ \E r \in Requests : Fail(r)
  \/ \E r \in Requests : Land(r)
  \/ \E r \in Requests : Drop(r)

\* A handler runs on once it has started, every call to the node returns, and
\* no transaction stays in flight longer than its blockhash is valid.
Fairness ==
  \A r \in Requests :
    /\ WF_cvars(AbortLooksAtVault(r) \/ PayoutLooksAtVault(r) \/ Send(r) \/ Answer(r))
    /\ WF_cvars(Drop(r) \/ Land(r))

CSpec == CInit /\ [][CNext]_cvars /\ Fairness

-----------------------------------------------------------------------------
Batches(e) == {r \in Requests : Command(r) = "bulkPayout" /\ Escrow(r) = e}
LandedBatches(e) == {r \in Batches(e) : Landed(r)}

CTypeOK ==
  /\ TypeOK
  /\ phase \in [Requests -> {"new"} \cup Working \cup Answered]
  /\ snapshot \in [Requests ->
       [DOMAIN NothingRead -> TokenAccounts \cup {NoAccount}]]
  /\ \A r \in Requests :
       wire[r].status \in {"unsent", "in flight", "landed", "dropped"}
  /\ returned \in [Escrows -> Nat]

(* However often a bulk payout is retried after an error, and whatever other    *)
(* batches are submitted beside it, at most one of them is ever executed for an *)
(* escrow: the totals of a second one can not cover the recipients the first    *)
(* one has counted (bulk_payout, process_store_amounts, process_payout).        *)
BatchesPayOnce == \A e \in Escrows : Cardinality(LandedBatches(e)) <= 1

(* The escrow's counters are those of the one batch that landed, or zero: a     *)
(* batch pays everybody or nobody, also when another handler cancels, funds or  *)
(* pays between the reading of the vault and the execution.  The counter is a   *)
(* u64, and a batch that pays into its own vault can pay more than a word.      *)
BatchesPayEverybody ==
  \A e \in Escrows :
    IF LandedBatches(e) = {}
    THEN escrow[e].sent_amount = 0 /\ escrow[e].sent_recipients = 0
    ELSE \E r \in LandedBatches(e) :
           /\ escrow[e].sent_amount = Total(BatchAmounts(r)) % U64
           /\ escrow[e].sent_recipients = Len(Request[r].payouts)

(* A batch that landed settles the escrow exactly if converting the sum of the  *)
(* amounts gives the sum of the converted amounts; when the roundings differ    *)
(* everybody is paid and the escrow stays Partial until it is cancelled, because *)
(* no later batch can land.                                                     *)
BatchOutcome ==
  \A e \in Escrows : \A r \in LandedBatches(e) :
    IF BatchTotal(r) = Total(BatchAmounts(r)) % U64
    THEN escrow[e].state \in Settled
    ELSE escrow[e].state \in {"Partial", "Cancelled"}

(* Whatever happens between the reading of an escrow account and the execution  *)
(* of the transaction built from it, the accounts read are still the escrow's,  *)
(* except that one read before the escrow was configured has fields missing: a  *)
(* stale read can not direct a payout, a fee or a refund to another account.    *)
SnapshotsStayValid ==
  \A r \in Requests : \A field \in DOMAIN snapshot[r] :
    snapshot[r][field] \in {NoAccount, escrow[Escrow(r)][field]}

(* An answer of success is true, and stays true: what the request asked for has *)
(* been done to the escrow and nothing later undoes it; results were stored in an *)
(* escrow that was set up, of which the handler itself looks at nothing.  The     *)
(* exception is abort, which also reports success when it found the vault empty   *)
(* and sent nothing.                                                             *)
OkMeansDone ==
  \A r \in Requests : phase[r] = "ok" =>
    LET esc == escrow[Escrow(r)] IN
    CASE Command(r) = "create" -> EscrowInitialized(esc)
      [] Command(r) = "setup" ->
           \A field \in DOMAIN Request[r].call : esc[field] = Request[r].call[field]
      [] Command(r) = "storeResults" ->
           esc.final_results \in Documents /\ esc.state \notin {"Uninitialized", "Launched"}
      [] Command(r) = "bulkPayout" -> r \in LandedBatches(Escrow(r))
      [] Command(r) = "cancel" -> esc.state = "Cancelled"
      [] Command(r) = "abort" -> esc.state = "Cancelled" \/ wire[r].status = "unsent"
      [] Command(r) = "complete" -> esc.state = "Complete"

(* Seen from outside, requests settle jobs: whatever is under way at once, each  *)
(* transaction is one step of JobSettlement, a whole batch with its totals, fees *)
(* and recipients being one payment out of the pot, and everything else a request *)
(* does, a refused or lost transaction included, changes no job.                 *)
Settlement ==
  INSTANCE JobSettlement WITH
    Jobs <- Escrows,
    stage <- [e \in Escrows |-> StageOf(escrow[e].state)],
    pot <- [e \in Escrows |-> Pot(e)],
    spent <- [e \in Escrows |-> escrow[e].sent_amount],
    back <- returned

ClientsSettleJobs == Settlement!Spec

(* Every request that was taken up is answered, also when its transaction is    *)
(* dropped by the cluster and nothing ever comes back for it.                   *)
RequestsAnswered ==
  \A r \in Requests : phase[r] \in Working ~> phase[r] \in Answered

(* instruction.rs on Complete: "When payouts are complete it is possible to mark *)
(* this escrow complete".  The payouts are complete once a batch has landed, but *)
(* its stored total can exceed the sum of its payouts by the rounding.           *)
PayoutsCompleteCanComplete ==
  \A e \in Escrows :
    LandedBatches(e) # {} /\ escrow[e].state # "Cancelled" => escrow[e].state \in Settled
=============================================================================
