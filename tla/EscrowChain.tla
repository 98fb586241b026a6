------------------------------ MODULE EscrowChain ------------------------------
(****************************************************************************)
(* The program on the accounts of the cluster: transactions of several           *)
(* instructions, built by the API and the command line, create accounts and run   *)
(* the system program, the token program and the escrow program on their bytes.   *)
(*                                                                            *)
(* A world is [account, lamports]: what every address holds, and the balance of   *)
(* the fee payer of all requests.  What executes an instruction returns the set   *)
(* of worlds it can lead to: one, or none when it is refused.                    *)
(****************************************************************************)
EXTENDS ClientTransactions

CONSTANTS
  Lamports,        \* what the fee payer may have at the start
  Minted,          \* [TokenAccounts -> Amounts]: token accounts there at the start,
                   \* and what only looks like one, which no transaction here makes
  NativeMints,     \* mints there at the start
  Utf8Hash,        \* documents whose hash happens to be UTF-8
  FactoryRequests, JobRequests, CreateRequests, SetupRequests,
  Calls,           \* instructions sent alone: [kind, names]
  Funding,         \* transfers wallets make: [from, to, amount]
  MaxFunding,      \* bound: how many of them happen
  MaxClock         \* bound: the last timestamp

-----------------------------------------------------------------------------
(* What is known of the requests: addresses are of the kind their role asks for,  *)
(* MintOf and OwnerOf name the mint and the owner a token account is created with, *)
(* and no wallet has an authority's key.                                          *)
RolesOf ==
  [factory |-> Factories, escrow |-> Escrows, trusted_handler |-> Keys,
   token_account |-> TokenAccounts, canceler_token_account |-> TokenAccounts,
   recipient_token_account |-> TokenAccounts,
   reputation_oracle_token_account |-> TokenAccounts,
   recording_oracle_token_account |-> TokenAccounts]

\* What the builder of an instruction asks its caller for
NeededBy(kind) ==
  ({BuiltAccounts[kind][a].role : a \in DOMAIN BuiltAccounts[kind]}
     \cup Range(PackArguments[kind])) \ {"clock", "token_program"}

FitsBuilder(kind, names) ==
  /\ kind \in Kinds
  /\ NeededBy(kind) \subseteq DOMAIN names
  /\ \A n \in NeededBy(kind) \cap DOMAIN RolesOf : names[n] \in RolesOf[n]

CallsOf(kind) == {c.names : c \in {x \in Calls : x.kind = kind}}
InitializeNames == {CreateNames(r) : r \in CreateRequests} \cup CallsOf("Initialize")

Foretold(a, mint, owner) == a \in TokenAccounts /\ MintOf[a] = mint /\ OwnerOf[a] = owner

ASSUME RequestsAssumption ==
  /\ NativeMints \subseteq Mints /\ DOMAIN Minted \subseteq TokenAccounts
  /\ NoMint \notin Escrows \cup Factories \cup TokenAccounts
  /\ \A r \in FactoryRequests : r.factory \in Factories
  /\ \A r \in CreateRequests :
       /\ FitsBuilder("Initialize", CreateNames(r))
       /\ Foretold(r.token_account, r.token_mint, Authority[r.escrow])
       /\ r.canceler_token = NoAccount =>
            Foretold(r.canceler_token_account, r.token_mint, r.canceler)
  /\ \A r \in SetupRequests :
       /\ FitsBuilder("Setup", SetupNames(r))
       /\ \A n \in InitializeNames : n.escrow = r.escrow =>
            /\ r.reputation_oracle_token = NoAccount =>
                 Foretold(r.reputation_oracle_token_account, n.token_mint, r.reputation_oracle)
            /\ r.recording_oracle_token = NoAccount =>
                 Foretold(r.recording_oracle_token_account, n.token_mint, r.recording_oracle)
  /\ \A c \in Calls : FitsBuilder(c.kind, c.names)
  /\ \A t \in Funding :
       /\ {t.from, t.to} \subseteq TokenAccounts
       /\ \A e \in Escrows : OwnerOf[t.from] # Authority[e]

\* Rents and balances are u64; a token account there at the start has a mint there.
ASSUME StartAssumption ==
  /\ Lamports \subseteq Nat
  /\ \A kind \in {"Escrow", "Factory", "TokenAccount", "Mint"} : Rent[kind] \in Nat
  /\ \A a \in DOMAIN Minted : a \notin NativeMints /\ MintOf[a] \in NativeMints
  /\ TokenAccounts \ SplAccounts \subseteq DOMAIN Minted
  /\ (Factories \ OwnFactories) \cap (DOMAIN Minted \cup NativeMints) = {}

\* Keypair::new makes a new address for every account of a transaction.
ASSUME NewKeysAssumption ==
  /\ \A r \in CreateRequests :
       /\ r.token_account # r.escrow
       /\ r.canceler_token = NoAccount =>
            r.canceler_token_account \notin {r.token_account, r.escrow}
  /\ \A r \in SetupRequests :
       {r.reputation_oracle_token, r.recording_oracle_token} = {NoAccount} =>
         r.reputation_oracle_token_account # r.recording_oracle_token_account

VARIABLES
  clock,
  account,     \* [Addresses -> contents]
  lamports,
  transfers,
  view         \* the accounts unpacked, as every client sees them
vars == <<clock, account, lamports, transfers, view>>

Addresses == Escrows \cup Factories \cup TokenAccounts \cup Mints
World == [account |-> account, lamports |-> lamports]

None == [kind |-> "none"]
\* What create_account leaves at an address: zeros, as many as the kind needs
Blanks ==
  [Escrow |-> [kind |-> "Escrow", data |-> BlankData],
   Factory |-> [kind |-> "Factory", version |-> 0],
   TokenAccount |-> [kind |-> "TokenAccount", mint |-> NoMint, owner |-> NoKey, amount |-> 0],
   Mint |-> [kind |-> "Mint", initialized |-> FALSE]]

InitialAccount ==
  [a \in Addresses |->
     IF a \in DOMAIN Minted
     THEN [kind |-> "TokenAccount", mint |-> MintOf[a], owner |-> OwnerOf[a],
           amount |-> Minted[a]]
     ELSE IF a \in NativeMints THEN [kind |-> "Mint", initialized |-> TRUE]
     ELSE IF a \in Factories \ OwnFactories
     THEN [kind |-> "Factory", version |-> ForeignVersion[a]]
     ELSE None]

-----------------------------------------------------------------------------
\* What an instruction finds in a world.  The kind of an account is its size, which
\* is all that unpack looks at, and not its owner.
Has(w, a, kind) == a \in Addresses /\ w.account[a].kind = kind
MintIn(w) ==
  [a \in Addresses |-> IF Has(w, a, "TokenAccount") THEN w.account[a].mint ELSE NoMint]
OwnerIn(w) ==
  [a \in Addresses |-> IF Has(w, a, "TokenAccount") THEN w.account[a].owner ELSE NoKey]
LedgerIn(w) ==
  [a \in Addresses |-> IF Has(w, a, "TokenAccount") THEN w.account[a].amount ELSE 0]
EscrowIn(w, e) == IF Has(w, e, "Escrow") THEN Unpack(w.account[e].data) ELSE {}

ViewOf(w) ==
  [version |-> [f \in Factories |->
                  IF Has(w, f, "Factory") THEN w.account[f].version ELSE 0],
   escrow |-> [e \in Escrows |->
                 IF EscrowIn(w, e) = {} THEN BlankEscrow
                 ELSE (CHOOSE got \in EscrowIn(w, e) : TRUE).escrow],
   balance |-> [a \in TokenAccounts |-> LedgerIn(w)[a]]]

Init ==
  /\ clock = 0
  /\ account = InitialAccount
  /\ lamports \in Lamports
  /\ transfers = 0
  /\ view = ViewOf([account |-> InitialAccount, lamports |-> lamports])

\* The handlers, on the token accounts as they are in the middle of a transaction
Program(mints, owners) ==
  INSTANCE EscrowInstructions WITH MintOf <- mints, OwnerOf <- owners

When(accepted, w) == IF accepted THEN {w} ELSE {}
Stored(w, e, esc, bump_seed) ==
  [w EXCEPT !.account[e].data = Pack(esc, bump_seed, @)]
Paid(w, ledger) ==
  [w EXCEPT !.account =
     [a \in Addresses |->
        IF Has(w, a, "TokenAccount") THEN [w.account[a] EXCEPT !.amount = ledger[a]]
        ELSE w.account[a]]]

-----------------------------------------------------------------------------
\* system_program and spl_token, as far as the clients use them
CreateAccount(w, signers, i) ==
  When(/\ w.account[i.new] = None
       /\ i.new \in signers
       /\ w.lamports >= Rent[i.kind],
       [w EXCEPT !.account[i.new] = Blanks[i.kind], !.lamports = @ - Rent[i.kind]])

InitializeMint(w, i) ==
  When(w.account[i.mint] = Blanks.Mint, [w EXCEPT !.account[i.mint].initialized = TRUE])

\* The mint's account is unpacked: another size than a mint's is InvalidMint.
InitializeAccount(w, i) ==
  When(/\ w.account[i.account] = Blanks.TokenAccount
       /\ Has(w, i.mint, "Mint")
       /\ w.account[i.mint].initialized,
       [w EXCEPT !.account[i.account].mint = i.mint, !.account[i.account].owner = i.owner])

-----------------------------------------------------------------------------
\* Processor::process, one operator per function it calls
ProcessFactoryInitialize(w, call) ==
  When(/\ Has(w, call.factory, "Factory")
       /\ FactoryInitializeAccepts(w.account[call.factory].version)
       /\ OwnerAllows(call.factory, w.account[call.factory].version, call.version),
       [w EXCEPT !.account[call.factory].version = call.version])

ProcessInitialize(w, now, got, call) ==
  When(/\ Has(w, call.factory, "Factory")
       /\ Has(w, call.token_account, "TokenAccount")
       /\ Has(w, call.canceler_token_account, "TokenAccount")
       /\ Program(MintIn(w), OwnerIn(w))!InitializeAccepts(
            call.escrow, got.escrow, w.account[call.factory].version, call),
       Stored(w, call.escrow, InitializeWrites(now, call), BumpSeed[call.escrow]))

ProcessSetup(w, now, got, handler, call) ==
  When(/\ Has(w, call.reputation_oracle_token_account, "TokenAccount")
       /\ Has(w, call.recording_oracle_token_account, "TokenAccount")
       /\ Program(MintIn(w), OwnerIn(w))!SetupAccepts(got.escrow, now, handler, call),
       Stored(w, call.escrow, SetupWrites(got.escrow, call), got.bump_seed))

ProcessStoreResults(w, now, got, handler, call) ==
  When(StoreResultsAccepts(got.escrow, now, handler),
       Stored(w, call.escrow, StoreResultsWrites(got.escrow, call.final_results),
              got.bump_seed))

ProcessStoreAmounts(w, now, got, handler, call) ==
  When(StoreAmountsAccepts(got.escrow, now, handler),
       Stored(w, call.escrow, StoreAmountsWrites(got.escrow, call), got.bump_seed))

\* authority_id computes the authority from the stored seed: with another seed
\* it is another address, or none.
SeedGivesAuthority(e, got) == got.bump_seed = BumpSeed[e]

\* spl_token::instruction::transfer builds its instruction for the token program
\* only, or the runtime would be asked to run another; with nothing to transfer it
\* is not called.
TransferBuilt(token_program) == token_program = "spl_token"

ProcessPayout(w, now, got, handler, call) ==
  When(/\ SeedGivesAuthority(call.escrow, got)
       /\ Has(w, call.token_account, "TokenAccount")
       /\ call.amount # 0 => TransferBuilt(call.token_program)
       /\ Program(MintIn(w), OwnerIn(w))!PayoutAccepts(
            call.escrow, got.escrow, LedgerIn(w), now, handler, call),
       Paid(Stored(w, call.escrow, PayoutWrites(got.escrow, call.amount), got.bump_seed),
            PayoutLedger(got.escrow, LedgerIn(w), call)))

ProcessCancel(w, got, handler, call) ==
  When(/\ SeedGivesAuthority(call.escrow, got)
       /\ Has(w, call.token_account, "TokenAccount")
       /\ TransferBuilt(call.token_program)
       /\ Program(MintIn(w), OwnerIn(w))!CancelAccepts(
            call.escrow, got.escrow, LedgerIn(w), handler, call),
       Paid(Stored(w, call.escrow, CancelWrites(got.escrow), got.bump_seed),
            CancelLedger(LedgerIn(w), call)))

ProcessComplete(w, now, got, handler, call) ==
  When(CompleteAccepts(got.escrow, now, handler),
       Stored(w, call.escrow, CompleteWrites(got.escrow), got.bump_seed))

Dispatched(w, now, kind, handler, call) ==
  IF kind = "FactoryInitialize" THEN ProcessFactoryInitialize(w, call)
  ELSE UNION {CASE kind = "Initialize" -> ProcessInitialize(w, now, got, call)
                [] kind = "Setup" -> ProcessSetup(w, now, got, handler, call)
                [] kind = "StoreResults" -> ProcessStoreResults(w, now, got, handler, call)
                [] kind = "StoreFinalAmounts" ->
                     ProcessStoreAmounts(w, now, got, handler, call)
                [] kind = "Payout" -> ProcessPayout(w, now, got, handler, call)
                [] kind = "Cancel" -> ProcessCancel(w, got, handler, call)
                [] kind = "Complete" -> ProcessComplete(w, now, got, handler, call) :
              got \in EscrowIn(w, call.escrow)}

\* The keys of the accounts with the arguments: what EscrowInstructions calls a
\* call.  A url and its hash arrive as one document.
CallOf(metas, arguments) ==
  LET Document(n) == IF n \in DOMAIN arguments THEN arguments[n] ELSE NoDocument
      documents == [manifest |-> Document("manifest_url"),
                    final_results |-> Document("final_results_url")]
  IN  Joined([role \in DOMAIN metas |-> metas[role].key], Joined(arguments, documents))

\* What the program makes of an instruction, before it looks at any account
Understood(i) ==
  UNION {{[kind |-> d.kind, metas |-> metas, call |-> CallOf(metas, d.arguments)] :
            metas \in Taken(d.kind, i.accounts)} :
         d \in UnpackData(i.data)}

HandlerOf(metas) ==
  IF "trusted_handler" \in DOMAIN metas
  THEN [key |-> metas["trusted_handler"].key, is_signer |-> metas["trusted_handler"].is_signer]
  ELSE [key |-> NoKey, is_signer |-> FALSE]

\* Clock::from_account_info accepts the sysvar only, and the runtime lets an
\* instruction change only what its list calls writable.
Process(w, now, i) ==
  UNION {{v \in Dispatched(w, now, u.kind, HandlerOf(u.metas), u.call) :
            \A a \in Addresses : v.account[a] # w.account[a] =>
              \E m \in Range(i.accounts) : m.key = a /\ m.is_writable} :
         u \in {x \in Understood(i) :
                  "clock" \in DOMAIN x.metas => x.metas["clock"].key = "clock"}}

-----------------------------------------------------------------------------
\* A transaction: [instructions, signers, budget], the budget being what the
\* client compares with the fee payer's balance.
Execute(w, now, signers, i) ==
  CASE i.program = "create_account" -> CreateAccount(w, signers, i)
    [] i.program = "initialize_mint" -> InitializeMint(w, i)
    [] i.program = "initialize_account" -> InitializeAccount(w, i)
    [] i.program = "escrow" ->
         IF \E m \in Range(i.accounts) : m.is_signer /\ m.key \notin signers THEN {}
         ELSE Process(w, now, i)

\* All instructions in order, or nothing
Executed(w, now, tx) ==
  FoldLeft(LAMBDA worlds, i : UNION {Execute(v, now, tx.signers, i) : v \in worlds},
           {w}, tx.instructions)

-----------------------------------------------------------------------------
Become(w) ==
  /\ account' = w.account
  /\ lamports' = w.lamports
  /\ view' = ViewOf(w)

Tick ==
  /\ clock < MaxClock
  /\ clock' = clock + 1
  /\ UNCHANGED <<account, lamports, transfers, view>>

\* A wallet sends tokens it owns: funding a vault.
Fund(t) ==
  /\ transfers < MaxFunding
  /\ Program(MintIn(World), OwnerIn(World))!CanTransfer(
       LedgerIn(World), t.from, t.to, OwnerOf[t.from], t.amount)
  /\ Become(Paid(World, Transferred(LedgerIn(World), t.from, t.to, t.amount)))
  /\ transfers' = transfers + 1
  /\ UNCHANGED clock

\* check_fee_payer_balance, then the transaction is sent and executed.
Submit(tx) ==
  /\ lamports >= tx.budget
  /\ \E w \in Executed(World, clock, tx) : Become(w)
  /\ UNCHANGED <<clock, transfers>>

SubmitNewFactory(r) == Submit(NewFactory(r))
SubmitCreate(r) == Submit(CommandCreate(r))

\* The mint that command_setup reads: the escrow's, or none if it read too early.
SeenMints(e) == {NoMint, view.escrow[e].token_mint}

StakesValid(r) == r.reputation_oracle_stake + r.recording_oracle_stake <= 100

SubmitSetup(r) ==
  /\ Has(World, r.escrow, "Escrow")
  /\ StakesValid(r)
  /\ \E mint \in SeenMints(r.escrow) : Submit(CommandSetup(r, mint))

\* Somebody's own client creates the account first and initialises it later.
CreateBare(e) == Submit(Transaction(<<NewAccount(e, "Escrow")>>, {e}, Rent.Escrow))

\* One instruction, built by the program's own builder and signed by its handler
Single(c) ==
  Transaction(<<Escrow(c.kind, c.names)>>,
              IF "trusted_handler" \in DOMAIN c.names THEN {c.names.trusted_handler} ELSE {},
              0)
SubmitCall(c) == Submit(Single(c))

\* A transaction that is refused changes nothing; new_job's always is (see
\* NewJobLaunches), so that it is no step of its own.
Next ==
  \/ Tick
  \/ \E t \in Funding : Fund(t)
  \/ \E r \in FactoryRequests : SubmitNewFactory(r)
  \/ \E r \in CreateRequests : SubmitCreate(r)
  \/ \E r \in SetupRequests : SubmitSetup(r)
  \/ \E e \in Escrows : CreateBare(e)
  \/ \E c \in Calls : SubmitCall(c)

Spec == Init /\ [][Next]_vars

-----------------------------------------------------------------------------
\* The API's getters: an answer, or nothing for an error or a panic.  This is
\* get_job_launcher, get_job_status, get_job_manifest_url and get_final_results,
\* and what command_info prints.
GetField(e, field) == {got.escrow[field] : got \in EscrowIn(World, e)}

\* DataHash::to_string unwraps from_utf8: it panics on a hash that is no UTF-8.
GetManifestHash(e) == GetField(e, "manifest") \cap (Utf8Hash \cup {NoDocument})

TokensIn(a) == IF Has(World, a, "TokenAccount") THEN {account[a].amount} ELSE {}

\* as if the balance of the refund account were reported
BugRefundBalance(e) == UNION {TokensIn(a) : a \in GetField(e, "canceler_token_account")}

GetBalance(e) == UNION {TokensIn(a) : a \in GetField(e, "token_account")}

\* get_factory: the accounts of the program with the address at this offset
data_offset_to_begin_match == 348
GetFactory(f) ==
  {e \in Escrows : Has(World, e, "Escrow")
                   /\ HoldsKeyAt(account[e].data, data_offset_to_begin_match, f)}

-----------------------------------------------------------------------------
(* What must hold of the whole path from a client to the stored bytes.          *)
WithManifest(names) == Joined([manifest |-> names.manifest_url], names)
Initialized(e) == EscrowInitialized(view.escrow[e])

Abstract == INSTANCE EscrowProgram WITH
  version <- view.version, escrow <- view.escrow, balance <- view.balance,
  InitialLedger <- [a \in TokenAccounts |-> IF a \in DOMAIN Minted THEN Minted[a] ELSE 0],
  Signers <- {[key |-> k, is_signer |-> TRUE] : k \in Keys},
  FactoryVersions <- {r.version : r \in FactoryRequests \cup CallsOf("FactoryInitialize")},
  InitializeCalls <- {CreateNames(r) : r \in CreateRequests} \cup CallsOf("Initialize"),
  SetupCalls <- {WithManifest(n) : n \in {SetupNames(r) : r \in SetupRequests} \cup CallsOf("Setup")},
  Results <- {c.final_results_url : c \in CallsOf("StoreResults")},
  AmountsCalls <- CallsOf("StoreFinalAmounts"),
  PayoutCalls <- CallsOf("Payout"),
  CancelCalls <- CallsOf("Cancel"),
  WalletTransfers <- Funding, MaxWalletTransfers <- MaxFunding

(* Whatever instructions run, the bytes of every escrow account unpack again,    *)
(* and those of an initialised one hold the bump seed of its authority: no        *)
(* process_* function can make an account that the next one, or a getter, cannot *)
(* read, or whose vault nobody can sign for (state.rs, Pack for Escrow).          *)
EscrowDataReadable ==
  \A e \in Escrows : Has(World, e, "Escrow") =>
    \E got \in Unpack(account[e].data) :
      got.bump_seed = IF Initialized(e) THEN BumpSeed[e] ELSE 0

(* Seen through pack and unpack, account lists and argument bytes, token accounts *)
(* created on the way and transactions of several instructions, the program takes *)
(* the steps of EscrowProgram on the calls the clients meant, and no others.      *)
ImplementsProgram == Abstract!Spec

\* What the handler of a call decides on the unpacked accounts
HandlerAccepts(c) ==
  LET n == c.names
      esc == view.escrow[n.escrow]
      handler == [key |-> n.trusted_handler, is_signer |-> TRUE]
  IN  CASE c.kind = "FactoryInitialize" ->
             /\ FactoryInitializeAccepts(view.version[n.factory])
             /\ OwnerAllows(n.factory, view.version[n.factory], n.version)
        [] c.kind = "Initialize" ->
             InitializeAccepts(n.escrow, esc, view.version[n.factory], n)
        [] c.kind = "Setup" -> SetupAccepts(esc, clock, handler, n)
        [] c.kind = "StoreResults" -> StoreResultsAccepts(esc, clock, handler)
        [] c.kind = "StoreFinalAmounts" -> StoreAmountsAccepts(esc, clock, handler)
        [] c.kind = "Payout" -> PayoutAccepts(n.escrow, esc, view.balance, clock, handler, n)
        [] c.kind = "Cancel" -> CancelAccepts(n.escrow, esc, view.balance, handler, n)
        [] c.kind = "Complete" -> CompleteAccepts(esc, clock, handler)

\* The account is there, as what its address is for, a token account initialised
Exists(a) ==
  /\ a \in Escrows => Has(World, a, "Escrow")
  /\ a \in Factories => Has(World, a, "Factory")
  /\ a \in Mints => Has(World, a, "Mint")
  /\ a \in TokenAccounts => Has(World, a, "TokenAccount") /\ account[a].mint # NoMint

(* An instruction built by the program's own builder is executed whenever its      *)
(* handler would accept the call, and only then: the builder lists enough          *)
(* accounts, in the order the handler takes them, the signer and the accounts that *)
(* will be written among them, and unpack finds the arguments pack wrote.          *)
BuildersReachHandlers ==
  \A c \in Calls :
    LET tx == Single(c)
    IN  (\A m \in Range(tx.instructions[1].accounts) : Exists(m.key)) =>
          (Executed(World, clock, tx) # {} <=> HandlerAccepts(c))

\* The addresses a transaction creates
NewAddresses(tx) ==
  {tx.instructions[i].new : i \in {j \in DOMAIN tx.instructions :
                                    tx.instructions[j].program = "create_account"}}
Fresh(tx) == \A a \in NewAddresses(tx) : account[a] = None
HoldsMint(a, mint) == a = NoAccount \/ (Has(World, a, "TokenAccount") /\ account[a].mint = mint)

(* command_create launches the escrow it was asked for, and command_setup moves a *)
(* launched one to Pending, whichever token accounts they have to create: the      *)
(* instructions come in an order that works, every account they create signs, and  *)
(* the fee payer is asked for the rent they take, no more and no less.             *)
CreateGoesThrough(r) ==
  LET tx == CommandCreate(r)
  IN  /\ FactoryInitialized(view.version[r.factory])
      /\ Has(World, r.token_mint, "Mint")
      /\ HoldsMint(r.canceler_token, r.token_mint)
      /\ r.duration # 0
      /\ Fresh(tx)
      => /\ lamports >= tx.budget <=> Executed(World, clock, tx) # {}
         /\ \A w \in Executed(World, clock, tx) :
              ViewOf(w).escrow[r.escrow] = InitializeWrites(clock, CreateNames(r))

SetupGoesThrough(r) ==
  LET esc == view.escrow[r.escrow]
      tx == CommandSetup(r, esc.token_mint)
  IN  /\ StateCheck(esc, clock, [key |-> r.owner, is_signer |-> TRUE], {"Launched"})
      /\ r.reputation_oracle_stake + r.recording_oracle_stake \in 1 .. 100
      /\ HoldsMint(r.reputation_oracle_token, esc.token_mint)
      /\ HoldsMint(r.recording_oracle_token, esc.token_mint)
      /\ Fresh(tx)
      => /\ lamports >= tx.budget <=> Executed(World, clock, tx) # {}
         /\ \A w \in Executed(World, clock, tx) :
              ViewOf(w).escrow[r.escrow] = SetupWrites(esc, WithManifest(SetupNames(r)))

RequestsGoThrough ==
  /\ \A r \in CreateRequests : CreateGoesThrough(r)
  /\ \A r \in SetupRequests : SetupGoesThrough(r)

(* The balance the API reports of a job that can be cancelled is what Cancel would *)
(* send back to the refund account (get_job_balance and process_cancel).           *)
BalanceIsRefundable ==
  \A e \in Escrows : Initialized(e) =>
    /\ GetBalance(e) # {}
    /\ \A c \in {x \in Calls : x.kind = "Cancel" /\ x.names.escrow = e}, n \in GetBalance(e) :
         \A w \in Executed(World, clock, Single(c)) :
           LET refund == view.escrow[e].canceler_token_account
           IN  ViewOf(w).balance[refund] = view.balance[refund] + n

-----------------------------------------------------------------------------
(* Two things the API says and does not do; each is refuted by a run.            *)

(* job.rs on new_job: "Creates a new job and returns the address".  The account   *)
(* for refunds is initialised with itself as the mint, and the token program      *)
(* refuses the whole transaction.                                                *)
NewJobLaunches ==
  \A r \in JobRequests :
    /\ FactoryInitialized(view.version[r.factory])
    /\ Fresh(NewJob(r))
    /\ lamports >= NewJob(r).budget
    => Executed(World, clock, NewJob(r)) # {}

(* factory.rs on get_factory: "Returns addresses of all jobs deployed in the       *)
(* factory".  The field it looks for at offset 348, of which state.rs says         *)
(* "Factory account this Escrow belongs to", is never stored by process_initialize. *)
FactoryListsItsJobs ==
  \A r \in CreateRequests : Initialized(r.escrow) => r.escrow \in GetFactory(r.factory)
=============================================================================
