# HUMAN protocol escrow on Solana: formal models

This directory holds TLA+ models of the escrow program (`src/program`), of the
REST API (`src/human-api`) and of the command-line client (`src/cli`), the TLC
configurations that check them on small instances, and TLAPS proofs that hold for
every instance. `PROJECT.json` lists runs, properties, mutants, theorems,
findings and hazards, and names the source lines behind every definition.

## 1. The system

**Escrow program** (`processor.rs`, `state.rs`, `instruction.rs`). A Solana program
with eight instructions. It keeps two kinds of account: a factory (a version
byte) and an escrow (20 fields: state, expiry, mint, vault, oracles with fee
accounts and stakes, launcher, canceler, refund account, totals, sent counters,
manifest, results). States go Uninitialized, Launched, Pending, Partial, Paid,
Complete, with Cancelled beside them. Money is never in the escrow account: it is in a
token account, the *vault*, which a program-derived authority signs for.

| instruction | guard, in short | effect |
|---|---|---|
| FactoryInitialize | version is 0 | version stored (0 included) |
| Initialize | a byte that is not 0 as factory, escrow blank, duration not 0, vault owned by the derived authority, mints agree | Launched, expiry computed |
| Setup | unexpired, Launched, trusted handler, stakes 1 to 100, mints of fee accounts | oracles stored, Pending |
| StoreResults, StoreFinalAmounts | unexpired, Pending or Partial, trusted handler | results; totals |
| Payout | the same, accounts match, vault covers it, counters stay within totals | up to three transfers; counters; Partial or Paid |
| Cancel | not Paid or Complete, trusted handler, accounts match, vault not empty; no clock | whole vault to the refund account, Cancelled |
| Complete | unexpired, Paid, trusted handler | Complete |

A trusted handler is the launcher, the canceler or, from Setup on, either oracle.

**Token program** (external). Transfer between accounts of one mint, signed by the
owner of the source. Called by Payout and Cancel, and by wallets directly.

**Cluster** (external). Executes transactions one after the other, each atomically;
drops those that are refused or too old; its clock does not go back.

**Clients.** Each API handler or CLI command is a sequence of RPC calls: read the escrow
account, perhaps the vault, fetch a blockhash, build and sign *one* transaction, send it, wait.
The API serves requests concurrently and keeps no state between them; the CLI
does the same for one request. `bulkPayout` / `payout` send StoreFinalAmounts and
one Payout per recipient in one transaction.

To launch a job the clients build transactions of several instructions, for three programs: create
accounts (paying rent for each), initialise mints and token accounts, and only then the escrow. `new_job`
does it all in one transaction; `create` and `setup` of the command line in two,
creating the token accounts they are not given. Getters unpack the account's bytes; `get_factory` searches them.

**Rest.** Routes, JSON types, configuration, argument parsing and error names have no state.

What is hard here: instructions of many parties in any order, with the
expiry between any two; counters and fees that overflow; several roles played by
one token account; totals rewritten between payouts; one of several transfers failing; and in the clients
stale reads, retries after a lost answer, and amounts converted from floating
point; and, between the two, conventions that only agree by position: a layout written down once for each direction, accounts
listed by a builder and taken by a handler, and lists of instructions, signers and rent kept side by side. `PROJECT.json` lists each hazard at its line.

What makes each part correct:

- *program*: an escrow settles exactly when its totals are reached and then for good; nobody
  but handlers moves it; a vault is debited only by its own escrow and what is taken is
  accounted for; an unsettled escrow can always be refunded; a valid payout cannot be refused halfway.
- *arithmetic*: the three shares add up to the amount, fees never exceed their percentage,
  counters are the true counts modulo their width.
- *clients*: a batch is paid once and to everybody or nobody; a stale read
  cannot misdirect money; a success is true; every request is answered.
- *the path between them*: what is packed unpacks to the same; what a builder builds its
  handler understands; a transaction creates what its later instructions need, signed and paid for; the balance shown is the balance refundable.

## 2. Modules

| module | models | by |
|---|---|---|
| `TokenMath` | machine arithmetic of `processor.rs` | operators over a word of size `2 * I64` |
| `TokenLedger` | the token program | `CanTransfer`, `Transferred` on functions from accounts to amounts |
| `EscrowInstructions` | accounts and the eight handlers | `...Accepts` (all checks), `...Writes` (the record stored), `...Ledger` (the transfers) |
| `EscrowProgram` | the program as a state machine | `clock`, `version`, `escrow`, `balance`, `transfers`; one action per instruction, plus `Tick` and `WalletTransfer` |
| `EscrowHistory` | the program with a bookkeeper | `hist`, `outside`: who signed, where each token went |
| `JobSettlement` | what the program promises | abstract: per job a stage, a pot, what was spent and what went back |
| `EscrowClaims` | comments of the repository the code does not keep | one invariant per claim |
| `EscrowClients` | API handlers and CLI commands over the program | per request `phase`, `snapshot`, `wire`; steps read, look at the vault, send, answer, fail, and the cluster's land and drop |
| `AccountData` | the bytes of an escrow account | `Pack`, `Unpack`, with both lists of fields and sizes of `state.rs` |
| `EscrowWire` | instructions on the wire | `Built` (tag, arguments, account list with flags) against `UnpackData` and `Taken` |
| `ClientTransactions` | what the clients build to launch and set up a job | `NewFactory`, `NewJob`, `CommandCreate`, `CommandSetup`: instructions, signers, rent |
| `EscrowChain` | the program on the accounts of the cluster | `account` (bytes, token accounts, mints), `lamports`, `view` (the accounts unpacked); one action per request, one operator `Process...` per handler |
| `MCCalls`, `MCLifecycle`, `MCIsolation`, `MCArithmetic`, `MCClients`, `MCChain` | instances | calls, accounts and owners |
| `EscrowProgramProofs`, `EscrowLedgerProofs`, `EscrowServiceProofs`, `EscrowHistoryProofs`, `EscrowClientsProofs`, `EscrowChainProofs`, `EscrowRefinementProofs`, `FoldLemmas` | proofs | section 5 |

Three specifications are shown, by TLC and by proof, to implement a more abstract one: `EscrowChain` implements
`EscrowProgram`, transaction for instruction, through `view`; `EscrowHistory` (and with it the
program) implements `JobSettlement`, which knows jobs, stages and pots only; and so does
`EscrowClients`, where a whole batch of payouts is one step.

An operator whose name starts with `Bug` is a mistake the definition next to it
could contain. No specification uses it; the mutants of `PROJECT.json` put it in
place of the definition to see that a property fails.

### How the model relates to the code

- A refused instruction changes nothing on chain, so refusal is stuttering; which error code is returned is left out.
- Checks are conjuncts of `...Accepts` whatever their order in the code. The check of the totals
  and the transfers of `process_payout` use the wrapping and saturating operations
  of the code: `Cargo.toml` sets no `overflow-checks`, so a release build wraps.
- `Payout` and `Cancel` include their transfers: a transfer of zero is not invoked,
  each later transfer sees the ledger the earlier ones left, and a refused one
  refuses the instruction.
- The derived authority is a constant, `Authority`, injective in the escrow; it has no
  private key, so no wallet transfer leaves an account it owns. Its `bump_seed` exists in `EscrowChain` only, where
  it is stored, and where another seed than the derived one signs for nothing.
- A URL and its hash are one of `Documents`. The factory is a version; as in the code, an
  escrow never stores it.
- A byte of a multi-byte value is the value, its type and an index. So a value is read back only if
  all of its bytes are read, in order, by a field of its type; a default value is zero bytes, as in the code,
  and `None` leaves the body of an optional key as it was.
- `Execute` runs the instructions of a transaction in order and returns no world as soon as one is refused;
  an instruction may only change accounts its list calls writable, and every account it calls a signer must be among the transaction's signers.
- Optional oracle keys are `NoKey`/`NoAccount` until Setup.
- Whose an account is. The handlers never ask. `process_initialize` unpacks a factory from any account of one byte (`processor.rs:177`)
  and the vault and the refund account from any account of a token account's size (199, 210); so does `process_setup` with the fee
  accounts (267, 272). So `Factories` and `TokenAccounts` are what *unpacks* as such: `OwnFactories` are the factories of this program and
  `SplAccounts` the accounts of the token program, and the others are accounts of other programs, of any content (`ForeignVersion`, `InitialLedger`).
  Two parties do look at owners. The runtime lets nobody but the owner change an account, so `FactoryInitialize` of a foreign byte succeeds only
  if it stores what is there (`OwnerAllows`). The token program refuses to transfer from or to an account that is not its own, to itself included (`CanTransfer`). What another
  program may meanwhile write into its look-alike is left out: a foreign account keeps the contents of the start.
  `FundsRecoverable` and `PayoutsServiceable`, the two properties that promise a transfer, promise it for accounts in `SplAccounts`;
  `FalseVaultsPayNothing` says what becomes of the others.
- An assumption about the token program: `token_transfer` (106-134) passes on the key of the program account it is given and never compares it;
  neither do `process_payout` (353-469) and `process_cancel` (472-526). Whether `spl_token::instruction::transfer` refuses to build an
  instruction for another program depends on its version: `Cargo.toml` takes `3.0` or later from git and no lock file pins it. So this is an assumption, made in one place
  (`TransferBuilt` of `EscrowChain`, external), and it is why `PayoutCall` and `CancelCall` need no field for the program. A payout of nothing builds no
  transfer and does without. The clients always pass the real id. Properties that compare an escrow's own record with tokens that moved
  rest on it: `CountersMatchLedger`, `LedgerReconciles`, `VaultDebitsAccounted` (that a debit is counted does not, that a counted payout is a debit does),
  `FeesInPercents`, `FeesNeverExceedStakes`, `SettledXorRefunded`, `FalseVaultsPayNothing`, `SettlesJobs`, `ClientsSettleJobs`, `BuildersReachHandlers` and
  `ImplementsProgram`. That an escrow takes nothing from another one, and who may do what, does not.
- Not in the model: an escrow account of another program (of which the runtime refuses every instruction that changes it), the mint's
  own authority, transaction fees, the limits of the runtime on size and computation, freezing, delegating or closing token accounts; the owner of a
  token account never changes.
- In `EscrowClients` all handlers run the same steps. `Instructions` builds the
  transaction of each command from the snapshot, `Land` folds it over one escrow
  and the ledger with the very operators `EscrowProgram` uses. Amounts in a payouts file are fractions
  of a base unit (`UiUnit`), conversion truncates and saturates as the cast to `u64` does, and what the `f64` sum
  loses or gains is the field `rounding` of a request. A payouts file has at most as many entries as a `Vec` can hold
  (`isize::MAX`), and what a batch adds to the counters is a sum modulo the word. The order of a `HashMap` is
  the order of the sequence. `cancel` is the API's and the command line's; `abort` exists in the API only.
- An executed transaction is final: rolled-back forks are not modelled.

## 3. Runs

| run | bounds | states | shows |
|---|---|---|---|
| `lifecycle` | one escrow, 3 wallet transfers, clock 0..3, 4 payouts or cancels, a foreign factory, vault and fee account | 90,974 | settlement is exact and final, an expired escrow can only be cancelled, funds are recoverable and payouts serviceable, fees are percentages while nothing overflows, a false vault pays nothing, and the program implements `JobSettlement` |
| `isolation` | two escrows, each other's accounts in every call, every role and a stranger, signed and unsigned, 3 moves each | 30,364 | only keys named by an escrow changed it, no vault is shared, every debit is accounted for, double entry balances, steps are of one job each |
| `arithmetic` | 8-bit word, 4 moves, accounts with two roles | 60,909 | counters and fees under overflow and wrap, double entry, `JobSettlement` |
| `clients` | seven requests, two under way at once | 484,872 | one batch at most, all or nobody, its outcome, stale reads, true answers, `JobSettlement` transaction by transaction |
| `answers` | six requests through a whole job, two at once | 135,328 | every request is answered (liveness), true answers |
| `chain` | one job, created and set up in every way the command line offers or account by account, clock 0..2, a payer with 10 or 13 units of rent, a foreign factory and a look-alike as vault or refund account | 3,522 | bytes stay readable, builders reach handlers, requests that can be paid for go through, the balance is what a refund returns, and all of it is `EscrowProgram` |
| `claim_...` | as the run of the same module | | six promises the code does not keep, section 4 |

Why the bounds are enough. The word is a parameter: nothing in the code depends
on 64 bits but the places where overflow happens, and in `arithmetic` a word of 256
makes each of them happen (a fee of 0 at 150 tokens and 2 percent, a counter that wraps after two payouts of
a refilled vault, an expiry in the past), while in the other runs amounts stay far below it.
`MaxClock` exceeds the longest duration of `lifecycle`, so expiry strikes before, between and after all
instructions. `MaxMoves` allows two payouts and two cancels, the smallest number with a payout
after a changed total and a cancel after a cancel. In `clients` two requests at a time are enough for
every stale read and every pair of conflicting transactions; a finished request makes room
for the next, while a transaction whose answer was given up still counts. The clock stands
still there, because a transaction may be dropped at any time anyway. In `chain` rents are
small numbers (an escrow 6, a token account 2) and the payer's balance lies between the cheapest and the dearest way
through a job, so that each request is refused for its rent somewhere and executed elsewhere; a URL is 2 bytes where the code has 256, which
only moves the fields behind it, while every size in front of them, offset 348 included, is the code's. Calls that must be refused (wrong vault, wrong
mint, wrong owner, stakes out of bounds, a second setup) are in the call sets too.

Deadlock is not checked: a settled, refunded or expired escrow with
no requests left may stop, which is what the program is for.

**Fairness.** The core has none: nobody has to submit an instruction, and all its properties are
safety. `CSpec` assumes per request that a handler which has started runs on
(Rocket's threads and the CLI are not stopped) and that a call to the node returns, with an answer or an
error; and per transaction that it is executed or dropped, because a blockhash
expires. Nothing makes a request arrive, a transaction land, a wallet pay or the clock move.
A server that dies with requests in progress is outside the model.

## 4. Findings

Each is a violation run whose trace TLC prints.

- `claim_new_job`: no job can be launched through the API. `new_job` initialises the account for refunds with that account's own
  key as its mint, so the token program refuses the whole transaction (with the escrow's mint there it is executed). Behind it two more
  faults wait: Setup would get the reputation oracle's fee account twice, and Initialize the vault as refund account.
- `claim_factory`: the escrow never stores its factory, so the search of `get_factory` at offset 348 finds zeros in every job.
- `claim_cancel_expiry`: Cancel works before the expiry, although the duration is documented to prevent it.
- `claim_duration`: a duration that passed its check can put the expiry in the past.
- `claim_refund`: an escrow whose refund account is its vault (as `new_job` passes
  it) becomes Cancelled and returns nothing.
- `claim_complete`: a batch whose amounts round differently from their sum pays
  everybody, leaves the escrow Partial with no recipient left, and Complete is
  refused. In the other direction (a sum rounded down) the batch is always refused.

Two more have no run of their own. "Escrow has to belong to initialized Factory" (`processor.rs:184`), but any account of one byte that is not
zero passes for one, whoever owns it; in `lifecycle` and `chain` such a byte launches escrows, also before any factory was initialised. And a fee whose product with the stake overflows is zero instead of its percentage
(`checked_mul(..).unwrap_or(0)`). `arithmetic` contains such payouts, `FeesAreInPercents` is proved from the
assumption that there are none, and without it `FeesInPercents` fails.

## 5. Proofs

All are for every size of word (`I64 >= 128`), every set of escrows, accounts and
keys, every set of calls and every bound. Assumptions, all named in the
modules: `I64Assumption`, `LedgerAssumption` (each token account has one mint and one
owner), `AuthorityAssumption` (derived authorities are distinct),
`DefaultsAssumption` (the default keys are nobody's), `FactoriesAssumption` (an account of another program holds some byte), `CallsAssumption` and
`MaxMovesAssumption` (the calls are well typed), `ClientsAssumption` (so are the requests; payouts files of any length), `LayoutAssumption` (a URL takes at least one byte),
`RequestsAssumption` (what the requests of `EscrowChain` name is of the right sort: an escrow where an escrow belongs, and so on),
`StartAssumption` (rents and balances are naturals, as `u64`s are; a token account there at the start has a mint there; a look-alike is there from the start, because no transaction makes one;
  a foreign factory is no token account and no mint),
`NewKeysAssumption` (the accounts one command creates are at different addresses: each has a `Keypair::new()` of its own in `cli/src/main.rs`).

Two parts of `RequestsAssumption` deserve a word. In `EscrowProgram` the mint and the owner of a token account are constants, in `EscrowChain` they are
written when the account is initialised. So an account that a command creates must be *foretold*: `MintOf` and `OwnerOf` say of its address
what the command will write there. Its address is a fresh key pair, used once, so there always are such constants as long as one
request creates it with one mint: all requests to initialise an escrow whose Setup creates fee accounts must name the same mint. Accounts the
program merely finds are not restricted. And no wallet transfer leaves an account of a derived authority, which has no key.

- `EscrowProgramProofs`: `TypeCorrect`, then the inductive invariant `IInv`. No single
  property is inductive: that a settled escrow is fully counted needs that totals change only in
  unsettled states; that vaults are disjoint needs that each is owned by its
  escrow's authority since Initialize; that payouts are well formed needs the stakes and accounts Setup checked. `IInv` has one conjunct for each
  (`OwnsVault`, `OraclesKnown`, `CountersFull`). It gives `OraclesStayFixed`,
  `SettlementIsFull`, `VaultsStayDisjoint`. `InstructionsKeepEscrowInv` states the part about one
  escrow for the records the handlers write, so that it serves transactions of many instructions too.
- `EscrowLedgerProofs`: action properties. `SharesAddUp` shows that neither
  `saturating_sub` saturates, `PaymentEffect` that three transfers take at most the amount from the vault, all of it if no
  share returns there, and lower no other account; `PayoutEffect` says so of a step,
  hence `ExpiredMeansCancelOnly`, `SettlementStaysFinal`, `DebitsAreAccounted`.
- `EscrowHistoryProofs`: `HIInv` adds the book to `IInv`: counters modulo the
  word (`WrapAddIsModular`, from uniqueness of remainders), fees summed over payouts
  (`FeeAccumulates`), an untouched book before the first payout, signers. It gives
  `HistoryTypeCorrect`, `CountersAreTrue`, `FeesAreBounded`, `FeesAreInPercents`, `RefundsExcludeSettlement`, `HandlersRule`;
  `HistoryIsOnlyHistory` shows the book never steers the program.
- `JobsAreSettled` (in `EscrowHistoryProofs`), the refinement of `JobSettlement`. Initial states map
  to initial states; each instruction maps to the step of one job (`InitializeLaunches`,
  `SetupConfigures`, `PayoutPays`, `CancelRefunds`, `CompleteCloses`) that spares all others, and everything else
  to a deposit.

- `EscrowServiceProofs`: `RefundsAlwaysWork` and `PayoutsAlwaysWork`. The one refusal the escrow program cannot
  foresee is the token program's, when the receiving account overflows. A sum over accounts would need an induction; instead `SupplyFits`
  lays the tokens of a mint out one by one (`Placements`), an account holding as many as lie in it. A transfer moves
  some of them (`TransferKeepsSupply`), a payout's three transfers move them three times, and two accounts hold different tokens, so that together they fit a word.
  Both theorems assume `SupplyFits(InitialLedger)`, which the token program guarantees: a mint's supply is a `u64`. Only `SplAccounts` hold tokens; what a look-alike
  claims to hold counts for nothing. Of those `FalseVaultsStayUnpaid` speaks: shares add up to the amount, so a payout whose shares are all nothing is of nothing
  (`FalseVaultServesNothing`), and of a vault that is not the token program's no other is accepted.

- `FoldLemmas`: the folds of the community modules, made usable. `FoldLeft`, `MapThenFoldSet` and their relatives are
  recursive functions on sets of indices, chosen by their equation, and with no induction theorem at hand neither that such
  a function exists nor what it yields comes for free. Induction takes the form of sets there: the set of indices for which a claim
  holds contains the first and with each one the next (`NatSetInduction`, `SubsetInduction`, `PrefixInduction`). So the recursive function exists
  (`SumExists`, `RunExists`), a fold over a sequence is a *run*, whose members come each from the one before by one step, and a property
  kept by each step holds of the last; and a sum changes by what one changed entry does (`SumChangesAtOne`).
- `LedgerAlwaysReconciles` (in `EscrowHistoryProofs`): double entry over any *finite* set of escrows, the one assumption besides
  the constants'. `LedgerReconciles` compares each account with a sum over all
  escrows, of which a step changes one entry (`NetsOf`); `Reconciled` is that comparison, inductive together with `HIInv`.
- `EscrowClientsProofs`: any number of requests, interleaved with each other, with time and with wallets, in four parts.
  1. A transaction folds over its instructions, and a batch has as many as the payouts file. The fold becomes a run, and
     `BatchLands` follows the record along it: state, totals, counters and accounts after any number of payouts.
  2. `LandEffect` says what a landed transaction of each command does to the record, and what it needed to find there.
  3. One lemma per step for the inductive invariant `CInv`, checked by TLC before. Type correctness needs `RequestInv` (what a request carries in which
     phase); `SnapshotsStayValid` needs `FreshAccounts`: token accounts and oracles are stored once, by Initialize and
     Setup, and are missing before; `BatchInv` says which one batch explains the counters of an escrow (none as long as they are
     zero), which is what makes a second one impossible; `Done` says what each executed command leaves true for good, which makes an `ok` lasting.
     They give `ClientsTypeCorrect`, `StaleReadsAreHarmless`, `OneBatchLands`, `BatchesAreWhole`, `RoundingsDecide`, `SuccessIsLasting`.
  4. `ClientsSettle`: a batch is *one* payment of `JobSettlement`. `BatchDebits` follows the ledger along the run: the
     vault loses at most the amounts, no other account loses anything. A client compares the vault with its total before it sends,
     and much may land in between; `LookInv` says that the vault covers the batch for as long as the escrow is open to one. The theorem
     assumes that the amounts of no batch add up to 2^64 or more. Without that it is false, and TLC shows it on an 8-bit word: payouts of 127, 127 and 2 from
     a vault of 255 into that same vault leave the counter at 0, while the fees are gone.

- `EscrowChainProofs`: bytes. `PlacesAre` works out what `array_refs!` adds up, `ByteHasOwner` that the 23 fields overlap nowhere and fill
  no byte but their own, `LayoutsAgree` that both directions list the same. With a lemma for each type of field (`ValueRoundTrip`, and
  `OptionRoundTrip` for a key whose body `pack_coption_key` leaves as it was) that gives `RoundTrip`: what is packed unpacks to the
  same, for every record, length of URL and earlier content. `AccountsStayReadable` then needs that every account is readable in every
  world *in the middle* of a transaction (`WorldInv`): one lemma per handler, for any bytes and accounts it is given, then
  a run over the instructions as above. A handler stores the seed it read; that it is the derived one follows because each handler
  checks that the escrow is initialised, or that the seed gives the authority, before it stores an initialised record.

- The same for instructions, at the end of `EscrowChainProofs`. `WireRoundTrip`: `unpack` reads what `pack` wrote; arguments put
  together by `FlattenSeq` lie where `Places` looks for them (`PartsLieInOrder`). `AccountTablesAgree` compares the builders' lists with what the
  handlers take, and `CallsAreUnderstood` says that of an instruction of a builder the program makes exactly one call, the one meant.
- `EscrowRefinementProofs`: `ChainImplementsProgram`, the refinement of `EscrowProgram`, in five steps.
  1. What the clients see of a world, account by account (`ViewIsOfContents`), and what is true of each (`SoundWorld`): it can be read; a token account is
     blank or as foretold, and then of a mint that is there; mints are those of the start, since `new_job`, which alone makes one, never succeeds; an escrow is
     blank or has the accounts of some request to initialise it, and those exist; the fee payer's balance is a natural. One lemma per kind of write.
  2. A handler decides on the accounts as they are in the middle of a transaction, `EscrowProgram` on those foretold: what the former accepts the latter does
     (`InitializeMirrors`, `SetupMirrors`, `PayoutMirrors`, `CancelMirrors`). The converse needs accounts that exist.
  3. One lemma per `process_*` function (`...Means`), together `ProcessMeans`: it accepts and writes what `EscrowInstructions` does of the call meant.
  4. A transaction of the clients prepares accounts, which nobody sees (`PreparationUnseen`), and then makes one call (`CallingMeans`), whatever the number of instructions.
  5. `MeantInv`, inductive: the world is sound and the view is its view. TLC has checked it on the instance of `chain`. With it each action maps to one of `EscrowProgram` or to a stutter.

  From the same invariant `BalanceStaysRefundable`. It assumes that no request names the vault as its own refund account: nothing in `process_initialize`
  prevents it, and then Cancel moves nothing (`claim_refund`).

  Then `BuildersAlwaysReach`: a transaction *is* executed, where the above says what it does if it is. It is the converse of 2 and 3, for
  accounts that are there (`UsableAccounts`): `ListFits` says that a builder lists all accounts of its call and marks as writable those that change, the lemmas
  `...Reaches`, one per `process_*` function, that a handler accepts what `EscrowInstructions` accepts and changes nothing else (`PaidChanges`, `PayoutChanges`).

  Last, `RequestsAlwaysGoThrough`: the same for `command_create` and `command_setup`, which create up to two token accounts and an escrow first. A list of
  instructions *prepares* accounts (`Prepares`): it leads to no world if the fee payer has less than their price, else to one, where some token accounts are new
  and blank, some initialised, some escrows new, and all else is as before. One lemma for each instruction that may come next (`OneMoreCreated`,
  `OneMoreInitialized`) and for the lists they come in (`TokenAccountPrepared`, `VaultPrepared`, `FeeAccountPrepared`); then the call is executed on what is prepared
  (`CreateCallIsExecuted`, `SetupCallIsExecuted`), hence the whole exactly if the fee payer has the price (`PaidIsExecuted`), which is the budget the
  command computes (`SetupBudget`). That the mint the accounts are created with exists is why `SoundWorld` speaks of mints. The proof found a
  precondition that the property lacked, a duration other than 0, which the runs, all of whose requests have one, could not show.

Only model-checked: `RequestsAnswered`, which is liveness under fairness, out of the prover's reach (as is ENABLED). Every invariant of a passing run is stated by a theorem. `FeesInPercents` is
proved under the assumption `NoOverflow`: no payout's amount times 100 leaves the word.

## 6. What is left out

Written in this order, most important first: arithmetic and ledger, instructions, program, history,
their proofs, the abstract specification and its refinement, clients, bytes and wire, transactions, chain.

- `new_job` is a transaction (`NewJob`) and no action: it is refused in every world, whatever it is asked for (proved: `NewJobIsRefused`), and a refused transaction changes nothing. So its
  `NewJobInitialize` and `NewJobSetup` are modelled as built, and never executed.
- The clients of `EscrowClients` run on records and those of `EscrowChain` on bytes; their interleaving is explored in the
  former, what they build in the latter, because both together are out of TLC's reach.
- Routes, JSON types, configuration, the manifest's download, argument parsing, key files, printing, error names and logging have no state.
  `addTrustedHandlers` and `intermediateResults` are not implemented in the code.
- Two panics: of a URL or hash that is not UTF-8 in a getter only the hash's is modelled (`GetManifestHash`), with no property, since it depends on data alone.
- The entrypoint and the error module translate one call and one number each.
