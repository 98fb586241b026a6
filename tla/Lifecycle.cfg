SPECIFICATION HSpec
CONSTANTS
  I64 = 1024
  TokenAccounts = {"vault", "purse", "worker", "fees", "foreign", "lookalike"}
  SplAccounts = {"vault", "purse", "worker", "fees", "foreign"}
  Mints = {"hmt", "other"}
  Escrows = {"escrow"}
  Factories = {"factory", "byte"}
  OwnFactories = {"factory"}
  ForeignVersion <- MCForeignVersion
  Documents = {"doc"}
  NoKey = NoKey
  NoAccount = NoAccount
  NoMint = NoMint
  NoFactory = NoFactory
  NoDocument = NoDocument
  Keys <- MCKeys
  MintOf <- MCMintOf
  OwnerOf <- MCOwnerOf
  Authority <- MCAuthority
  InitialLedger <- MCInitialLedger
  Signers <- MCSigners
  InitializeCalls <- MCInitializeCalls
  SetupCalls <- MCSetupCalls
  AmountsCalls <- MCAmountsCalls
  PayoutCalls <- MCPayoutCalls
  CancelCalls <- MCCancelCalls
  FactoryVersions = {0, 1}
  Results = {"doc"}
  WalletTransfers <- MCWalletTransfers
  MaxWalletTransfers = 3
  MaxClock = 3
  MaxMoves = 4
INVARIANTS
  OraclesFixedBySetup
  SettledInFull
  FalseVaultsPayNothing
  FundsRecoverable
  PayoutsServiceable
  FeesInPercents
  SettledXorRefunded
PROPERTIES
  ExpiredOnlyCancel
  SettlementIsFinal
  SettlesJobs
CHECK_DEADLOCK FALSE
