SPECIFICATION HSpec
CONSTANTS
  I64 = 128
  TokenAccounts = {"vault", "worker"}
  SplAccounts = {"vault", "worker"}
  Mints = {"hmt"}
  Escrows = {"escrow"}
  Factories = {"factory"}
  OwnFactories = {"factory"}
  ForeignVersion <- MCForeignVersion
  Documents = {"doc"}
  NoKey = NoKey
  NoAccount = NoAccount
  NoMint = NoMint
  NoFactory = NoFactory
  NoDocument = NoDocument
  Keys <- MCKeys
  MintOf <- MCMintOf
  OwnerOf <- MCOwnerOf
  Authority <- MCAuthority
  InitialLedger <- MCInitialLedger
  Signers <- MCSigners
  InitializeCalls <- MCInitializeCalls
  SetupCalls <- MCSetupCalls
  AmountsCalls <- MCAmountsCalls
  PayoutCalls <- MCPayoutCalls
  CancelCalls <- MCCancelCalls
  FactoryVersions = {1}
  Results = {}
  WalletTransfers <- MCWalletTransfers
  MaxWalletTransfers = 2
  MaxClock = 1
  MaxMoves = 4
INVARIANTS
  HTypeOK
  CountersMatchLedger
  FeesNeverExceedStakes
  LedgerReconciles
PROPERTIES
  VaultDebitsAccounted
  SettlesJobs
CHECK_DEADLOCK FALSE
