SPECIFICATION HSpec
CONSTANTS
  I64 = 1024
  TokenAccounts = {"vaultA", "vaultB", "worker", "fees"}
  SplAccounts = {"vaultA", "vaultB", "worker", "fees"}
  Mints = {"hmt"}
  Escrows = {"A", "B"}
  Factories = {"factory"}
  OwnFactories = {"factory"}
  ForeignVersion <- MCForeignVersion
  Documents = {"doc"}
  NoKey = NoKey
  NoAccount = NoAccount
  NoMint = NoMint
  NoFactory = NoFactory
  NoDocument = NoDocument
  Keys <- MCKeys
  MintOf <- MCMintOf
  OwnerOf <- MCOwnerOf
  Authority <- MCAuthority
  InitialLedger <- MCInitialLedger
  Signers <- MCSigners
  InitializeCalls <- MCInitializeCalls
  SetupCalls <- MCSetupCalls
  AmountsCalls <- MCAmountsCalls
  PayoutCalls <- MCPayoutCalls
  CancelCalls <- MCCancelCalls
  FactoryVersions = {1}
  Results = {"doc"}
  WalletTransfers = {}
  MaxWalletTransfers = 0
  MaxClock = 0
  MaxMoves = 3
INVARIANTS
  HandlersOnly
  VaultsNeverShared
  LedgerReconciles
PROPERTIES
  VaultDebitsAccounted
  SettlesJobs
CHECK_DEADLOCK FALSE
