SPECIFICATION CSpec
CONSTANTS
  I64 = 1024
  TokenAccounts = {"vault", "purse", "worker", "fees"}
  SplAccounts = {"vault", "purse", "worker", "fees"}
  Mints = {"hmt"}
  Escrows = {"escrow"}
  Factories = {"factory"}
  OwnFactories = {"factory"}
  ForeignVersion <- MCForeignVersion
  Documents = {"doc"}
  NoKey = NoKey
  NoAccount = NoAccount
  NoMint = NoMint
  NoFactory = NoFactory
  NoDocument = NoDocument
  Keys <- MCKeys
  MintOf <- MCMintOf
  OwnerOf <- MCOwnerOf
  Authority <- MCAuthority
  InitialLedger <- MCInitialLedger
  Signers = {}
  InitializeCalls = {}
  SetupCalls = {}
  AmountsCalls = {}
  PayoutCalls = {}
  CancelCalls = {}
  FactoryVersions = {1}
  Results = {}
  WalletTransfers <- MCWalletTransfers
  MaxWalletTransfers = 1
  MaxClock = 0
  Requests = {"create", "setup", "setup again", "pay", "uneven", "rounded down", "abort"}
  Request <- MCRequest
  UiUnit = 2
  MaxActive = 2
INVARIANTS
  CTypeOK
  BatchesPayOnce
  BatchesPayEverybody
  BatchOutcome
  SnapshotsStayValid
  OkMeansDone
PROPERTIES
  ClientsSettleJobs
CHECK_DEADLOCK FALSE
