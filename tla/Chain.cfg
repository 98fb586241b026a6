SPECIFICATION Spec
CONSTANTS
  I64 = 1024
  URL_LEN = 2
  TokenAccounts = {"vault", "refund", "purse", "worker", "repfee", "recfee", "foreign", "lookalike"}
  SplAccounts = {"vault", "refund", "purse", "worker", "repfee", "recfee", "foreign"}
  Mints = {"hmt", "other"}
  NativeMints = {"hmt", "other"}
  Escrows = {"job"}
  Factories = {"factory", "byte"}
  OwnFactories = {"factory"}
  ForeignVersion <- MCForeignVersion
  Documents = {"doc"}
  Utf8Hash = {}
  NoKey = NoKey
  NoAccount = NoAccount
  NoMint = NoMint
  NoFactory = NoFactory
  NoDocument = NoDocument
  Keys <- MCKeys
  MintOf <- MCMintOf
  OwnerOf <- MCOwnerOf
  Authority <- MCAuthority
  BumpSeed <- MCBumpSeed
  Lamports = {10, 13}
  Rent <- MCRent
  Minted <- MCMinted
  FactoryRequests <- MCFactoryRequests
  JobRequests = {}
  CreateRequests <- MCCreateRequests
  SetupRequests <- MCSetupRequests
  Calls <- MCCalls
  Funding <- MCFunding
  MaxFunding = 1
  MaxClock = 2
INVARIANTS
  EscrowDataReadable
  BuildersReachHandlers
  RequestsGoThrough
  BalanceIsRefundable
PROPERTIES
  ImplementsProgram
CHECK_DEADLOCK FALSE
