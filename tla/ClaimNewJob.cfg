SPECIFICATION Spec
CONSTANTS
  I64 = 1024
  URL_LEN = 2
  TokenAccounts = {"vault2", "refund2", "repfee2", "recfee2", "vault", "refund", "purse", "worker", "repfee", "recfee", "foreign"}
  SplAccounts = {"vault2", "refund2", "repfee2", "recfee2", "vault", "refund", "purse", "worker", "repfee", "recfee", "foreign"}
  Mints = {"hmt", "other", "hmt2"}
  NativeMints = {"hmt", "other"}
  Escrows = {"job", "job2"}
  Factories = {"factory"}
  OwnFactories = {"factory"}
  ForeignVersion <- MCForeignVersion
  Documents = {"doc"}
  Utf8Hash = {}
  NoKey = NoKey
  NoAccount = NoAccount
  NoMint = NoMint
  NoFactory = NoFactory
  NoDocument = NoDocument
  Keys <- MCKeys
  MintOf <- MCMintOf
  OwnerOf <- MCOwnerOf
  Authority <- MCAuthority
  BumpSeed <- MCBumpSeed
  Lamports = {20}
  Rent <- MCRent
  Minted <- MCMinted
  FactoryRequests <- MCFactoryRequests
  JobRequests <- MCJobRequests
  CreateRequests <- MCCreateRequests
  SetupRequests <- MCSetupRequests
  Calls <- MCCalls
  Funding <- MCFunding
  MaxFunding = 1
  MaxClock = 2
INVARIANT
  NewJobLaunches
CHECK_DEADLOCK FALSE
