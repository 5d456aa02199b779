CONSTANTS
  BPS_DENOMINATOR = 4
  RANKED_FEE_BPS = 1
  CENT_MICRO = 1
  USD_MICRO = 1
  SOL_BASE = 2
  SPL_BASE = 1
  U16MAX = 5
  U32MAX = 2
  U64MAX = 31
  SOL = SOL
  SKR = SKR
  SLICE = SLICE
  USDC = USDC
  auth = auth
  alice = alice
  bob = bob
  g1 = g1
  g2 = g2
  u1 = u1
  u2 = u2
  u3 = u3
  DefaultKey = DefaultKey
  AUTHORITY = auth
  Wallets = {auth, alice, bob}
  UserAccounts = {u1, u2}
  RankedGames = {r1}
  RENT_ORACLE = 1
  RENT_RANKED = 1
  RENT_ATA = 1
  RENT_USER = 1
  RENT_EMPTY = 1
  RENT_GAME_V1 = 1
  RENT_GAME = 2
  Games = {g1, g2}
  GenesisGame <- FairShares
  GenesisUser <- MCUser
  GenesisBal <- SolAndUsdc
  GenesisAta <- MCAta
  PriceInputs <- TwoPrices
  ParentGames = {g1, g2}
  EntryFees = {4}
  PayoutBps = {4}
  UniqueIds = FALSE
  CpiBalanceCheck = TRUE
SPECIFICATION Spec
INVARIANT EnrolledArePayers
