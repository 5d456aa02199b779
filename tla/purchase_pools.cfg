CONSTANTS
  BPS_DENOMINATOR = 4
  RANKED_FEE_BPS = 1
  CENT_MICRO = 2
  USD_MICRO = 2
  SOL_BASE = 2
  SPL_BASE = 1
  U16MAX = 8
  U32MAX = 3
  U64MAX = 63
  SOL = SOL
  SKR = SKR
  SLICE = SLICE
  USDC = USDC
  auth = auth
  alice = alice
  bob = bob
  g1 = g1
  g2 = g2
  u1 = u1
  u2 = u2
  u3 = u3
  r1 = r1
  DefaultKey = DefaultKey
  AUTHORITY = auth
  Wallets = {auth, alice}
  UserAccounts = {u1, u2}
  RankedGames = {}
  RENT_ORACLE = 1
  RENT_RANKED = 1
  RENT_ATA = 1
  RENT_USER = 1
  RENT_EMPTY = 1
  RENT_GAME_V1 = 1
  RENT_GAME = 2
  MIN_GAME_TO_PROTOCOL_SHARE_BPS = 1
  Games = {g1, g2}
  UserSeed <- TwoTitles
  ClientAtas <- OldClientAtas
  FreeNames = {}
  Gifts <- OldGifts
  Destinations <- TheBuyer
  GIFT_LIMIT = 2
  GenesisGame <- OldTitle
  GenesisUser <- Nobody
  GenesisBal <- OldLedger
  GenesisAta <- OldAta
  GenesisProtocols <- FirstTitle
  PriceInputs <- OnePrice
  Offers <- NoOffers
  FeeShares <- HighShare
  GameCosts = {5}
  PoolBps = {2, 5}
  ParentGames = {}
  EntryFees = {}
  PayoutBps = {}
  UniqueIds = TRUE
  CpiBalanceCheck = TRUE
SPECIFICATION IndieSpec
PROPERTY PurchaseFillsPools
