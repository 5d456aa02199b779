CONSTANTS
  BPS_DENOMINATOR = 10
  RANKED_FEE_BPS = 3
  CENT_MICRO = 2
  USD_MICRO = 7
  SOL_BASE = 5
  SPL_BASE = 3
  U16MAX = 15
  U32MAX = 3
  U64MAX = 60
  MAX_CENTS = 40
  MAX_PRICE = 12
SPECIFICATION QuoteSpec
INVARIANTS ChargeCoversDue NetEntryRedeems DustGoesToProtocol
CHECK_DEADLOCK FALSE
