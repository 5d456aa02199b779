-------------------------- MODULE EntryQuoteProofs --------------------------
(***************************************************************************)
(* The pricing of an entry, for every fee, share, price and scale.         *)
(***************************************************************************)
EXTENDS EntryQuote, IgpMathProofs

\* A quote does not change, and what is charged is what was due for it.
QuoteInv ==
    /\ quote \in Quote
    /\ Charged => Accepted(quote) /\ charge = Due(quote)

LEMMA QuoteInvInit == QuoteInit => QuoteInv
  BY DEF QuoteInit, QuoteInv, Charged

LEMMA QuoteInvStep == QuoteInv /\ [QuoteNext]_quoteVars => QuoteInv'
  <1> SUFFICES ASSUME QuoteInv, [QuoteNext]_quoteVars PROVE QuoteInv'
    OBVIOUS
  <1>1. CASE Charge
    BY <1>1 DEF Charge, QuoteInv, Charged, Accepted, Due
  <1>2. CASE Refuse
    BY <1>2 DEF Refuse, QuoteInv, Charged
  <1>3. CASE UNCHANGED quoteVars
    BY <1>3 DEF quoteVars, QuoteInv, Charged, Accepted, Due
  <1> QED  BY <1>1, <1>2, <1>3 DEF QuoteNext

LEMMA QuoteAlways == QuoteSpec => []QuoteInv
  BY QuoteInvInit, QuoteInvStep, PTL DEF QuoteSpec

\* The fields of a charged quote, and the cents each part stands for.
LEMMA ChargedQuote ==
    ASSUME QuoteInv, Charged
    PROVE  /\ quote.entry_fee \in Nat /\ quote.price \in Nat \ {0}
           /\ quote.dev_bps \in Nat /\ quote.dev_bps <= BPS_DENOMINATOR
           /\ charge = EntryTokens(quote.entry_fee, quote.dev_bps, quote.price, SPL_BASE)
  BY BoundAssumption, ScaleAssumption DEF QuoteInv, Quote, Accepted, Due

\* Converting cents, rounded up: the units cover the cents, by less than one.
LEMMA UnitsCover ==
    ASSUME NEW cents \in Nat, NEW price \in Nat \ {0}
    PROVE  LET units == UsdCentsToBaseUnits(cents, price, SPL_BASE)
               due == Micro(cents) * SPL_BASE
           IN  /\ units \in Nat /\ due \in Nat
               /\ units * price >= due
               /\ units * price < due + price
  <1>1. Micro(cents) * SPL_BASE \in Nat
    BY ScaleAssumption DEF Micro
  <1> QED  BY <1>1, CeilCovers DEF UsdCentsToBaseUnits, Micro

\* Three numbers that each cover a part cover the sum of the parts.
LEMMA ThreeParts ==
    ASSUME NEW p \in Nat, NEW a \in Nat, NEW b \in Nat, NEW c \in Nat,
           NEW x \in Nat, NEW y \in Nat, NEW z \in Nat,
           a * p >= x, b * p >= y, c * p >= z,
           a * p < x + p, b * p < y + p, c * p < z + p
    PROVE  /\ (a + b + c) * p >= x + y + z
           /\ ((a + b + c) - 3) * p < x + y + z
  <1>1. (a + b + c) * p = a * p + b * p + c * p
    BY SMT
  <1>2. ((a + b + c) - 3) * p = a * p + b * p + c * p - 3 * p
    BY SMT
  <1> DEFINE i == a * p
             j == b * p
             k == c * p
  <1>3. i \in Nat /\ j \in Nat /\ k \in Nat
    BY SMT
  <1> HIDE DEF i, j, k
  <1> SUFFICES i + j + k >= x + y + z /\ i + j + k - 3 * p < x + y + z
    BY <1>1, <1>2 DEF i, j, k
  <1>4. i >= x /\ j >= y /\ k >= z /\ i < x + p /\ j < y + p /\ k < z + p
    BY DEF i, j, k
  <1> QED  BY <1>3, <1>4

\* The entry and its fee are the sum of the three parts, in any unit.
LEMMA DueIsSum ==
    ASSUME NEW a \in Nat, NEW b \in Nat, NEW c \in Nat
    PROVE  Micro(a + (b + c)) * SPL_BASE
             = Micro(a) * SPL_BASE + Micro(b) * SPL_BASE + Micro(c) * SPL_BASE
  <1> DEFINE k == CENT_MICRO * SPL_BASE
  <1>1. k \in Nat
    BY ScaleAssumption
  <1>2. \A n \in Nat : Micro(n) * SPL_BASE = n * k
    BY ScaleAssumption, SMT DEF Micro
  <1> HIDE DEF k
  <1>3. (a + (b + c)) * k = a * k + b * k + c * k
    BY <1>1, SMT
  <1>4. a + (b + c) \in Nat
    OBVIOUS
  <1> QED  BY <1>2, <1>3, <1>4

----------------------------------------------------------------------------
\* The player pays what is due and less than three base units more, whatever
\* the price and the split.
THEOREM ChargeSound == QuoteSpec => []ChargeCoversDue
  <1>1. QuoteInv => ChargeCoversDue
    <2> SUFFICES ASSUME QuoteInv, Charged PROVE ChargeCoversDue
      BY DEF ChargeCoversDue
    <2> DEFINE e == quote.entry_fee
               d == quote.dev_bps
               p == quote.price
    <2>1. /\ e \in Nat /\ p \in Nat \ {0} /\ d \in Nat /\ d <= BPS_DENOMINATOR
          /\ charge = EntryTokens(e, d, p, SPL_BASE)
      BY ChargedQuote
    <2>2. /\ RankedFee(e) \in Nat /\ DevCut(e, d) \in Nat /\ ProtocolCut(e, d) \in Nat
          /\ DevCut(e, d) + ProtocolCut(e, d) = RankedFee(e)
      BY <2>1, EntryParts
    <2> DEFINE due == Micro(e + FeeOf(quote)) * SPL_BASE
               x == Micro(e) * SPL_BASE
               y == Micro(DevCut(e, d)) * SPL_BASE
               z == Micro(ProtocolCut(e, d)) * SPL_BASE
    <2>3. due = x + y + z
      <3>1. FeeOf(quote) = DevCut(e, d) + ProtocolCut(e, d)
        BY <2>2 DEF FeeOf
      <3>2. Micro(e + (DevCut(e, d) + ProtocolCut(e, d))) * SPL_BASE = x + y + z
        BY <2>1, <2>2, DueIsSum
      <3> QED  BY <3>1, <3>2
    <2>4. /\ charge.net \in Nat /\ x \in Nat
          /\ charge.net * p >= x /\ charge.net * p < x + p
      BY <2>1, UnitsCover DEF EntryTokens
    <2>5. /\ charge.dev \in Nat /\ y \in Nat
          /\ charge.dev * p >= y /\ charge.dev * p < y + p
      BY <2>1, <2>2, UnitsCover DEF EntryTokens
    <2>6. /\ charge.protocol \in Nat /\ z \in Nat
          /\ charge.protocol * p >= z /\ charge.protocol * p < z + p
      BY <2>1, <2>2, UnitsCover DEF EntryTokens
    <2> HIDE DEF x, y, z
    <2>7. /\ (charge.net + charge.dev + charge.protocol) * p >= x + y + z
          /\ ((charge.net + charge.dev + charge.protocol) - 3) * p < x + y + z
      BY <2>1, <2>4, <2>5, <2>6, ThreeParts
    <2> QED  BY <2>3, <2>7 DEF ChargeCoversDue
  <1> QED  BY <1>1, QuoteAlways, PTL

\* Paid out at the price it was charged at, a net entry is worth its fee.
THEOREM RedeemSound == QuoteSpec => []NetEntryRedeems
  <1>1. QuoteInv => NetEntryRedeems
    <2> SUFFICES ASSUME QuoteInv, Charged
                 PROVE  SplUsd(charge.net, quote.price)
                          >= Saturate(Micro(quote.entry_fee))
      BY DEF NetEntryRedeems
    <2> DEFINE e == quote.entry_fee
               p == quote.price
               worth == charge.net * p
    <2>1. /\ e \in Nat /\ p \in Nat \ {0}
          /\ charge.net = UsdCentsToBaseUnits(e, p, SPL_BASE)
      BY ChargedQuote DEF EntryTokens
    <2>2. charge.net \in Nat /\ worth >= Micro(e) * SPL_BASE
      BY <2>1, UnitsCover
    <2>3. worth \in Nat /\ Micro(e) \in Nat /\ SPL_BASE \in Nat \ {0}
      BY <2>1, <2>2, ScaleAssumption DEF Micro
    <2> HIDE DEF worth
    <2>4. worth \div SPL_BASE \in Nat /\ worth \div SPL_BASE >= Micro(e)
      BY <2>2, <2>3, DivCovers
    <2>5. SplUsd(charge.net, p) = Saturate(worth \div SPL_BASE)
      BY DEF SplUsd, worth
    <2> QED  BY <2>3, <2>4, <2>5, WidthAssumption DEF Saturate
  <1> QED  BY <1>1, QuoteAlways, PTL

\* The cent that the split rounds off goes to the protocol, never away.
THEOREM DustSound == QuoteSpec => []DustGoesToProtocol
  <1>1. QuoteInv => DustGoesToProtocol
    <2> SUFFICES ASSUME QuoteInv PROVE DustGoesToProtocol
      OBVIOUS
    <2> DEFINE B == BPS_DENOMINATOR
               d == quote.dev_bps
               f == FeeOf(quote)
               q == BpsOf(f, d)
    <2>1. B \in Nat /\ d \in Nat /\ d <= B /\ quote.entry_fee \in Nat
      BY BoundAssumption, ScaleAssumption DEF QuoteInv, Quote
    <2>2. f \in Nat
      BY <2>1, EntryParts DEF FeeOf
    <2>3. q \in Nat /\ q * B <= f * d /\ f * d < (q + 1) * B
      BY <2>1, <2>2, BpsFloor
    <2>4. ProtocolCut(quote.entry_fee, d) = f - q
      BY DEF ProtocolCut, DevCut, FeeOf
    <2> HIDE DEF B, d, f, q
    <2>5. (f - q) * B = f * B - q * B /\ f * (B - d) = f * B - f * d
      BY <2>1, <2>2, <2>3, SMT
    <2>6. ((f - q) - 1) * B = f * B - (q + 1) * B
      BY <2>1, <2>2, <2>3, SMT
    <2>7. f * B \in Nat /\ q * B \in Nat /\ f * d \in Nat /\ (q + 1) * B \in Nat
      BY <2>1, <2>2, <2>3, SMT
    <2>8. (f - q) * B >= f * (B - d) /\ ((f - q) - 1) * B < f * (B - d)
      BY <2>3, <2>5, <2>6, <2>7
    <2> QED  BY <2>4, <2>8 DEF DustGoesToProtocol, B, d, f
  <1> QED  BY <1>1, QuoteAlways, PTL
=============================================================================
