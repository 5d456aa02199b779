--------------------------- MODULE IgpMathProofs ---------------------------
(***************************************************************************)
(* What the arithmetic of the program bounds and preserves, for any scale. *)
(***************************************************************************)
EXTENDS IgpMath, TLAPS

\* A part in basis points of an amount is a natural no larger than it.
LEMMA BpsBound ==
    ASSUME NEW amount \in Nat, NEW bps \in Nat, bps <= BPS_DENOMINATOR
    PROVE  BpsOf(amount, bps) \in 0..amount
  <1>1. BPS_DENOMINATOR \in Nat /\ BPS_DENOMINATOR > 0
    BY ScaleAssumption
  <1>2. amount * bps \in Nat /\ amount * bps <= amount * BPS_DENOMINATOR
    BY <1>1, SMT
  <1>3. \A n \in Nat : n <= amount * BPS_DENOMINATOR
                         => n \div BPS_DENOMINATOR \in 0..amount
    BY <1>1, SMT
  <1> QED  BY <1>2, <1>3 DEF BpsOf

\* Rounding up gives a natural that covers what was divided.
LEMMA CeilCovers ==
    ASSUME NEW n \in Nat, NEW d \in Nat \ {0}
    PROVE  /\ CeilDiv(n, d) \in Nat
           /\ CeilDiv(n, d) * d >= n
           /\ CeilDiv(n, d) * d < n + d
  <1> DEFINE m == n + (d - 1)
  <1>1. m \in Nat /\ d \in Nat /\ d > 0  OBVIOUS
  <1>2. m \div d \in Nat  BY <1>1, SMT
  <1>3. m = d * (m \div d) + (m % d) /\ m % d \in 0..(d - 1)  BY <1>1, SMT
  <1> QED  BY <1>1, <1>2, <1>3, SMT DEF CeilDiv

\* A share in basis points is rounded down by less than one.
LEMMA BpsFloor ==
    ASSUME NEW amount \in Nat, NEW bps \in Nat
    PROVE  /\ BpsOf(amount, bps) \in Nat
           /\ BpsOf(amount, bps) * BPS_DENOMINATOR <= amount * bps
           /\ amount * bps < (BpsOf(amount, bps) + 1) * BPS_DENOMINATOR
  <1> DEFINE n == amount * bps
             B == BPS_DENOMINATOR
  <1>1. n \in Nat /\ B \in Nat /\ B > 0
    BY ScaleAssumption
  <1> SUFFICES /\ n \div B \in Nat
               /\ (n \div B) * B <= n
               /\ n < (n \div B + 1) * B
    BY DEF BpsOf
  <1> HIDE DEF n, B
  <1> QED  BY <1>1, SMT

\* A quotient is no less than the cofactor of the divisor that fits in.
LEMMA DivCovers ==
    ASSUME NEW n \in Nat, NEW k \in Nat, NEW d \in Nat \ {0}, n >= k * d
    PROVE  n \div d \in Nat /\ n \div d >= k
  <1>1. n \div d \in Nat /\ n < (n \div d + 1) * d
    BY SMT
  <1> DEFINE q == n \div d
  <1> HIDE DEF q
  <1>2. q \in Nat /\ n < (q + 1) * d
    BY <1>1 DEF q
  <1>3. CASE q < k
    <2>1. q + 1 <= k
      BY <1>2, <1>3
    <2>2. (q + 1) * d <= k * d
      BY <1>2, <2>1, SMT
    <2>3. (q + 1) * d \in Nat /\ k * d \in Nat
      BY <1>2, SMT
    <2> QED  BY <1>2, <2>2, <2>3
  <1> QED  BY <1>2, <1>3 DEF q

\* The parts of an entry are naturals, and the fee is the sum of its parts.
LEMMA EntryParts ==
    ASSUME NEW entry_fee \in Nat, NEW dev_bps \in Nat, dev_bps <= BPS_DENOMINATOR
    PROVE  /\ RankedFee(entry_fee) \in Nat
           /\ DevCut(entry_fee, dev_bps) \in Nat
           /\ ProtocolCut(entry_fee, dev_bps) \in Nat
           /\ DevCut(entry_fee, dev_bps) + ProtocolCut(entry_fee, dev_bps)
                = RankedFee(entry_fee)
  <1>1. RankedFee(entry_fee) \in Nat
    BY BpsBound, ScaleAssumption DEF RankedFee
  <1>2. DevCut(entry_fee, dev_bps) \in 0..RankedFee(entry_fee)
    BY <1>1, BpsBound DEF DevCut
  <1> QED  BY <1>1, <1>2 DEF ProtocolCut

\* Both parts of a purchase are naturals and no less than the total, and a
\* share of at most a whole splits every total that fits its word exactly.
LEMMA PurchaseParts ==
    ASSUME NEW total \in Nat, NEW share \in Nat
    PROVE  /\ SplitProtocolFee(total, share).dev \in Nat
           /\ SplitProtocolFee(total, share).protocol \in Nat
           /\ SplitProtocolFee(total, share).dev
                + SplitProtocolFee(total, share).protocol >= total
           /\ share <= BPS_DENOMINATOR /\ total <= U64MAX =>
                SplitProtocolFee(total, share).dev
                  + SplitProtocolFee(total, share).protocol = total
  <1> DEFINE whole == BpsOf(total, share)
             protocol == FeeFloor(total, share)
  <1>1. whole \in Nat
    BY BpsFloor
  <1>2. share <= BPS_DENOMINATOR => whole <= total
    BY BpsBound
  <1>3. protocol = whole % (U64MAX + 1)
    BY DEF FeeFloor
  <1> HIDE DEF whole
  <1>4. protocol \in Nat /\ (whole <= U64MAX => protocol = whole)
    <2>1. U64MAX + 1 \in Nat /\ U64MAX + 1 > 0
      BY WidthAssumption
    <2>2. \A d \in Nat : d > 0 => whole % d \in Nat /\ (whole < d => whole % d = whole)
      BY <1>1, SMT
    <2>3. whole <= U64MAX => whole < U64MAX + 1
      BY <1>1, WidthAssumption
    <2> QED  BY <1>3, <2>1, <2>2, <2>3
  <1>5. /\ SplitProtocolFee(total, share).protocol = protocol
        /\ SplitProtocolFee(total, share).dev =
             IF protocol < total THEN total - protocol ELSE 0
    BY DEF SplitProtocolFee
  <1> HIDE DEF protocol
  <1>6. share <= BPS_DENOMINATOR /\ total <= U64MAX => protocol <= total
    BY <1>1, <1>2, <1>4, WidthAssumption
  <1> QED  BY <1>4, <1>5, <1>6
=============================================================================
