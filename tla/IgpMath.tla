------------------------------ MODULE IgpMath ------------------------------
(***************************************************************************)
(* The integer arithmetic of the program: basis points, the conversion of  *)
(* US cents to token base units at the oracle's price, the 10 % fee of a    *)
(* ranked entry and the micro-USD that a payout is credited as.            *)
(*                                                                         *)
(* Every divisor, scale and width is a constant, so that the lemmas hold   *)
(* for the deployed values (10_000 basis points, 10^9 lamports, 64-bit     *)
(* words) and TLC can run on small ones.                                   *)
(***************************************************************************)
EXTENDS Integers

CONSTANTS
    BPS_DENOMINATOR,  \* 10_000: basis points in a whole
    RANKED_FEE_BPS,   \* 1_000: the fee on top of a ranked entry
    CENT_MICRO,       \* 10_000: micro-USD in a US cent
    USD_MICRO,        \* 1_000_000: micro-USD in a dollar, the price of USDC
    SOL_BASE,         \* 10^9: lamports in a SOL
    SPL_BASE,         \* 10^6: base units in a whole SKR, SLICE or USDC
    U16MAX, U32MAX, U64MAX  \* the largest value of each unsigned width

ASSUME ScaleAssumption ==
    /\ BPS_DENOMINATOR \in Nat \ {0} /\ RANKED_FEE_BPS \in 0..BPS_DENOMINATOR
    /\ CENT_MICRO \in Nat \ {0} /\ USD_MICRO \in Nat \ {0}
    /\ SOL_BASE \in Nat \ {0} /\ SPL_BASE \in Nat \ {0}

ASSUME WidthAssumption ==
    /\ U16MAX \in Nat /\ U32MAX \in Nat \ {0} /\ U64MAX \in Nat
    /\ BPS_DENOMINATOR <= U16MAX /\ U16MAX <= U64MAX
    /\ USD_MICRO <= U64MAX

(***************************************************************************)
(* checked_mul and checked_add fail the instruction when the result does   *)
(* not fit; saturating_add and .min(u64::MAX) clip it. The 128-bit         *)
(* intermediates hold every product of two 64-bit operands.                *)
(***************************************************************************)
FitsU64(n) == n <= U64MAX

Saturate(n) == IF n <= U64MAX THEN n ELSE U64MAX

CeilDiv(n, d) == (n + (d - 1)) \div d

\* floor(amount * bps / 10_000): the share of a pool, and the floor split.
BpsOf(amount, bps) == (amount * bps) \div BPS_DENOMINATOR

----------------------------------------------------------------------------
\* A slip the properties must notice: rounding the charge down.
UsdCentsToBaseUnitsFloored(usd_cents, price, base) ==
    (usd_cents * CENT_MICRO * base) \div price

\* ceil(usd_cents * 10_000 * base / price): what the payer is charged. `price`
\* is micro-USD for `base` units, and a zero price is refused by the caller.
UsdCentsToBaseUnits(usd_cents, price, base) ==
    CeilDiv(usd_cents * CENT_MICRO * base, price)

\* A slip the properties must notice: dividing before multiplying.
SplUsdDividedFirst(units, price) == (units \div SPL_BASE) * price

\* Micro-USD an SPL payout is credited as: price is per SPL_BASE units.
SplUsd(units, price) == Saturate((units * price) \div SPL_BASE)

\* Micro-USD a SOL payout of a ranked game is credited as: price is taken to
\* be per lamport, and there is no division by SOL_BASE.
SolUsdOfRankedPayout(lamports, price) == Saturate(lamports * price)

\* A slip the properties must notice: the unit of the price is forgotten.
SolUsdUndivided(lamports, price) == Saturate(lamports * price)

\* Micro-USD a SOL reward from a protocol pool is credited as: price is per
\* SOL_BASE lamports.
SolUsd(lamports, price) == Saturate((lamports * price) \div SOL_BASE)

----------------------------------------------------------------------------
(***************************************************************************)
(* The price of an account, in micro-USD, is charged in whole cents; what  *)
(* is charged is split in two. The share may exceed a whole: the protocol  *)
(* part, truncated to 64 bits, can then exceed the total.                  *)
(***************************************************************************)
CentsOf(cost_usd_micro) == cost_usd_micro \div CENT_MICRO

FeeFloor(amount, bps) == BpsOf(amount, bps) % (U64MAX + 1)

\* A slip the properties must notice: both parts are rounded down.
SplitBothFloored(total, share) ==
    [dev |-> IF share <= BPS_DENOMINATOR THEN FeeFloor(total, BPS_DENOMINATOR - share) ELSE 0,
     protocol |-> FeeFloor(total, share)]

SplitProtocolFee(total, share) ==
    LET protocol == FeeFloor(total, share)
    IN  [dev |-> IF protocol < total THEN total - protocol ELSE 0,
         protocol |-> protocol]

----------------------------------------------------------------------------
(***************************************************************************)
(* The three parts of a ranked entry, in cents and then in base units. The *)
(* fee comes on top of the entry; the protocol keeps the rounding dust of  *)
(* the split.                                                              *)
(***************************************************************************)
RankedFee(entry_fee) == BpsOf(entry_fee, RANKED_FEE_BPS)

DevCut(entry_fee, dev_bps) == BpsOf(RankedFee(entry_fee), dev_bps)

\* A slip the properties must notice: both parts are rounded down.
ProtocolCutFloored(entry_fee, dev_bps) ==
    BpsOf(RankedFee(entry_fee), BPS_DENOMINATOR - dev_bps)

ProtocolCut(entry_fee, dev_bps) ==
    RankedFee(entry_fee) - DevCut(entry_fee, dev_bps)

\* No step of the 64-bit computation overflows.
EntryFits(entry_fee, dev_bps) ==
    /\ FitsU64(entry_fee * RANKED_FEE_BPS)
    /\ FitsU64(RankedFee(entry_fee) * dev_bps)
    /\ FitsU64(entry_fee + RankedFee(entry_fee))

EntryTokens(entry_fee, dev_bps, price, base) ==
    [net      |-> UsdCentsToBaseUnits(entry_fee, price, base),
     dev      |-> UsdCentsToBaseUnits(DevCut(entry_fee, dev_bps), price, base),
     protocol |-> UsdCentsToBaseUnits(ProtocolCut(entry_fee, dev_bps), price, base)]
=============================================================================
