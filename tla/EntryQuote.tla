----------------------------- MODULE EntryQuote -----------------------------
(***************************************************************************)
(* One ranked entry priced at one oracle reading: the cents due are split  *)
(* in three, each part is converted to base units on its own and rounded   *)
(* up, and the pool of net entries is later valued back in micro-USD. Any  *)
(* entry fee, fee share and price may meet; what does not fit is refused.  *)
(***************************************************************************)
EXTENDS IgpMath

CONSTANTS MAX_CENTS, MAX_PRICE  \* bounds of the quotes looked at

ASSUME BoundAssumption == MAX_CENTS \in Nat /\ MAX_PRICE \in Nat

VARIABLES
    quote,    \* the entry fee, the developer's share of the fee and the price
    outcome,  \* "pending", "charged" or "refused"
    charge    \* base units asked for once charged

quoteVars == <<quote, outcome, charge>>

Quote == [entry_fee : 0..MAX_CENTS, dev_bps : 0..BPS_DENOMINATOR, price : 0..MAX_PRICE]

Due(q) == EntryTokens(q.entry_fee, q.dev_bps, q.price, SPL_BASE)

\* The conversions of an SPL entry succeed.
Accepted(q) ==
    /\ EntryFits(q.entry_fee, q.dev_bps)
    /\ q.price # 0
    /\ FitsU64(Due(q).net) /\ FitsU64(Due(q).dev) /\ FitsU64(Due(q).protocol)

Charge ==
    /\ outcome = "pending"
    /\ Accepted(quote)
    /\ outcome' = "charged"
    /\ charge' = Due(quote)
    /\ UNCHANGED quote

Refuse ==
    /\ outcome = "pending"
    /\ ~Accepted(quote)
    /\ outcome' = "refused"
    /\ UNCHANGED <<quote, charge>>

QuoteInit ==
    /\ quote \in Quote
    /\ outcome = "pending"
    /\ charge = [net |-> 0, dev |-> 0, protocol |-> 0]

QuoteNext == Charge \/ Refuse
QuoteSpec == QuoteInit /\ [][QuoteNext]_quoteVars

----------------------------------------------------------------------------
Charged == outcome = "charged"
FeeOf(q) == RankedFee(q.entry_fee)
Micro(cents) == cents * CENT_MICRO

\* The three rounded parts together are worth the entry and its fee, and
\* exceed them by less than three base units: rounding each part up neither
\* undercharges nor accumulates. (process_ranked_entry_payment)
ChargeCoversDue ==
    Charged =>
        LET units == charge.net + charge.dev + charge.protocol
            due == Micro(quote.entry_fee + FeeOf(quote)) * SPL_BASE
        IN  /\ units * quote.price >= due
            /\ (units - 3) * quote.price < due

\* An entry paid out in full at the price it was charged at is credited to
\* the winner as at least the entry fee, up to the width of the counter.
\* (usd_cents_to_base_units against pay_spl_pool)
NetEntryRedeems ==
    Charged => SplUsd(charge.net, quote.price) >= Saturate(Micro(quote.entry_fee))

\* The protocol is never shorted by the split: its cut is at least its share
\* of the fee, and exceeds it by less than a cent. ("Rounding dust goes to
\* protocol" in process_ranked_entry_payment)
DustGoesToProtocol ==
    LET share == BPS_DENOMINATOR - quote.dev_bps
        cut == ProtocolCut(quote.entry_fee, quote.dev_bps)
    IN  /\ cut * BPS_DENOMINATOR >= FeeOf(quote) * share
        /\ (cut - 1) * BPS_DENOMINATOR < FeeOf(quote) * share
=============================================================================
