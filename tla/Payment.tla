------------------------------ MODULE Payment ------------------------------
(***************************************************************************)
(* Charging a player for a ranked entry: the net entry goes to the ranked  *)
(* game's escrow, the fee on top of it to the game and to the protocol.    *)
(***************************************************************************)
EXTENDS Oracle

\* The three transfers go through: the accounts they credit exist (the net
\* transfer runs even when it moves nothing) and the payer has the sum.
PaymentGoesThrough(payer, r, g, t, due) ==
    /\ CanHold(WalletOf(payer), t)
    /\ CanHold(RankedGamePda(r), t)
    /\ due.dev > 0 => CanHold(GamePda(g), t)
    /\ due.protocol > 0 => CanHold(GameProtocolPda(g), t)
    /\ bal[WalletOf(payer)][t] >= due.net + due.dev + due.protocol

\* A slip the properties must notice: the protocol's cut is debited twice.
PaidEntryDebitedTwice(payer, r, g, t, due) ==
    [bal EXCEPT ![WalletOf(payer)][t] = @ - (due.net + due.dev + 2 * due.protocol),
                ![RankedGamePda(r)][t] = @ + due.net,
                ![GamePda(g)][t] = @ + due.dev,
                ![GameProtocolPda(g)][t] = @ + due.protocol]

\* The ledger after the transfers.
PaidEntry(payer, r, g, t, due) ==
    [bal EXCEPT ![WalletOf(payer)][t] = @ - (due.net + due.dev + due.protocol),
                ![RankedGamePda(r)][t] = @ + due.net,
                ![GamePda(g)][t] = @ + due.dev,
                ![GameProtocolPda(g)][t] = @ + due.protocol]

ProcessRankedEntryPayment(payer, r, g, entry_fee, dev_bps, share_bps, t) ==
    LET due == EntryTokens(entry_fee, dev_bps, PriceFor(t), TokenBase(t))
    IN  /\ dev_bps + share_bps = BPS_DENOMINATOR
        /\ EntryFits(entry_fee, dev_bps)
        /\ OracleLoads
        /\ PriceFor(t) # 0
        /\ FitsU64(due.net) /\ FitsU64(due.dev) /\ FitsU64(due.protocol)
        /\ PaymentGoesThrough(payer, r, g, t, due)
        /\ bal' = PaidEntry(payer, r, g, t, due)
        /\ UNCHANGED ata
=============================================================================
