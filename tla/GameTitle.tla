------------------------------ MODULE GameTitle ------------------------------
(***************************************************************************)
(* Game titles. A title has two accounts: the game PDA, with the title's   *)
(* terms, which collects the developer's revenue, and the protocol PDA,    *)
(* without data, which collects the protocol's. Both hold SOL above their  *)
(* rent and three token accounts. The owner changes the terms and takes    *)
(* the developer's revenue; the protocol's is handed out as rewards to     *)
(* user accounts of the title, by whoever names the authority's key:       *)
(* reward_user_account does not ask for its signature.                     *)
(***************************************************************************)
EXTENDS Payment

CONSTANTS
    MIN_GAME_TO_PROTOCOL_SHARE_BPS,  \* 1_000
    Offers,     \* the terms CreateGame is given
    FeeShares,  \* the pairs UpdateFeeShare is given
    GameCosts,  \* the costs UpdateGameCost is given, micro-USD
    PoolBps,    \* the percentages RewardUserAccount is given
    Destinations  \* bound: whose accounts clients have tokens sent to

ASSUME ShareAssumption == MIN_GAME_TO_PROTOCOL_SHARE_BPS \in 0..BPS_DENOMINATOR

ASSUME TitleInputAssumption ==
    /\ Offers \subseteq [dev_fee_bps : 0..U16MAX, game_cost : 0..U64MAX,
                         game_to_protocol_share_bps : 0..U16MAX]
    /\ FeeShares \subseteq [dev_fee_bps : 0..U16MAX,
                            game_to_protocol_share_bps : 0..U16MAX]
    /\ GameCosts \subseteq 0..U64MAX /\ PoolBps \subseteq 0..U16MAX
    /\ Destinations \subseteq Holder

VARIABLE protocols  \* the titles whose protocol PDA belongs to the program

\* validate_dev_fee_bps looks at the developer's fee only.
ValidFees(fees) ==
    fees.dev_fee_bps \in MIN_GAME_TO_PROTOCOL_SHARE_BPS..BPS_DENOMINATOR

----------------------------------------------------------------------------
(* CREATE: opens what is missing of the title's accounts *)

\* Lamports an address already holds count towards its rent.
TopUp(h, floor) == IF bal[h][SOL] < floor THEN floor - bal[h][SOL] ELSE 0

ProtocolTopUp(g) ==
    IF g \in protocols THEN 0 ELSE TopUp(GameProtocolPda(g), RENT_EMPTY)

GameTopUp(g) ==
    IF game[g].version = "Absent" THEN TopUp(GamePda(g), RENT_GAME) ELSE 0

\* The game's token accounts are ensured on every call, the protocol's only
\* when its PDA is created.
TitleAtas(g) ==
    ({GamePda(g)} \X MissingAtas(GamePda(g), Mints))
      \cup IF g \in protocols THEN {}
           ELSE {GameProtocolPda(g)} \X MissingAtas(GameProtocolPda(g), Mints)

\* A slip the properties must notice: an existing title is written again.
RegisteredAgain(w, g, offer) ==
    [game EXCEPT ![g] = [version |-> "V2", owner |-> w,
                         dev_fee_bps |-> offer.dev_fee_bps,
                         game_to_protocol_share_bps |-> offer.game_to_protocol_share_bps,
                         game_cost |-> offer.game_cost,
                         total_users |-> game[g].total_users]]

Registered(w, g, offer) ==
    IF game[g].version # "Absent" THEN game
    ELSE [game EXCEPT ![g] =
            [version |-> "V2", owner |-> w, dev_fee_bps |-> offer.dev_fee_bps,
             game_to_protocol_share_bps |-> offer.game_to_protocol_share_bps,
             game_cost |-> offer.game_cost, total_users |-> 0]]

CreateGame(w, g, offer) ==
    LET due == ProtocolTopUp(g) + GameTopUp(g) + RENT_ATA * Cardinality(TitleAtas(g))
    IN  /\ ValidFees(offer)
        /\ game[g].version # "V1"
        /\ bal[WalletOf(w)][SOL] >= due
        /\ bal' = [bal EXCEPT ![WalletOf(w)][SOL] = @ - due,
                              ![GameProtocolPda(g)][SOL] = @ + ProtocolTopUp(g),
                              ![GamePda(g)][SOL] = @ + GameTopUp(g)]
        /\ ata' = ata \cup TitleAtas(g)
        /\ protocols' = protocols \cup {g}
        /\ game' = Registered(w, g, offer)
        /\ UNCHANGED <<oracle, user, ranked>>

----------------------------------------------------------------------------
(* TERMS: the owner of the moment may change them at any time *)

OwnedBy(g, w) == GameLoads(g) /\ game[g].owner = w

UpdateFeeShare(w, g, fees) ==
    /\ OwnedBy(g, w)
    /\ ValidFees(fees)
    /\ game' = [game EXCEPT
                  ![g].dev_fee_bps = fees.dev_fee_bps,
                  ![g].game_to_protocol_share_bps = fees.game_to_protocol_share_bps]
    /\ UNCHANGED <<oracle, user, ranked, bal, ata, protocols>>

UpdateGameCost(w, g, cost) ==
    /\ OwnedBy(g, w)
    /\ game' = [game EXCEPT ![g].game_cost = cost]
    /\ UNCHANGED <<oracle, user, ranked, bal, ata, protocols>>

TransferGameOwnership(w, g, new_owner) ==
    /\ OwnedBy(g, w)
    /\ game' = [game EXCEPT ![g].owner = new_owner]
    /\ UNCHANGED <<oracle, user, ranked, bal, ata, protocols>>

----------------------------------------------------------------------------
(* UPGRADE: a V1 account grows, at the authority's cost *)

\* The unchecked subtraction wraps when the account holds more than the new
\* minimum; no wallet holds the lamports that are then asked for.
GrowthPayable(g) ==
    /\ bal[GamePda(g)][SOL] <= RENT_GAME
    /\ bal[WalletOf(AUTHORITY)][SOL] >= RENT_GAME - bal[GamePda(g)][SOL]

\* A slip the properties must notice: the counter survives as the cost.
UpgradedShifted(g) ==
    [game EXCEPT ![g].version = "V2", ![g].game_cost = 0, ![g].total_users = 1]

Upgraded(g) ==
    [game EXCEPT ![g].version = "V2", ![g].game_cost = 0, ![g].total_users = 0]

UpgradeGameVersion(g) ==
    /\ game[g].version = "V1"
    /\ GrowthPayable(g)
    /\ bal' = [bal EXCEPT ![WalletOf(AUTHORITY)][SOL] = @ - (RENT_GAME - bal[GamePda(g)][SOL]),
                          ![GamePda(g)][SOL] = RENT_GAME]
    /\ game' = Upgraded(g)
    /\ UNCHANGED <<oracle, user, ranked, ata, protocols>>

----------------------------------------------------------------------------
(* REVENUE *)

\* dst[m]: the owner of the token account given for m, which nothing checks.
DeveloperWithdraw(w, g, dst) ==
    /\ OwnedBy(g, w)
    /\ CanDrainTo(GamePda(g), dst)
    /\ bal' = Drained(GamePda(g), RENT_GAME, Directed(w, dst))
    /\ UNCHANGED <<oracle, game, user, ranked, ata, protocols>>

ProtocolPool(g, t) == Withdrawable(GameProtocolPda(g), RENT_EMPTY, t)

PoolShare(g, bps) == [t \in PaymentToken |-> BpsOf(ProtocolPool(g, t), bps)]


\* Nothing in the program opens the token accounts of a user account.
Receives(u, paid) == \A m \in Mints : paid[m] > 0 => CanHold(UserAccountPda(u), m)

\* A slip the properties must notice: what is rewarded is not taken.
RewardMinted(g, u, paid) ==
    [bal EXCEPT ![UserAccountPda(u)] = [t \in PaymentToken |-> @[t] + paid[t]]]

RewardMoved(g, u, paid) ==
    [bal EXCEPT ![GameProtocolPda(g)] = [t \in PaymentToken |-> @[t] - paid[t]],
                ![UserAccountPda(u)] = [t \in PaymentToken |-> @[t] + paid[t]]]

RewardUsd(paid) ==
    Saturate(SplUsd(paid[USDC], PriceFor(USDC)) + SplUsd(paid[SKR], PriceFor(SKR))
               + SplUsd(paid[SLICE], PriceFor(SLICE)) + SolUsd(paid[SOL], PriceFor(SOL)))

\* All that RewardUserAccount asks for: with it, the instruction succeeds.
Awardable(u, percentage_of_the_pool) ==
    LET g == user[u].game
        paid == PoolShare(g, percentage_of_the_pool)
    IN  /\ percentage_of_the_pool <= BPS_DENOMINATOR
        /\ user[u].is_initialized
        /\ GameLoads(g)
        /\ g \in protocols
        /\ OracleLoads
        /\ Receives(u, paid)
        /\ FitsU64(user[u].total_usd_rewards_micro + RewardUsd(paid))

RewardUserAccount(u, percentage_of_the_pool) ==
    LET g == user[u].game
        paid == PoolShare(g, percentage_of_the_pool)
    IN  /\ Awardable(u, percentage_of_the_pool)
        /\ bal' = RewardMoved(g, u, paid)
        /\ user' = [user EXCEPT ![u].total_usd_rewards_micro = @ + RewardUsd(paid)]
        /\ UNCHANGED <<oracle, game, ranked, ata, protocols>>

----------------------------------------------------------------------------
TitleNext ==
    \/ \E g \in Games, w \in Wallets :
          \/ \E offer \in Offers : CreateGame(w, g, offer)
          \/ \E fees \in FeeShares : UpdateFeeShare(w, g, fees)
          \/ \E cost \in GameCosts : UpdateGameCost(w, g, cost)
          \/ \E new_owner \in Wallets : TransferGameOwnership(w, g, new_owner)
          \/ \E dst \in [Mints -> Destinations] : DeveloperWithdraw(w, g, dst)
    \/ \E g \in Games : UpgradeGameVersion(g)
    \/ \E u \in UserAccounts, bps \in PoolBps : RewardUserAccount(u, bps)
=============================================================================
