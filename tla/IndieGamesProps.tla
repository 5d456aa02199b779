--------------------------- MODULE IndieGamesProps ---------------------------
(***************************************************************************)
(* What makes the composed program correct, over the instructions of all   *)
(* components, and the promise about titles' money that it implements.     *)
(***************************************************************************)
EXTENDS IndieGames, RankedGameProps

\* Values have their layouts, an existing title has an owner and a protocol
\* PDA, and an account in use is the one its address was derived for, in a
\* title that exists or in another open account that reads as a free title:
\* create_user_account only reads what it is given.
IndieTypeOK ==
    /\ TypeOK
    /\ protocols \in SUBSET Games
    /\ \A g \in Games : game[g].version # "Absent" =>
          g \in protocols /\ game[g].owner \in Wallets
    /\ \A u \in UserAccounts : user[u].is_initialized =>
          /\ user[u].owner = UserSeed[u].owner
          /\ user[u].game = UserSeed[u].game
          /\ \/ user[u].game \in Games /\ game[user[u].game].version # "Absent"
             \/ user[u].game \in FreeNames /\ user[user[u].game].is_initialized

----------------------------------------------------------------------------
(* Accounts. *)

RentOf(g) == CASE game[g].version = "Absent" -> 0
               [] game[g].version = "V1" -> RENT_GAME_V1
               [] game[g].version = "V2" -> RENT_GAME

\* No account the program keeps falls below the rent of its layout, however
\* it was opened, upgraded, paid out of and withdrawn from. (create_game,
\* upgrade_game_version, reward_native_sol, both withdrawals)
AccountsFunded ==
    /\ \A g \in Games : bal[GamePda(g)][SOL] >= RentOf(g)
    /\ \A g \in protocols : bal[GameProtocolPda(g)][SOL] >= RENT_EMPTY
    /\ \A u \in UserAccounts :
          user[u].is_initialized => bal[UserAccountPda(u)][SOL] >= RENT_USER


\* An account that was opened in what is no title gains nothing by it: it is
\* never in a ranked game, also not in one opened under the same account,
\* and the protocol never pays it. (join_ranked_game and reward_user_account
\* read the title to the last byte; create_user_account does not, though its
\* comment says "Validate that the provided game account is a valid game PDA")
OutsidersUnpaid ==
    \A u \in UserAccounts :
        user[u].is_initialized /\ user[u].game \notin Games =>
            /\ user[u].current_ranked_game = DefaultKey
            /\ user[u].total_ranked_games_played = 0
            /\ user[u].total_wins = 0
            /\ user[u].total_usd_rewards_micro = 0

\* The count of a title starts at zero, when it is created or upgraded.
FirstCount(g) ==
    IF GenesisGame[g].version = "V2" THEN GenesisGame[g].total_users ELSE 0

OpenedSince(g) ==
    {u \in UserAccounts : /\ user[u].is_initialized /\ user[u].game = g
                          /\ ~GenesisUser[u].is_initialized}

\* total_users is the number of accounts opened in the title, through changes
\* of terms and owner, re-creations and upgrades. (create_user_account reads
\* the game before it charges the payment and writes it back at the end)
UsersCounted ==
    \A g \in Games :
        game[g].total_users = FirstCount(g) + Cardinality(OpenedSince(g))

\* Who may take the revenue, what an account costs, how the money is split.
TermsOf(g) ==
    <<game[g].owner, game[g].game_cost,
      <<game[g].dev_fee_bps, game[g].game_to_protocol_share_bps>>>>

\* An instruction changes at most one of the terms of titles, and moves no
\* money when it does. A title that is created again or upgraded keeps all
\* of them. (create_game: "verify it's actually ours and owned by us before
\* proceeding to ensure ATAs, so this re-call path can't be abused")
TermsChangeAlone ==
    [][\A g \in Games, i \in 1..3 :
          game[g].version # "Absent" /\ TermsOf(g)'[i] # TermsOf(g)[i] =>
              /\ game'[g].version = game[g].version
              /\ \A k \in 1..3 : k # i => TermsOf(g)'[k] = TermsOf(g)[k]
              /\ UNCHANGED <<bal, ata, user>>]_indieVars

----------------------------------------------------------------------------
(* Sales. *)

OpensAccount(u) == ~user[u].is_initialized /\ user'[u].is_initialized

PoolGain(g, t) ==
    (bal'[GamePda(g)][t] - bal[GamePda(g)][t])
      + (bal'[GameProtocolPda(g)][t] - bal[GameProtocolPda(g)][t])

\* Worth at least `cents`, and not by a base unit more than rounding asks.
Covers(units, cents, t) ==
    /\ units * PriceFor(t) >= cents * CENT_MICRO * TokenBase(t)
    /\ (units - 1) * PriceFor(t) < cents * CENT_MICRO * TokenBase(t)

\* When the buyer names the title's own accounts, opening an account brings
\* the two pools of the title no less than the price of the moment, in whole
\* cents, in one token; rounding and splitting neither lose a unit nor, with
\* a share of at most the whole, charge one too many. (process_payment,
\* split_protocol_fee)
PurchaseCoversCost ==
    [][\A u \in UserAccounts, t \in PaymentToken :
          LET g == UserSeed[u].game
              price == CentsOf(game[g].game_cost)
          IN  g \in Games /\ CreateUserAccount(u, t, OwnPayees(g)) =>
                 /\ IF game[g].game_cost = 0 THEN PoolGain(g, t) = 0
                    ELSE PoolGain(g, t) * PriceFor(t) >= price * CENT_MICRO * TokenBase(t)
                 /\ game[g].game_cost # 0
                    /\ game[g].game_to_protocol_share_bps <= BPS_DENOMINATOR
                    => Covers(PoolGain(g, t), price, t)
                 /\ \A s \in PaymentToken \ {t} : PoolGain(g, s) = 0]_indieVars

\* Opening an account in a title that has a price brings its two pools that
\* price. (payment.rs on process_payment: "Charge `cost_usd_micro` (USD,
\* micro = 1e-6) from the payer, splitting it between the game PDA and the
\* protocol treasury")
PurchaseFillsPools ==
    [][\A u \in UserAccounts :
          LET g == UserSeed[u].game
          IN  OpensAccount(u) /\ g \in Games /\ game[g].game_cost > 0 =>
              \E t \in PaymentToken :
                 PoolGain(g, t) >= PriceInTokens(game[g].game_cost, t)]_indieVars

\* The protocol's share of what a title earns is never below its minimum.
\* (constants.rs: "Games can choose to pay more than this, but not less")
ShareAtLeastMinimum ==
    \A g \in Games : GameLoads(g) =>
        game[g].game_to_protocol_share_bps >= MIN_GAME_TO_PROTOCOL_SHARE_BPS

----------------------------------------------------------------------------
(* Rewards. *)

Arrived(u) ==
    [t \in PaymentToken |-> bal'[UserAccountPda(u)][t] - bal[UserAccountPda(u)][t]]

\* The reserve of the account's title pays, and something arrives.
PaidByReserve(u) ==
    LET g == user[u].game
    IN  \E t \in PaymentToken :
          /\ g \in Games /\ bal'[GameProtocolPda(g)][t] < bal[GameProtocolPda(g)][t]
          /\ Arrived(u)[t] > 0

\* A reward from the protocol's pools is credited at its value at the prices
\* and units its accounts are sold at, in US dollars: no less, no more than
\* what arrived at the user account. (reward_from_protocol_pool and
\* reward_native_sol against usd_cents_to_base_units)
RewardCreditExact ==
    [][\A u \in UserAccounts :
          LET credit == user'[u].total_usd_rewards_micro - user[u].total_usd_rewards_micro
          IN  /\ user[u].is_initialized
              /\ user'[u].total_wins = user[u].total_wins
              /\ credit # 0 \/ PaidByReserve(u)
              => /\ \A t \in PaymentToken : Arrived(u)[t] >= 0
                 /\ credit = Saturate(ValueOf(Arrived(u)))]_indieVars

\* A title of the old layout can be upgraded by an authority that can pay the
\* rent of the new one. (instruction.rs, UpgradeGameStateVersion: "we can
\* maintain backwards compatibility and not break existing games")
GamesUpgradable ==
    \A g \in Games :
        game[g].version = "V1" /\ bal[Treasury][SOL] >= RENT_GAME =>
            ENABLED UpgradeGameVersion(g)

----------------------------------------------------------------------------
(***************************************************************************)
(* The program implements Vaults: the vaults are the game PDAs, the        *)
(* protocol PDAs, which are the reserves, and the user accounts, each with *)
(* what it holds above its rent.                                           *)
(***************************************************************************)
VaultHolder ==
    ({"igp_game"} \X Games) \cup ({"igp_game_protocol"} \X Games)
      \cup ({"igp_user"} \X UserAccounts)

FloorOf(h) == CASE h[1] = "igp_game" -> RENT_GAME
                [] h[1] = "igp_game_protocol" -> RENT_EMPTY
                [] h[1] = "igp_user" -> RENT_USER

VaultOf(h) == [t \in PaymentToken |-> Withdrawable(h, FloorOf(h), t)]

HomeOf(u) == <<UserAccountPda(u), GameProtocolPda(UserSeed[u].game)>>

Vault == INSTANCE Vaults WITH
    Vault <- VaultHolder, Asset <- PaymentToken, Native <- SOL,
    Reserve <- {"igp_game_protocol"} \X Games,
    Home <- {HomeOf(u) : u \in {v \in UserAccounts : UserSeed[v].game \in Games}},
    held <- [h \in VaultHolder |-> VaultOf(h)]

\* Every instruction is a step of Vaults or leaves it alone, whomever sales
\* are paid to and withdrawals sent to: reserves are only awarded, within the
\* title and to the last unit; a withdrawal takes all of one vault and
\* nothing of another. (game.rs, user_account.rs, ranked_game.rs)
ImplementsVaults == Vault!VaultSpec
=============================================================================
