----------------------------- MODULE RankedGame -----------------------------
(***************************************************************************)
(* A ranked game: the authority opens it with an escrow (its PDA for SOL   *)
(* and one ATA per SPL mint), players pay an entry into the escrow, and    *)
(* once it is Finished the authority pays winners a share of every pool.   *)
(* Closing it, in any state, sweeps what is left to the authority.         *)
(*                                                                         *)
(* Games and user accounts are given (their own instructions are another   *)
(* component); the oracle is written concurrently. A ranked game can be    *)
(* opened under a user account, too, which reads as a title (GameReads);   *)
(* nobody can join it.                                                     *)
(***************************************************************************)
EXTENDS Payment

CONSTANTS
    GenesisGame, GenesisUser,  \* the game and user accounts there are
    GenesisBal, GenesisAta,    \* what everyone holds before the first game
    ParentGames,               \* bound: the titles CreateRankedGame is given
    EntryFees,                 \* entry fees CreateRankedGame is given, cents
    PayoutBps,                 \* payout_bps inputs of RewardWinner
    UniqueIds,                 \* the authority never reuses a ranked_game_id
    CpiBalanceCheck            \* the runtime compares the lamports of an
                               \* instruction's accounts before every CPI

ASSUME InputAssumption ==
    /\ ParentGames \subseteq GameKeys
    /\ EntryFees \subseteq 0..U64MAX /\ PayoutBps \subseteq 0..U16MAX
    /\ UniqueIds \in BOOLEAN /\ CpiBalanceCheck \in BOOLEAN

\* User accounts are as create_user_account leaves them; no escrow is open
\* and none has a token account, so none holds tokens.
ASSUME GenesisAssumption ==
    /\ GenesisGame \in [Games -> GameAccount]
    /\ GenesisUser \in [UserAccounts -> UserAccount]
    /\ \A u \in UserAccounts :
          /\ GenesisUser[u].current_ranked_game = DefaultKey
          /\ GenesisUser[u].total_wins = 0
          /\ GenesisUser[u].is_initialized =>
                GenesisUser[u].owner \in Wallets /\ GenesisUser[u].game \in GameKeys
    /\ GenesisBal \in [Holder -> [PaymentToken -> Nat]]
    /\ GenesisAta \in SUBSET (Holder \X Mints)
    /\ \A r \in RankedGames, m \in Mints :
          /\ GenesisBal[RankedGamePda(r)][m] = 0
          /\ <<RankedGamePda(r), m>> \notin GenesisAta

(***************************************************************************)
(* Two history variables, which no guard of the code reads.                *)
(***************************************************************************)
VARIABLES
    usedIds,  \* the ids a ranked game was ever created with
    entered   \* entered[r]: who paid an entry in the current life of r

vars == <<oracle, game, user, ranked, bal, ata, usedIds, entered>>

Escrow(r) == RankedGamePda(r)
Treasury == WalletOf(AUTHORITY)
Exists(r) == ranked[r].status # "Absent"

----------------------------------------------------------------------------
(* CREATE *)

\* What the authority pays to open the escrow; ATAs that exist are skipped.
EscrowRent(r) ==
    RENT_RANKED + RENT_ATA * Cardinality(MissingAtas(Escrow(r), Mints))

OpenedAtas(r) == ata \cup ({Escrow(r)} \X Mints)

CreateRankedGame(r, g, entry_fee) ==
    /\ UniqueIds => r \notin usedIds
    /\ ~Exists(r)
    /\ GameReads(g)
    /\ bal[Escrow(r)][SOL] = 0
    /\ bal[Treasury][SOL] >= EscrowRent(r)
    /\ bal' = [bal EXCEPT ![Treasury][SOL] = @ - EscrowRent(r),
                          ![Escrow(r)][SOL] = @ + RENT_RANKED]
    /\ ata' = OpenedAtas(r)
    /\ ranked' = [ranked EXCEPT ![r] =
                    [game |-> g, entry_fee |-> entry_fee,
                     participant_count |-> 0, status |-> "Open"]]
    /\ usedIds' = usedIds \cup {r}
    /\ entered' = [entered EXCEPT ![r] = {}]
    /\ UNCHANGED <<oracle, game, user>>

----------------------------------------------------------------------------
(* JOIN *)

\* A slip the properties must notice: an account of any title may join.
JoinableFromAnyTitle(u, r) ==
    /\ ranked[r].status = "Open"
    /\ GameLoads(ranked[r].game)
    /\ user[u].is_initialized
    /\ user[u].current_ranked_game # r

Joinable(u, r) ==
    /\ ranked[r].status = "Open"
    /\ GameLoads(ranked[r].game)
    /\ user[u].is_initialized
    /\ user[u].game = ranked[r].game
    /\ user[u].current_ranked_game # r

\* A slip the properties must notice: the player's counter stays.
EnrolledUncounted(u, r) == [user EXCEPT ![u].current_ranked_game = r]

Enrolled(u, r) ==
    [user EXCEPT ![u].current_ranked_game = r,
                 ![u].total_ranked_games_played = @ + 1]

\* A slip the properties must notice: the participants are not counted.
NotCounted(r) == ranked

Counted(r) == [ranked EXCEPT ![r].participant_count = @ + 1]

JoinRankedGame(u, r, t) ==
    LET g == ranked[r].game
        protocol_share == game[g].game_to_protocol_share_bps
    IN  /\ Joinable(u, r)
        /\ protocol_share <= BPS_DENOMINATOR
        /\ ProcessRankedEntryPayment(user[u].owner, r, g, ranked[r].entry_fee,
              BPS_DENOMINATOR - protocol_share, protocol_share, t)
        /\ ranked[r].participant_count < U32MAX
        /\ ranked' = Counted(r)
        /\ user[u].total_ranked_games_played < U32MAX
        /\ user' = Enrolled(u, r)
        /\ entered' = [entered EXCEPT ![r] = @ \cup {u}]
        /\ UNCHANGED <<oracle, game, usedIds>>

----------------------------------------------------------------------------
(* STATUS: any status may follow any other *)

UpdateRankedGameStatus(r, new_status) ==
    /\ Exists(r)
    /\ ranked' = [ranked EXCEPT ![r].status = new_status]
    /\ UNCHANGED <<oracle, game, user, bal, ata, usedIds, entered>>

----------------------------------------------------------------------------
(* REWARD *)

\* Lamports above the rent of the PDA; the balance of an escrow ATA.
SolPool(r) ==
    IF bal[Escrow(r)][SOL] > RENT_RANKED
    THEN bal[Escrow(r)][SOL] - RENT_RANKED ELSE 0

SplPool(r, m) == IF <<Escrow(r), m>> \in ata THEN bal[Escrow(r)][m] ELSE 0

\* A slip the properties must notice: the rent is paid out as well.
PayoutWithRent(r, bps) ==
    [t \in PaymentToken |-> BpsOf(bal[Escrow(r)][t], bps)]

Payout(r, bps) ==
    [t \in PaymentToken |-> BpsOf(IF t = SOL THEN SolPool(r) ELSE SplPool(r, t), bps)]

\* pay_sol_pool moves lamports itself; a later CPI then fails the comparison.
LamportsSettledBeforeCpi(paid) ==
    CpiBalanceCheck => paid[SOL] = 0 \/ \A m \in Mints : paid[m] = 0

\* The winner's ATAs the authority opens: those of the pools that pay.
WinnerAtas(w, paid) == {m \in MissingAtas(WalletOf(w), Mints) : paid[m] > 0}

\* A slip the properties must notice: the winner is credited the whole pool.
PaidOutTwice(r, w, paid) ==
    [bal EXCEPT ![Escrow(r)] = [t \in PaymentToken |-> @[t] - paid[t]],
                ![WalletOf(w)] = [t \in PaymentToken |-> @[t] + 2 * paid[t]]]

PaidOut(r, w, paid) ==
    [bal EXCEPT ![Escrow(r)] = [t \in PaymentToken |-> @[t] - paid[t]],
                ![WalletOf(w)] = [t \in PaymentToken |-> @[t] + paid[t]]]

\* The authority then pays the rent of the winner's new ATAs; it may itself be
\* the winner.
RewardSettled(r, w, paid, rent) ==
    [PaidOut(r, w, paid) EXCEPT ![Treasury][SOL] = @ - rent]

\* A slip the properties must notice: two pools are valued at one price.
PayoutUsdAtOnePrice(paid) ==
    Saturate(SolUsdOfRankedPayout(paid[SOL], PriceFor(SOL))
               + SplUsd(paid[USDC], PriceFor(USDC))
               + SplUsd(paid[SKR], PriceFor(SKR))
               + SplUsd(paid[SLICE], PriceFor(SKR)))

\* The saturating sum over the four pools, at the oracle's current prices.
PayoutUsd(paid) ==
    Saturate(SolUsdOfRankedPayout(paid[SOL], PriceFor(SOL))
               + SplUsd(paid[USDC], PriceFor(USDC))
               + SplUsd(paid[SKR], PriceFor(SKR))
               + SplUsd(paid[SLICE], PriceFor(SLICE)))

\* A slip the properties must notice: the winner stays enrolled.
RewardedStillEnrolled(u, usd) ==
    [user EXCEPT ![u].total_usd_rewards_micro = @ + usd, ![u].total_wins = @ + 1]

Rewarded(u, usd) ==
    [user EXCEPT ![u].total_usd_rewards_micro = @ + usd,
                 ![u].total_wins = @ + 1,
                 ![u].current_ranked_game = DefaultKey]

\* A slip the properties must notice: the match need not be over.
RewardableInAnyStatus(u, r) ==
    Exists(r) /\ user[u].is_initialized /\ user[u].current_ranked_game = r

\* A slip the properties must notice: nobody checks who takes part.
RewardableUnenrolled(u, r) ==
    ranked[r].status = "Finished" /\ user[u].is_initialized

Rewardable(u, r) ==
    /\ ranked[r].status = "Finished"
    /\ user[u].is_initialized
    /\ user[u].current_ranked_game = r

\* The rent of the winner's new ATAs.
WinnerRent(w, paid) == RENT_ATA * Cardinality(WinnerAtas(w, paid))

\* All that RewardWinner asks for: with it, the instruction succeeds.
Payable(u, r, payout_bps) ==
    LET winner == user[u].owner
        paid == Payout(r, payout_bps)
    IN  /\ payout_bps <= BPS_DENOMINATOR
        /\ Rewardable(u, r)
        /\ OracleLoads
        /\ LamportsSettledBeforeCpi(paid)
        /\ PaidOut(r, winner, paid)[Treasury][SOL] >= WinnerRent(winner, paid)
        /\ FitsU64(user[u].total_usd_rewards_micro + PayoutUsd(paid))
        /\ user[u].total_wins < U32MAX

RewardWinner(u, r, payout_bps) ==
    LET winner == user[u].owner
        paid == Payout(r, payout_bps)
    IN  /\ Payable(u, r, payout_bps)
        /\ bal' = RewardSettled(r, winner, paid, WinnerRent(winner, paid))
        /\ ata' = ata \cup ({WalletOf(winner)} \X WinnerAtas(winner, paid))
        /\ user' = Rewarded(u, PayoutUsd(paid))
        /\ UNCHANGED <<oracle, game, ranked, usedIds, entered>>

----------------------------------------------------------------------------
(* CLOSE *)

\* A slip the properties must notice: a balance is not swept, it blocks.
SweepableOnlyEmpty(r) == \A m \in OpenAtas(Escrow(r)) : bal[Escrow(r)][m] = 0

\* Every pool that is not empty has an ATA of the authority to go to.
Sweepable(r) ==
    \A m \in OpenAtas(Escrow(r)) : bal[Escrow(r)][m] > 0 => CanHold(Treasury, m)

Swept(r) ==
    LET rent == RENT_ATA * Cardinality(OpenAtas(Escrow(r)))
    IN  [bal EXCEPT ![Treasury] = [t \in PaymentToken |->
                        @[t] + bal[Escrow(r)][t] + IF t = SOL THEN rent ELSE 0],
                    ![Escrow(r)] = NoTokens]

\* All that CloseRankedGame asks for.
Closable(r) == Exists(r) /\ Sweepable(r)

CloseRankedGame(r) ==
    /\ Closable(r)
    /\ bal' = Swept(r)
    /\ ata' = ata \ ({Escrow(r)} \X Mints)
    /\ ranked' = [ranked EXCEPT ![r] = NoRankedGame]
    /\ UNCHANGED <<oracle, game, user, usedIds, entered>>

----------------------------------------------------------------------------
Init ==
    /\ OracleInit
    /\ game = GenesisGame
    /\ user = GenesisUser
    /\ ranked = [r \in RankedGames |-> NoRankedGame]
    /\ bal = GenesisBal
    /\ ata = GenesisAta
    /\ usedIds = {}
    /\ entered = [r \in RankedGames |-> {}]

OracleStep == OracleNext /\ UNCHANGED <<usedIds, entered>>

Next ==
    \/ OracleStep
    \/ \E r \in RankedGames :
          \/ \E g \in ParentGames, fee \in EntryFees : CreateRankedGame(r, g, fee)
          \/ \E u \in UserAccounts, t \in PaymentToken : JoinRankedGame(u, r, t)
          \/ \E s \in RankedGameStatus : UpdateRankedGameStatus(r, s)
          \/ \E u \in UserAccounts, bps \in PayoutBps : RewardWinner(u, r, bps)
          \/ CloseRankedGame(r)

\* No fairness: every instruction is sent by a client when it chooses to.
Spec == Init /\ [][Next]_vars
=============================================================================
