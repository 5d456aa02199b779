--------------------------- MODULE RankedGameProps ---------------------------
(***************************************************************************)
(* What makes ranked games correct, and the promise they implement.        *)
(***************************************************************************)
EXTENDS RankedGame, Supply

\* Every account holds values of its layout, every balance is a natural, and
\* accounts in use refer to a wallet and to what was read as a game.
TypeOK ==
    /\ AccountsTypeOK
    /\ \A u \in UserAccounts : user[u].is_initialized =>
          user[u].owner \in Wallets /\ user[u].game \in GameKeys
    /\ \A r \in RankedGames : Exists(r) => ranked[r].game \in GameKeys
    /\ usedIds \in SUBSET RankedGames
    /\ entered \in [RankedGames -> SUBSET UserAccounts]

----------------------------------------------------------------------------
(* Money. *)

\* No sequence of instructions, of whichever components, creates or destroys a
\* unit of any token, whoever pays whom, also when payer and payee are one:
\* what the holders own, with the SOL locked as rent in token accounts, is
\* what the first state had. (payment.rs, ranked_game.rs, game.rs and
\* user_account.rs, every transfer)
Conservation ==
    \A t \in PaymentToken : SupplyOf(bal, ata, t) = SupplyOf(GenesisBal, GenesisAta, t)

\* The escrow of a live ranked game keeps its rent whatever is paid out of it,
\* and its three ATAs, so that it can be joined and closed; after a close
\* no tokens are left behind at its addresses, for the next game of the id.
\* (create_ranked_game, pay_sol_pool, close_ranked_game)
EscrowAccounted ==
    \A r \in RankedGames :
        IF Exists(r)
        THEN /\ bal[Escrow(r)][SOL] >= RENT_RANKED
             /\ \A m \in Mints : <<Escrow(r), m>> \in ata
        ELSE \A m \in Mints : bal[Escrow(r)][m] = 0 /\ <<Escrow(r), m>> \notin ata

\* The pools of a ranked game shrink only once its status is Finished, or
\* when the authority closes it. (reward_winner, close_ranked_game)
EscrowHeldUntilFinished ==
    [][\A r \in RankedGames, t \in PaymentToken :
          bal'[Escrow(r)][t] < bal[Escrow(r)][t] =>
              ranked[r].status = "Finished" \/ ranked'[r].status = "Absent"]_vars

----------------------------------------------------------------------------
(* Players. *)

\* A player cannot win more ranked games than were paid for: over any
\* sequence of joins, moves to another game, id reuses and payouts. A
\* pending entry leaves room for the win it may become. (the counters
\* total_ranked_games_played and total_wins of UserAccount)
WinsBounded ==
    \A u \in UserAccounts :
        LET pending == IF user[u].current_ranked_game = DefaultKey THEN 0 ELSE 1
        IN  user[u].total_wins + pending <= user[u].total_ranked_games_played

\* Whoever a live ranked game counts as enrolled, and could reward, paid an
\* entry into this very game, under its parent game. (join_ranked_game
\* against the only enrolment test of reward_winner)
EnrolledArePayers ==
    \A u \in UserAccounts, r \in RankedGames :
        Exists(r) /\ user[u].current_ranked_game = r =>
            u \in entered[r] /\ user[u].game = ranked[r].game

\* participant_count never loses an entrant: nobody takes part, or has paid,
\* uncounted. (join_ranked_game)
EntrantsCounted ==
    \A r \in RankedGames :
        Exists(r) => Cardinality(entered[r]) <= ranked[r].participant_count

\* participant_count is the number of entrants: no account pays for, and is
\* counted in, the same ranked game twice. (join_ranked_game)
CountIsEntrants ==
    \A r \in RankedGames :
        Exists(r) => ranked[r].participant_count = Cardinality(entered[r])

\* An enrolled player of a Finished game, an authority that can open three
\* token accounts, a USD counter with room: what a full payout needs at most.
Owed(u, r) ==
    /\ Rewardable(u, r)
    /\ bal[Treasury][SOL] >= 3 * RENT_ATA
    /\ FitsU64(user[u].total_usd_rewards_micro + PayoutUsd(Payout(r, BPS_DENOMINATOR)))

\* An entrant that is owed the pools can be paid all of them: the oracle is
\* there, the win still fits its counter, no CPI refuses. (reward_winner:
\* payout_bps is the "percent of each pool to pay the winner")
WinnerPayable ==
    \A u \in UserAccounts, r \in RankedGames :
        Owed(u, r) => Payable(u, r, BPS_DENOMINATOR)

\* The same for a game whose entries were all paid in SOL, or none of them.
UnmixedWinnerPayable ==
    \A u \in UserAccounts, r \in RankedGames :
        /\ Owed(u, r)
        /\ SolPool(r) = 0 \/ \A m \in Mints : SplPool(r, m) = 0
        => Payable(u, r, BPS_DENOMINATOR)

\* The authority can close a ranked game in whatever state it is stuck, so
\* that no entry is locked up. (close_ranked_game)
FundsRecoverable == \A r \in RankedGames : Exists(r) => Closable(r)

----------------------------------------------------------------------------
(***************************************************************************)
(* The USD a winner is credited is not more than the value of what left    *)
(* the pools, in the unit that entries are charged in, micro-USD per whole *)
(* token, at the prices of the payout. (pay_sol_pool and pay_spl_pool      *)
(* against usd_cents_to_base_units; state/oracle.rs words the unit of all  *)
(* three prices as micro-USD per lamport or atom, which is another matter) *)
(***************************************************************************)
PaidFrom(r) == [t \in PaymentToken |-> bal[Escrow(r)][t] - bal'[Escrow(r)][t]]

ValueOf(paid) ==
    LET worth(t) == (paid[t] * PriceFor(t)) \div TokenBase(t)
    IN  worth(SOL) + worth(SKR) + worth(SLICE) + worth(USDC)

RewardCreditBacked ==
    [][\A u \in UserAccounts :
          user'[u].total_wins > user[u].total_wins =>
              user'[u].total_usd_rewards_micro - user[u].total_usd_rewards_micro
                 <= ValueOf(PaidFrom(user[u].current_ranked_game))]_vars

\* What is left to rely on when no SOL is paid: payouts and entries agree on
\* what tokens are worth, so that a winner of SPL tokens only is credited
\* exactly what left the pools in the unit that entries are charged in, each
\* token at its own price, clipped to the counter's width. (pay_spl_pool and
\* the saturating sum of reward_winner against usd_cents_to_base_units)
TokenPayoutExact ==
    [][\A u \in UserAccounts :
          LET paid == PaidFrom(user[u].current_ranked_game)
          IN  user'[u].total_wins > user[u].total_wins /\ paid[SOL] = 0 =>
                 user'[u].total_usd_rewards_micro - user[u].total_usd_rewards_micro
                    = Saturate(ValueOf(paid))]_vars

----------------------------------------------------------------------------
(***************************************************************************)
(* Ranked games implement PrizePot: the pot is what the escrow holds above *)
(* its rent, the entrants are the users that point at a live game.         *)
(***************************************************************************)
PotOf(r) ==
    [t \in PaymentToken |->
        IF ~Exists(r) THEN 0
        ELSE IF t = SOL THEN bal[Escrow(r)][t] - RENT_RANKED ELSE bal[Escrow(r)][t]]

EntrantsOf(r) ==
    {u \in UserAccounts : Exists(r) /\ user[u].current_ranked_game = r}

Pot == INSTANCE PrizePot WITH
    Match <- RankedGames, Player <- UserAccounts, Asset <- PaymentToken,
    phase <- [r \in RankedGames |-> ranked[r].status],
    pot <- [r \in RankedGames |-> PotOf(r)],
    entrants <- [r \in RankedGames |-> EntrantsOf(r)]

\* As long as ids are not reused, every instruction is a step of PrizePot or
\* leaves it alone: a stake goes to one pool, only an entrant that has not
\* moved on is paid, once, after the match. (ranked_game.rs)
ImplementsPrizePot == Pot!PotSpec
=============================================================================
