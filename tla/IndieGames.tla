----------------------------- MODULE IndieGames -----------------------------
(***************************************************************************)
(* The whole program: the match of Processor::process over one set of      *)
(* accounts. Titles are created, change their terms and owners and are     *)
(* upgraded while players buy accounts in them, enter their ranked games   *)
(* and are rewarded from two different pools.                              *)
(***************************************************************************)
EXTENDS RankedGame, PlayerAccount

CONSTANT GenesisProtocols  \* the titles that have a protocol PDA at first

\* Accounts there already are were opened by the instructions above: where
\* their seeds say, in a title that exists or in an open user account that
\* reads as a free one, with their rent. The latter are in no ranked game.
ASSUME IndieGenesisAssumption ==
    /\ GenesisProtocols \subseteq Games
    /\ \A g \in Games :
          /\ GenesisGame[g].version # "Absent" =>
                /\ g \in GenesisProtocols
                /\ GenesisGame[g].owner \in Wallets
          /\ GenesisGame[g].version # "V2" =>
                GenesisGame[g].game_cost = 0 /\ GenesisGame[g].total_users = 0
          /\ GenesisGame[g].version = "V1" =>
                GenesisBal[GamePda(g)][SOL] >= RENT_GAME_V1
          /\ GenesisGame[g].version = "V2" =>
                GenesisBal[GamePda(g)][SOL] >= RENT_GAME
          /\ g \in GenesisProtocols =>
                GenesisBal[GameProtocolPda(g)][SOL] >= RENT_EMPTY
    /\ \A u \in UserAccounts :
          GenesisUser[u].is_initialized =>
             /\ GenesisUser[u].owner = UserSeed[u].owner
             /\ GenesisUser[u].game = UserSeed[u].game
             /\ GenesisBal[UserAccountPda(u)][SOL] >= RENT_USER
             /\ \/ /\ UserSeed[u].game \in Games
                   /\ GenesisGame[UserSeed[u].game].version # "Absent"
                \/ /\ UserSeed[u].game \in FreeNames
                   /\ GenesisUser[UserSeed[u].game].is_initialized
                   /\ GenesisUser[u].total_ranked_games_played = 0
                   /\ GenesisUser[u].total_usd_rewards_micro = 0

indieVars == <<oracle, game, user, ranked, bal, ata, usedIds, entered, protocols>>

IndieInit == Init /\ protocols = GenesisProtocols

RankedStep == Next /\ UNCHANGED protocols

TitleStep == TitleNext /\ UNCHANGED <<usedIds, entered>>

AccountStep == AccountNext /\ UNCHANGED <<usedIds, entered>>

IndieNext == RankedStep \/ TitleStep \/ AccountStep

\* No fairness: see RankedGame.
IndieSpec == IndieInit /\ [][IndieNext]_indieVars
=============================================================================
