---------------------------- MODULE MCRankedGame ----------------------------
(***************************************************************************)
(* Instances of ranked games for TLC. Two players, each with a user        *)
(* account; who holds which tokens decides which pools fill, so the runs   *)
(* differ in the genesis ledger and in the two environment switches.       *)
(***************************************************************************)
EXTENDS RankedGameProps, TLC

CONSTANTS auth, alice, bob, g1, g2, u1, u2, u3

Symmetry == Permutations(RankedGames)

\* Both titles split the fee in half.
FairShares ==
    [g \in {g1, g2} |-> [NoGame EXCEPT !.version = "V2", !.owner = bob,
                                        !.game_to_protocol_share_bps = 2]]

\* The second title asks for more than the whole fee, which update_fee_share
\* does not refuse: nobody can join its games.
OneShareTooHigh == [FairShares EXCEPT ![g2].game_to_protocol_share_bps = 5]

Account(wallet, title) ==
    [is_initialized |-> TRUE, owner |-> wallet, game |-> title,
     current_ranked_game |-> DefaultKey, total_ranked_games_played |-> 0,
     total_wins |-> 0, total_usd_rewards_micro |-> 0, total_usd_spent_bytes |-> 0]

\* alice and bob play the first title; bob has an account in the second, too.
MCUser ==
    [u \in UserAccounts |-> CASE u = u1 -> Account(alice, g1)
                             [] u = u2 -> Account(bob, g1)
                             [] u = u3 -> Account(bob, g2)]

\* The authority plays as well: winner and rent payer are one wallet.
AuthorityPlays == [MCUser EXCEPT ![u2] = Account(auth, g1)]

Ledger(sol, usdc, skr, slice) ==
    [t \in PaymentToken |-> CASE t = SOL -> sol [] t = USDC -> usdc
                              [] t = SKR -> skr [] t = SLICE -> slice]

\* alice pays in SOL or in USDC, bob in SOL.
SolAndUsdc ==
    [h \in Holder |-> CASE h = Treasury -> Ledger(10, 0, 0, 0)
                        [] h = WalletOf(alice) -> Ledger(10, 5, 0, 0)
                        [] h = WalletOf(bob) -> Ledger(5, 0, 0, 0)
                        [] OTHER -> NoTokens]

\* alice can pay in SOL and SKR, the authority, a player as well, in SLICE.
AllTokens ==
    [h \in Holder |-> CASE h = Treasury -> Ledger(9, 0, 0, 6)
                        [] h = WalletOf(alice) -> Ledger(10, 0, 10, 0)
                        [] OTHER -> NoTokens]

\* The ATAs there are, but for one of each kind that an instruction opens.
MCAta ==
    (({Treasury} \cup {GamePda(g) : g \in Games}
        \cup {GameProtocolPda(g) : g \in Games}) \X Mints)
      \cup {<<WalletOf(alice), SKR>>, <<WalletOf(alice), USDC>>, <<WalletOf(bob), SLICE>>}

\* A ranked game can be opened under what is no title, and nobody can join it.
TitlesAndAccount == Games \cup {u1}

Price(sol, skr, slice) ==
    [t \in OraclePriced |-> CASE t = SOL -> sol [] t = SKR -> skr [] t = SLICE -> slice]

\* The last triple is refused: SKR would be worth nothing.
MCPrices == {Price(1, 1, 3), Price(2, 1, 2), Price(1, 0, 1)}
TwoPrices == {Price(1, 1, 1), Price(2, 1, 1)}

=============================================================================
