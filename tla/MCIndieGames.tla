---------------------------- MODULE MCIndieGames ----------------------------
(***************************************************************************)
(* Instances of the whole program for TLC: titles alone, from an old       *)
(* layout and from nothing, and titles with a ranked game.                 *)
(***************************************************************************)
EXTENDS IndieGamesProps, TLC

CONSTANTS auth, alice, bob, g1, g2, u1, u2, u3, r1

Seed(wallet, title) == [owner |-> wallet, game |-> title]

\* alice opens an account in each title.
TwoTitles == [u \in UserAccounts |-> IF u = u1 THEN Seed(alice, g1) ELSE Seed(alice, g2)]

\* The players of one title; alice's name reads as a price of zero, and she
\* opens another account that names this one as its title.
AliceAndBob ==
    [u \in UserAccounts |-> CASE u = u1 -> Seed(alice, g1)
                             [] u = u2 -> Seed(bob, g1)
                             [] u = u3 -> Seed(alice, u1)]

Nobody == [u \in UserAccounts |-> NoUserAccount]

Fees(dev, share) == [dev_fee_bps |-> dev, game_to_protocol_share_bps |-> share]

Offer(dev, share, cost) ==
    [dev_fee_bps |-> dev, game_to_protocol_share_bps |-> share, game_cost |-> cost]

\* The first pair takes more than the whole; the second is refused.
MCFees == {Fees(4, 8), Fees(0, 3)}
OneShare == {Fees(2, 3)}
LowShare == {Fees(2, 0)}
HighShare == {Fees(2, 8)}

MCOffers == {Offer(1, 1, 0), Offer(0, 2, 0)}
OneOffer == {Offer(1, 1, 4)}
NoOffers == {}

\* alice registered the first title in the old layout.
OldTitle ==
    [g \in Games |-> IF g = g1 THEN [NoGame EXCEPT !.version = "V1", !.owner = alice,
                        !.dev_fee_bps = 1, !.game_to_protocol_share_bps = 1]
                     ELSE NoGame]

\* bob sells the first title at two cents.
SoldTitle ==
    [g \in Games |-> IF g = g1 THEN [NoGame EXCEPT !.version = "V2", !.owner = bob,
                        !.dev_fee_bps = 1, !.game_to_protocol_share_bps = 1,
                        !.game_cost = 4]
                     ELSE NoGame]

FirstTitle == {g1}

Ledger(sol, usdc) ==
    [t \in PaymentToken |-> CASE t = SOL -> sol [] t = USDC -> usdc [] OTHER -> 0]

\* The old title has its rent, more that it earned, and a reserve; somebody sent
\* lamports to the address of the second one.
OldLedger ==
    [h \in Holder |-> CASE h = Treasury -> Ledger(3, 0)
                        [] h = WalletOf(alice) -> Ledger(9, 2)
                        [] h = GamePda(g1) -> Ledger(RENT_GAME_V1, 1)
                        [] h = GameProtocolPda(g1) -> Ledger(RENT_EMPTY + 1, 2)
                        [] h = GamePda(g2) -> Ledger(RENT_GAME + 1, 0)
                        [] OTHER -> NoTokens]

SoldLedger ==
    [h \in Holder |-> CASE h = Treasury -> Ledger(8, 0)
                        [] h = WalletOf(alice) -> Ledger(4, 5)
                        [] h = WalletOf(bob) -> Ledger(6, 0)
                        [] h = GamePda(g1) -> Ledger(RENT_GAME, 0)
                        [] h = GameProtocolPda(g1) -> Ledger(RENT_EMPTY, 0)
                        [] OTHER -> NoTokens]

\* Token accounts there are: alice's and those of the first title for USDC.
OldAta == {<<WalletOf(alice), USDC>>, <<GamePda(g1), USDC>>, <<GameProtocolPda(g1), USDC>>}

\* Those that rewards may need and that no instruction opens.
OldClientAtas == {<<UserAccountPda(u1), USDC>>, <<Treasury, USDC>>}
NoAtas == {}

\* Whom tokens are sent to, other than whom the money is meant for.
OtherTitle == {GamePda(g2)}
TheEscrow == {RankedGamePda(r1)}
TheBuyer == {WalletOf(alice)}

OldGifts == {<<GamePda(g1), SOL>>}

\* All those that the escrow, the title, the wallets and the accounts of a
\* composed run can need, so that none is opened on the way.
SoldAta ==
    ({GamePda(g1), GameProtocolPda(g1)} \X Mints)
      \cup ({Treasury, WalletOf(alice), WalletOf(bob), UserAccountPda(u1)} \X {USDC})

Price(sol) == [t \in OraclePriced |-> IF t = SOL THEN sol ELSE 1]

OnePrice == {Price(3)}

=============================================================================
