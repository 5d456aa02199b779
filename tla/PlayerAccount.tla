---------------------------- MODULE PlayerAccount ----------------------------
(***************************************************************************)
(* User accounts: a player opens one in a title, paying the title's price, *)
(* and later takes what the protocol rewarded it with. An account is       *)
(* derived from its owner, its title and a timestamp, so a player may have *)
(* many in one title.                                                      *)
(*                                                                         *)
(* What is checked of the accounts a client passes is little: the parts of *)
(* a price go to the token accounts it names, in SOL the protocol's part   *)
(* to any address, and the account named as the title may be another user  *)
(* account, whose first bytes read as a title's.                           *)
(***************************************************************************)
EXTENDS GameTitle

CONSTANTS
    UserSeed,    \* the owner and the title an account's PDA is derived from
    FreeNames,   \* the user accounts whose name reads as a price of zero
    ClientAtas,  \* the token accounts that clients may open
    Gifts,       \* bound: what clients may send, and to whom, outside a sale
    GIFT_LIMIT   \* bound: an address above it is sent none

ASSUME SeedAssumption ==
    /\ UserSeed \in [UserAccounts -> [owner : Wallets, game : GameKeys]]
    /\ FreeNames \subseteq UserAccounts

\* Clients own wallets. Nobody opens the token accounts of a ranked game, or
\* sends them tokens, before the game is created.
ASSUME ClientAssumption ==
    /\ ClientAtas \subseteq ((Holder \ ({"igp_ranked_game"} \X RankedGames)) \X Mints)
    /\ Gifts \subseteq ((Holder \ ({"wallet"} \X Wallets)) \X PaymentToken)
    /\ GIFT_LIMIT \in Nat

----------------------------------------------------------------------------
(* PURCHASE *)

\* What an account costs in token t: the price in whole cents, rounded up.
PriceInTokens(cost, t) == UsdCentsToBaseUnits(CentsOf(cost), PriceFor(t), TokenBase(t))

\* Whom the client has the two parts of a price paid to.
OwnPayees(g) == [dev |-> GamePda(g), protocol |-> GameProtocolPda(g)]
Payees(g) == [dev : Destinations \cup {GamePda(g)},
              protocol : Destinations \cup {GameProtocolPda(g)}]

\* Both transfers run, one after the other, also when they move nothing.
PurchaseGoesThrough(payer, t, due, to) ==
    /\ CanHold(payer, t) /\ CanHold(to.dev, t) /\ CanHold(to.protocol, t)
    /\ bal[payer][t] >= due.dev
    /\ Transferred(bal, payer, to.dev, t, due.dev)[payer][t] >= due.protocol

\* A slip the properties must notice: the first part is not taken.
PurchasedForProtocolOnly(payer, t, due, to) ==
    Transferred([bal EXCEPT ![to.dev][t] = @ + due.dev], payer, to.protocol, t, due.protocol)

Purchased(payer, t, due, to) ==
    Transferred(Transferred(bal, payer, to.dev, t, due.dev), payer, to.protocol, t, due.protocol)

\* What the developer and the protocol are due for an account.
PurchaseDue(g, t) ==
    SplitProtocolFee(PriceInTokens(game[g].game_cost, t), game[g].game_to_protocol_share_bps)

\* process_payment succeeds; a price below a cent still needs the oracle. In
\* SOL the developer's part goes to the account that was read as the title.
PaymentAccepted(payer, g, t, to) ==
    /\ GameLoads(g)
    /\ OracleLoads
    /\ PriceFor(t) # 0
    /\ FitsU64(PriceInTokens(game[g].game_cost, t))
    /\ t = SOL => to.dev = GamePda(g)
    /\ PurchaseGoesThrough(payer, t, PurchaseDue(g, t), to)

----------------------------------------------------------------------------
(* CREATE *)

\* A free title asks for no payment at all, nor does a user account's name
\* that reads as a price of zero.
AsksPayment(g) == IF g \in Games THEN game[g].game_cost > 0 ELSE g \notin FreeNames

\* The ledger after the payment, if there is one.
Paid(payer, g, t, to) ==
    IF AsksPayment(g) THEN Purchased(payer, t, PurchaseDue(g, t), to) ELSE bal

\* The count of users, where the account that was read as a title keeps it.
TotalUsers(g) == IF g \in Games THEN game[g].total_users ELSE user[g].total_usd_spent_bytes

CountedTitle(g) == IF g \in Games THEN [game EXCEPT ![g].total_users = @ + 1] ELSE game

CountedAccount(g, users) ==
    IF g \in Games THEN users ELSE [users EXCEPT ![g].total_usd_spent_bytes = @ + 1]

\* A slip the properties must notice: the account is another title's.
OpenedElsewhere(u) ==
    [user EXCEPT ![u] = [NoUserAccount EXCEPT
        !.is_initialized = TRUE, !.owner = UserSeed[u].owner,
        !.game = CHOOSE g \in Games : g # UserSeed[u].game]]

Opened(u) ==
    [user EXCEPT ![u] = [NoUserAccount EXCEPT
        !.is_initialized = TRUE, !.owner = UserSeed[u].owner, !.game = UserSeed[u].game]]

CreateUserAccount(u, t, to) ==
    LET payer == WalletOf(UserSeed[u].owner)
        g == UserSeed[u].game
        paid == Paid(payer, g, t, to)
    IN  /\ ~user[u].is_initialized
        /\ GameReads(g)
        /\ AsksPayment(g) => PaymentAccepted(payer, g, t, to)
        /\ paid[UserAccountPda(u)][SOL] = 0
        /\ paid[payer][SOL] >= RENT_USER
        /\ bal' = Transferred(paid, payer, UserAccountPda(u), SOL, RENT_USER)
        /\ TotalUsers(g) < U32MAX
        /\ game' = CountedTitle(g)
        /\ user' = CountedAccount(g, Opened(u))
        /\ UNCHANGED <<oracle, ranked, ata, protocols>>

----------------------------------------------------------------------------
(* REWARDS *)

\* The surplus SOL moves after the last token transfer. dst[m]: the owner of
\* the token account given for m, which nothing checks.
WithdrawRewards(u, dst) ==
    /\ user[u].is_initialized
    /\ CanDrainTo(UserAccountPda(u), dst)
    /\ bal' = Drained(UserAccountPda(u), RENT_USER, Directed(user[u].owner, dst))
    /\ UNCHANGED <<oracle, game, user, ranked, ata, protocols>>

----------------------------------------------------------------------------
(* CLIENTS, past the program: they open token accounts, of any account, and *)
(* send anybody lamports and tokens, also before the account exists.        *)

ClientOpensAta(w, h, m) ==
    /\ <<h, m>> \notin ata
    /\ bal[WalletOf(w)][SOL] >= RENT_ATA
    /\ bal' = [bal EXCEPT ![WalletOf(w)][SOL] = @ - RENT_ATA]
    /\ ata' = ata \cup {<<h, m>>}
    /\ UNCHANGED <<oracle, game, user, ranked, protocols>>

ClientSends(w, h, t) ==
    /\ bal[WalletOf(w)][t] > 0
    /\ CanHold(h, t)
    /\ bal[h][t] <= GIFT_LIMIT
    /\ bal' = Transferred(bal, WalletOf(w), h, t, 1)
    /\ UNCHANGED <<oracle, game, user, ranked, ata, protocols>>

----------------------------------------------------------------------------
AccountNext ==
    \/ \E u \in UserAccounts :
          \/ \E t \in PaymentToken, to \in Payees(UserSeed[u].game) : CreateUserAccount(u, t, to)
          \/ \E dst \in [Mints -> Destinations] : WithdrawRewards(u, dst)
    \/ \E w \in Wallets :
          \/ \E a \in ClientAtas : ClientOpensAta(w, a[1], a[2])
          \/ \E a \in Gifts : ClientSends(w, a[1], a[2])
=============================================================================
