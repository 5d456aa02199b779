-------------------------- MODULE IndieGamesProofs --------------------------
(***************************************************************************)
(* Theorems about the whole program, for any titles, accounts, ranked      *)
(* games, terms, balances, prices and widths, and for any accounts that    *)
(* sales are paid to and withdrawals sent to. What RankedGameProofs shows  *)
(* of a ranked step is used as it is; what is added is that the steps of   *)
(* titles and accounts take nothing from ranked games, and what all steps  *)
(* do to the money of titles.                                              *)
(***************************************************************************)
EXTENDS IndieGamesProps, RankedPayoutProofs

----------------------------------------------------------------------------
(* Addresses *)

\* The accounts nobody has a key for.
Pda == Holder \ ({"wallet"} \X Wallets)

\* A vault is nobody's wallet and no escrow.
LEMMA VaultAddresses ==
    /\ VaultHolder \subseteq Pda /\ Pda \subseteq Holder
    /\ \A g \in Games : GamePda(g) \in VaultHolder /\ GameProtocolPda(g) \in VaultHolder
    /\ \A u \in UserAccounts : UserAccountPda(u) \in VaultHolder
    /\ \A r \in RankedGames : Escrow(r) \in Pda /\ Escrow(r) \notin VaultHolder
    /\ \A w \in Wallets : WalletOf(w) \in Holder /\ WalletOf(w) \notin Pda
    /\ \A h \in VaultHolder, r \in RankedGames : h # Escrow(r)
    /\ \A h \in VaultHolder, w \in Wallets : h # WalletOf(w)
    /\ \A h \in VaultHolder : h # Treasury /\ h # OraclePda
  BY KeyAssumption
     DEF Escrow, Treasury, OraclePda, WalletOf, GamePda, GameProtocolPda,
         UserAccountPda, RankedGamePda, Holder, VaultHolder, Pda

\* Different titles and accounts have different vaults.
LEMMA VaultsApart ==
    /\ \A g, k \in Games : /\ GamePda(g) = GamePda(k) => g = k
                           /\ GameProtocolPda(g) = GameProtocolPda(k) => g = k
                           /\ GamePda(g) # GameProtocolPda(k)
    /\ \A u, v \in UserAccounts : UserAccountPda(u) = UserAccountPda(v) => u = v
    /\ \A g \in Games, u \in UserAccounts :
          UserAccountPda(u) # GamePda(g) /\ UserAccountPda(u) # GameProtocolPda(g)
  BY DEF GamePda, GameProtocolPda, UserAccountPda

----------------------------------------------------------------------------
(* What ranked games do to vaults *)

\* No vault loses anything.
VaultsGrow ==
    \A h \in VaultHolder, t \in PaymentToken : bal'[h][t] >= bal[h][t]

LEMMA VaultsStay ==
    ASSUME SafeInv, \A h \in VaultHolder : bal'[h] = bal[h]
    PROVE  VaultsGrow
  <1>1. \A h \in VaultHolder, t \in PaymentToken : bal[h][t] \in Nat
    BY SafeFacts, VaultAddresses DEF Ledgers
  <1> QED  BY <1>1 DEF VaultsGrow

\* An entry fills the two vaults of one title in one token.
LEMMA JoinVaults ==
    ASSUME SafeInv, NEW u \in UserAccounts, NEW r \in RankedGames,
           NEW t \in PaymentToken, JoinRankedGame(u, r, t)
    PROVE  VaultsGrow
  <1> DEFINE g == ranked[r].game
             dev_bps == BPS_DENOMINATOR - game[g].game_to_protocol_share_bps
             due == EntryTokens(ranked[r].entry_fee, dev_bps, PriceFor(t), TokenBase(t))
             P == WalletOf(user[u].owner)
             E == Escrow(r)
             G == GamePda(g)
             H == GameProtocolPda(g)
  <1>1. /\ g \in Games /\ ranked[r].entry_fee \in Nat /\ user[u].owner \in Wallets
        /\ PriceFor(t) \in Nat \ {0} /\ TokenBase(t) \in Nat /\ bal \in Ledgers
    <2>1. Exists(r) /\ user[u].is_initialized /\ PriceFor(t) # 0
      BY DEF JoinRankedGame, Joinable, ProcessRankedEntryPayment, Exists
    <2>2. g \in Games
      BY DEF JoinRankedGame, Joinable, GameLoads
    <2> QED  BY <2>1, <2>2, SafeFacts
  <1>2. dev_bps \in Nat /\ dev_bps <= BPS_DENOMINATOR
    <2>1. game[g].game_to_protocol_share_bps \in Nat
      BY <1>1, WidthAssumption DEF SafeInv, TypeOK, AccountsTypeOK, GameAccount
    <2>2. game[g].game_to_protocol_share_bps <= BPS_DENOMINATOR
      BY DEF JoinRankedGame
    <2> QED  BY <2>1, <2>2, ScaleAssumption
  <1>3. bal' = PaidEntry(user[u].owner, r, g, t, due)
    BY DEF JoinRankedGame, ProcessRankedEntryPayment
  <1> HIDE DEF dev_bps
  <1>4. due \in [net : Nat, dev : Nat, protocol : Nat]
    BY <1>1, <1>2, TokensDue
  <1> HIDE DEF due
  <1>5. bal' = [bal EXCEPT ![P][t] = @ - (due.net + due.dev + due.protocol),
                           ![E][t] = @ + due.net, ![G][t] = @ + due.dev,
                           ![H][t] = @ + due.protocol]
    BY <1>3 DEF PaidEntry, Escrow
  <1>6. /\ P \in Holder /\ E \in Holder /\ G \in VaultHolder /\ H \in VaultHolder
        /\ G # H /\ VaultHolder \subseteq Holder
        /\ \A h \in VaultHolder : h # P /\ h # E
    BY <1>1, VaultAddresses, VaultsApart, Addresses
  <1>7. due.net \in Nat /\ due.dev \in Nat /\ due.protocol \in Nat
    BY <1>4
  <1> HIDE DEF P, E, g
  <1>8. \A h \in VaultHolder, x \in PaymentToken : bal[h][x] \in Nat
    BY <1>1, <1>6 DEF Ledgers
  <1>9. bal'[G][t] = bal[G][t] + due.dev /\ bal'[H][t] = bal[H][t] + due.protocol
    BY <1>1, <1>5, <1>6, <1>7 DEF Ledgers
  <1>10. ASSUME NEW h \in VaultHolder, NEW x \in PaymentToken,
                x # t \/ (h # G /\ h # H)
         PROVE  bal'[h][x] = bal[h][x]
    BY <1>1, <1>5, <1>6, <1>10 DEF Ledgers
  <1>11. ASSUME NEW h \in VaultHolder, NEW x \in PaymentToken
         PROVE  bal'[h][x] >= bal[h][x]
    <2>1. CASE h = G /\ x = t
      BY <1>7, <1>8, <1>9, <2>1
    <2>2. CASE h = H /\ x = t
      BY <1>7, <1>8, <1>9, <2>2
    <2>3. CASE x # t \/ (h # G /\ h # H)
      BY <1>8, <1>10, <2>3
    <2> QED  BY <2>1, <2>2, <2>3
  <1> QED  BY <1>11 DEF VaultsGrow

\* Nor does any other instruction of ranked games or the oracle.
LEMMA RankedVaults ==
    ASSUME SafeInv, [Next]_vars
    PROVE  VaultsGrow
  <1>1. bal \in Ledgers /\ VaultHolder \subseteq Holder
    BY SafeFacts, VaultAddresses
  <1>2. ASSUME NEW r \in RankedGames, NEW g \in ParentGames, NEW fee \in EntryFees,
               CreateRankedGame(r, g, fee), NEW h \in VaultHolder
        PROVE  bal'[h] = bal[h]
    <2>1. bal' = [bal EXCEPT ![Treasury][SOL] = @ - EscrowRent(r),
                             ![Escrow(r)][SOL] = @ + RENT_RANKED]
      BY <1>2 DEF CreateRankedGame
    <2>2. h # Treasury /\ h # Escrow(r) /\ h \in Holder
      BY VaultAddresses
    <2> QED  BY <1>1, <2>1, <2>2 DEF Ledgers
  <1>3. ASSUME NEW r \in RankedGames, NEW u \in UserAccounts, NEW bps \in PayoutBps,
               RewardWinner(u, r, bps), NEW h \in VaultHolder
        PROVE  bal'[h] = bal[h]
    <2> DEFINE paid == Payout(r, bps)
               w == user[u].owner
               rent == RENT_ATA * Cardinality(WinnerAtas(w, paid))
    <2>1. bal' = RewardSettled(r, w, paid, rent)
      BY <1>3 DEF RewardWinner, Payable, WinnerRent
    <2>2. w \in Wallets
      BY <1>3, SafeFacts DEF RewardWinner, Payable, Rewardable
    <2> HIDE DEF paid, rent, w
    <2>3. h # Treasury /\ h # Escrow(r) /\ h \in Holder /\ h # WalletOf(w)
      BY <2>2, VaultAddresses
    <2>4. PaidOut(r, w, paid)[h] = bal[h]
      BY <1>1, <2>3 DEF PaidOut, Ledgers
    <2>5. DOMAIN PaidOut(r, w, paid) = Holder
      BY <1>1 DEF PaidOut, Ledgers
    <2> QED  BY <2>1, <2>3, <2>4, <2>5 DEF RewardSettled
  <1>4. ASSUME NEW r \in RankedGames, CloseRankedGame(r), NEW h \in VaultHolder
        PROVE  bal'[h] = bal[h]
    <2>1. bal' = Swept(r)
      BY <1>4 DEF CloseRankedGame, Closable
    <2>2. h # Treasury /\ h # Escrow(r) /\ h \in Holder
      BY VaultAddresses
    <2> QED  BY <1>1, <2>1, <2>2 DEF Ledgers, Swept
  <1>5. ASSUME OracleStep, NEW h \in VaultHolder
        PROVE  bal'[h] = bal[h]
    <2>1. PICK price \in PriceInputs : InitOracle(price) \/ UpdateOraclePrices(price)
      BY <1>5 DEF OracleStep, OracleNext
    <2>2. h # WalletOf(AUTHORITY) /\ h # OraclePda /\ h \in Holder
      BY VaultAddresses, KeyAssumption
    <2>3. CASE InitOracle(price)
      BY <1>1, <2>2, <2>3 DEF InitOracle, Ledgers
    <2>4. CASE UpdateOraclePrices(price)
      BY <2>4 DEF UpdateOraclePrices
    <2> QED  BY <2>1, <2>3, <2>4
  <1>6. ASSUME NEW r \in RankedGames, NEW u \in UserAccounts, NEW t \in PaymentToken,
               JoinRankedGame(u, r, t)
        PROVE  VaultsGrow
    BY <1>6, JoinVaults
  <1>7. CASE UNCHANGED vars
    BY <1>7, VaultsStay DEF vars
  <1>8. ASSUME NEW r \in RankedGames, NEW s \in RankedGameStatus,
               UpdateRankedGameStatus(r, s)
        PROVE  bal' = bal
    BY <1>8 DEF UpdateRankedGameStatus
  <1> QED
    BY <1>2, <1>3, <1>4, <1>5, <1>6, <1>7, <1>8, VaultsStay DEF Next

----------------------------------------------------------------------------
(* What titles and accounts do to the ledger *)

LEMMA SolIsToken == SOL \in PaymentToken
  BY DEF PaymentToken

\* A surplus is what a balance has above a floor.
LEMMA SurplusBound ==
    ASSUME bal \in Ledgers, NEW h \in Holder, NEW floor \in Nat
    PROVE  /\ Surplus(h, floor) \in 0..bal[h][SOL]
           /\ bal[h][SOL] >= floor => bal[h][SOL] - Surplus(h, floor) = floor
  <1>1. bal[h][SOL] \in Nat
    BY SolIsToken DEF Ledgers
  <1> QED  BY <1>1 DEF Surplus

\* What leaves a vault is there.
\* What leaves a vault is there.
LEMMA OutBound ==
    ASSUME bal \in Ledgers, NEW h \in Holder, NEW floor \in Nat, NEW t \in PaymentToken
    PROVE  Withdrawable(h, floor, t) \in 0..bal[h][t]
  <1>1. bal[h][t] \in Nat
    BY DEF Ledgers
  <1>2. CASE t = SOL
    <2>1. Surplus(h, floor) \in 0..bal[h][SOL]
      BY SurplusBound
    <2> QED  BY <1>2, <2>1 DEF Withdrawable
  <1>3. CASE t # SOL
    BY <1>1, <1>3 DEF Withdrawable
  <1> QED  BY <1>2, <1>3

\* In the ledger b the PDAs, but for those of S, have no less than now, and
\* no more of a token they have no account for.
Filled(b, S) ==
    /\ b \in Ledgers
    /\ \A h \in Pda \ S, t \in PaymentToken :
          /\ b[h][t] >= bal[h][t]
          /\ b[h][t] = bal[h][t] \/ CanHold(h, t)

LEMMA NothingFilled == ASSUME bal \in Ledgers, NEW S PROVE Filled(bal, S)
  <1>1. \A h \in Pda, t \in PaymentToken : bal[h][t] \in Nat
    BY VaultAddresses DEF Ledgers
  <1> QED  BY <1>1 DEF Filled

\* A transfer, also of nothing and to oneself.
LEMMA TransferLedger ==
    ASSUME NEW b \in Ledgers, NEW p \in Holder, NEW q \in Holder,
           NEW t \in PaymentToken, NEW x \in Nat, b[p][t] >= x
    PROVE  /\ Transferred(b, p, q, t, x) \in Ledgers
           /\ \A h \in Holder, s \in PaymentToken :
                 Transferred(b, p, q, t, x)[h][s] =
                    b[h][s] - (IF h = p /\ s = t THEN x ELSE 0)
                      + (IF h = q /\ s = t THEN x ELSE 0)
  <1>1. \A h \in Holder, s \in PaymentToken : b[h][s] \in Nat
    BY DEF Ledgers
  <1> DEFINE now(h, s) == b[h][s] - (IF h = p /\ s = t THEN x ELSE 0)
                            + (IF h = q /\ s = t THEN x ELSE 0)
  <1>2. \A h \in Holder, s \in PaymentToken : now(h, s) \in Nat
    BY <1>1
  <1>3. Transferred(b, p, q, t, x) = [h \in Holder |-> [s \in PaymentToken |-> now(h, s)]]
    BY DEF Transferred
  <1> HIDE DEF now
  <1>4. Transferred(b, p, q, t, x) \in Ledgers
    BY <1>2, <1>3 DEF Ledgers
  <1>5. \A h \in Holder, s \in PaymentToken : Transferred(b, p, q, t, x)[h][s] = now(h, s)
    BY <1>3
  <1> QED  BY <1>4, <1>5 DEF now

\* What a wallet pays to an account that can hold it.
LEMMA FillTransfer ==
    ASSUME bal \in Ledgers, NEW b, NEW S, Filled(b, S), NEW w \in Wallets,
           NEW q \in Holder, NEW t \in PaymentToken, NEW x \in Nat,
           b[WalletOf(w)][t] >= x, CanHold(q, t)
    PROVE  Filled(Transferred(b, WalletOf(w), q, t, x), S)
  <1> DEFINE P == WalletOf(w)
             c == Transferred(b, P, q, t, x)
  <1>1. b \in Ledgers /\ P \in Holder /\ P \notin Pda /\ Pda \subseteq Holder
    BY VaultAddresses DEF Filled
  <1> HIDE DEF P
  <1>2. /\ c \in Ledgers
        /\ \A h \in Holder, s \in PaymentToken :
              c[h][s] = b[h][s] - (IF h = P /\ s = t THEN x ELSE 0)
                          + (IF h = q /\ s = t THEN x ELSE 0)
    BY <1>1, TransferLedger DEF P
  <1> HIDE DEF c
  <1>3. ASSUME NEW h \in Pda \ S, NEW s \in PaymentToken
        PROVE  c[h][s] >= bal[h][s] /\ (c[h][s] = bal[h][s] \/ CanHold(h, s))
    <2>1. /\ b[h][s] >= bal[h][s] /\ b[h][s] \in Nat /\ bal[h][s] \in Nat
          /\ b[h][s] = bal[h][s] \/ CanHold(h, s)
      BY <1>1 DEF Filled, Ledgers
    <2>2. h # P
      BY <1>1
    <2>3. CASE h = q /\ s = t
      <3>1. c[h][s] = b[h][s] + x
        BY <1>1, <1>2, <2>1, <2>2, <2>3
      <3> QED  BY <2>1, <2>3, <3>1
    <2>4. CASE ~(h = q /\ s = t)
      <3>1. c[h][s] = b[h][s]
        BY <1>1, <1>2, <2>1, <2>2, <2>4
      <3> QED  BY <2>1, <3>1
    <2> QED  BY <2>3, <2>4
  <1> QED  BY <1>2, <1>3 DEF Filled, c, P

\* What h holds above its floor leaves, and the tokens of m arrive at dst[m].
DrainedRows(b, h, floor, dst) ==
    /\ \A k \in VaultHolder :
          b[k][SOL] = bal[k][SOL] - (IF k = h THEN Withdrawable(h, floor, SOL) ELSE 0)
    /\ \A k \in Holder, m \in Mints :
          b[k][m] = bal[k][m] - (IF k = h THEN bal[h][m] ELSE 0)
                      + (IF k = dst[m] THEN bal[h][m] ELSE 0)

\* A withdrawal takes from one vault; what it takes goes where it can be held.
LEMMA DrainLedger ==
    ASSUME bal \in Ledgers, NEW h \in VaultHolder, NEW floor \in Nat, NEW w \in Wallets,
           NEW dst \in [Mints -> Holder], CanDrainTo(h, dst),
           bal' = Drained(h, floor, Directed(w, dst))
    PROVE  Filled(bal', {h}) /\ DrainedRows(bal', h, floor, dst)
  <1> DEFINE W == WalletOf(w)
             out(t) == Withdrawable(h, floor, t)
             to(t) == IF t = SOL THEN W ELSE dst[t]
             now(k, t) == bal[k][t] - (IF k = h THEN out(t) ELSE 0)
                            + (IF k = to(t) THEN out(t) ELSE 0)
  <1>1. /\ h \in Holder /\ h # W /\ W \in Holder /\ W \notin Pda /\ Pda \subseteq Holder
        /\ \A k \in VaultHolder : k \in Holder /\ k # W
    BY VaultAddresses
  <1>2. \A k \in Holder, t \in PaymentToken : bal[k][t] \in Nat
    BY DEF Ledgers
  <1>3. \A t \in PaymentToken : out(t) \in 0..bal[h][t]
    BY <1>1, OutBound
  <1>4. \A m \in Mints : m \in PaymentToken /\ m # SOL /\ out(m) = bal[h][m] /\ to(m) = dst[m]
    BY TokenAssumption DEF Mints, PaymentToken, Withdrawable
  <1>5. bal' = [k \in Holder |-> [t \in PaymentToken |-> now(k, t)]]
    BY DEF Drained, Emptied, Directed
  <1>6. \A t \in PaymentToken : out(t) > 0 => to(t) = W \/ (t \in Mints /\ CanHold(to(t), t))
    BY <1>4 DEF CanDrainTo, PaymentToken
  <1>7. to(SOL) = W
    OBVIOUS
  <1> HIDE DEF W, out, to
  <1>8. \A k \in Holder, t \in PaymentToken : now(k, t) \in Nat
    BY <1>1, <1>2, <1>3
  <1>9. \A k \in Pda, t \in PaymentToken : k # h =>
           now(k, t) >= bal[k][t] /\ (now(k, t) = bal[k][t] \/ CanHold(k, t))
    <2> SUFFICES ASSUME NEW k \in Pda, NEW t \in PaymentToken, k # h
                 PROVE  now(k, t) >= bal[k][t] /\ (now(k, t) = bal[k][t] \/ CanHold(k, t))
      OBVIOUS
    <2>1. k \in Holder /\ k # W /\ bal[k][t] \in Nat /\ out(t) \in Nat
      BY <1>1, <1>2, <1>3
    <2>2. CASE k = to(t) /\ out(t) > 0
      <3>1. CanHold(k, t)
        BY <1>6, <2>1, <2>2
      <3> QED  BY <2>1, <2>2, <3>1
    <2>3. CASE ~(k = to(t) /\ out(t) > 0)
      BY <2>1, <2>3
    <2> QED  BY <2>2, <2>3
  <1>10. \A k \in VaultHolder : now(k, SOL) = bal[k][SOL] - (IF k = h THEN out(SOL) ELSE 0)
    BY <1>1, <1>2, <1>3, <1>7, SolIsToken
  <1>11. \A k \in Holder, m \in Mints :
            now(k, m) = bal[k][m] - (IF k = h THEN bal[h][m] ELSE 0)
                          + (IF k = dst[m] THEN bal[h][m] ELSE 0)
    BY <1>4
  <1> HIDE DEF now
  <1>12. bal' \in Ledgers /\ \A k \in Holder, t \in PaymentToken : bal'[k][t] = now(k, t)
    BY <1>5, <1>8 DEF Ledgers
  <1>13. Filled(bal', {h})
    BY <1>1, <1>9, <1>12 DEF Filled
  <1>14. /\ \A k \in VaultHolder : bal'[k][SOL] = bal[k][SOL] - (IF k = h THEN out(SOL) ELSE 0)
         /\ \A k \in Holder, m \in Mints :
               bal'[k][m] = bal[k][m] - (IF k = h THEN bal[h][m] ELSE 0)
                           + (IF k = dst[m] THEN bal[h][m] ELSE 0)
    BY <1>1, <1>4, <1>10, <1>11, <1>12, SolIsToken
  <1> QED  BY <1>13, <1>14 DEF out, DrainedRows

----------------------------------------------------------------------------
(* Titles and accounts take nothing from ranked games *)

\* What the steps of titles and accounts have in common.
OpensFresh(u) ==
    /\ ~user[u].is_initialized /\ user[u].current_ranked_game = DefaultKey
    /\ user'[u].owner \in Wallets /\ user'[u].game \in GameKeys
    /\ user'[u].current_ranked_game = DefaultKey /\ user'[u].total_wins = 0

KeepsRecord(u) ==
    /\ user'[u].is_initialized = user[u].is_initialized
    /\ user'[u].owner = user[u].owner /\ user'[u].game = user[u].game
    /\ user'[u].current_ranked_game = user[u].current_ranked_game
    /\ user'[u].total_wins = user[u].total_wins
    /\ user'[u].total_ranked_games_played = user[u].total_ranked_games_played

SideStep ==
    /\ UNCHANGED <<oracle, ranked, usedIds, entered>>
    /\ Filled(bal', VaultHolder)
    /\ ata' \in SUBSET (Holder \X Mints)
    /\ \A r \in RankedGames, m \in Mints :
          <<Escrow(r), m>> \in ata' <=> <<Escrow(r), m>> \in ata
    /\ game' \in [Games -> GameAccount]
    /\ user' \in [UserAccounts -> UserAccount]
    /\ \A u \in UserAccounts : KeepsRecord(u) \/ OpensFresh(u)

\* An escrow can be sent something, tokens only while its game exists.
LEMMA SideEscrows ==
    ASSUME SafeInv, SideStep
    PROVE  \A r \in RankedGames, t \in PaymentToken :
              /\ bal'[Escrow(r)][t] \in Nat /\ bal[Escrow(r)][t] \in Nat
              /\ bal'[Escrow(r)][t] >= bal[Escrow(r)][t]
              /\ t \in Mints /\ ~Exists(r) => bal'[Escrow(r)][t] = bal[Escrow(r)][t]
  <1> SUFFICES ASSUME NEW r \in RankedGames, NEW t \in PaymentToken
               PROVE  /\ bal'[Escrow(r)][t] \in Nat /\ bal[Escrow(r)][t] \in Nat
                      /\ bal'[Escrow(r)][t] >= bal[Escrow(r)][t]
                      /\ t \in Mints /\ ~Exists(r) => bal'[Escrow(r)][t] = bal[Escrow(r)][t]
    OBVIOUS
  <1>1. Escrow(r) \in Pda \ VaultHolder /\ Escrow(r) \in Holder
    BY VaultAddresses
  <1>2. /\ bal'[Escrow(r)][t] >= bal[Escrow(r)][t]
        /\ bal'[Escrow(r)][t] = bal[Escrow(r)][t] \/ CanHold(Escrow(r), t)
    BY <1>1 DEF SideStep, Filled
  <1>3. bal'[Escrow(r)][t] \in Nat /\ bal[Escrow(r)][t] \in Nat
    BY <1>1, SafeFacts DEF SideStep, Filled, Ledgers
  <1>4. t \in Mints /\ ~Exists(r) => ~CanHold(Escrow(r), t)
    BY TokenAssumption DEF SafeInv, EscrowAccounted, CanHold, Mints
  <1> QED  BY <1>2, <1>3, <1>4

LEMMA SideSafe == ASSUME SafeInv, SideStep PROVE SafeInv'
  <1>1. TypeOK'
    <2>1. AccountsTypeOK'
      BY DEF SafeInv, TypeOK, AccountsTypeOK, SideStep, Ledgers, Filled
    <2>2. \A u \in UserAccounts : user'[u].is_initialized =>
             user'[u].owner \in Wallets /\ user'[u].game \in GameKeys
      BY DEF SafeInv, TypeOK, SideStep, KeepsRecord, OpensFresh
    <2> QED  BY <2>1, <2>2 DEF SafeInv, TypeOK, SideStep, Exists
  <1>2. EscrowAccounted'
    <2> SUFFICES ASSUME NEW r \in RankedGames
                 PROVE  IF Exists(r)
                        THEN /\ bal'[Escrow(r)][SOL] >= RENT_RANKED
                             /\ \A m \in Mints : <<Escrow(r), m>> \in ata'
                        ELSE \A m \in Mints : /\ bal'[Escrow(r)][m] = 0
                                              /\ <<Escrow(r), m>> \notin ata'
      BY DEF EscrowAccounted, SideStep, Exists, Escrow, RankedGamePda
    <2>1. CASE Exists(r)
      <3>1. bal[Escrow(r)][SOL] >= RENT_RANKED
        BY <2>1 DEF SafeInv, EscrowAccounted
      <3>2. bal'[Escrow(r)][SOL] >= RENT_RANKED
        BY <3>1, SideEscrows, SolIsToken, RentAssumption
      <3> QED  BY <2>1, <3>2 DEF SafeInv, EscrowAccounted, SideStep
    <2>2. CASE ~Exists(r)
      <3>1. \A m \in Mints : bal'[Escrow(r)][m] = 0
        BY <2>2, SideEscrows DEF SafeInv, EscrowAccounted, PaymentToken
      <3> QED  BY <2>2, <3>1 DEF SafeInv, EscrowAccounted, SideStep
    <2> QED  BY <2>1, <2>2
  <1> QED  BY <1>1, <1>2 DEF SafeInv

LEMMA SideEnrol == ASSUME EnrolInv, SideStep PROVE EnrolInv'
  <1>1. \A u \in UserAccounts, r \in RankedGames :
           user'[u].current_ranked_game = r =>
              user[u].current_ranked_game = r /\ user'[u].game = user[u].game
    BY KeyAssumption DEF SideStep, KeepsRecord, OpensFresh
  <1> QED  BY <1>1 DEF EnrolInv, EnrolledArePayers, SideStep, Exists

LEMMA SideWins == ASSUME WinsBounded, SideStep PROVE WinsBounded'
  <1> SUFFICES ASSUME NEW u \in UserAccounts
               PROVE  user'[u].total_wins
                        + (IF user'[u].current_ranked_game = DefaultKey THEN 0 ELSE 1)
                        <= user'[u].total_ranked_games_played
    BY DEF WinsBounded
  <1>1. user'[u].total_ranked_games_played \in Nat
    BY WidthAssumption DEF SideStep, UserAccount
  <1>2. CASE KeepsRecord(u)
    BY <1>2 DEF WinsBounded, KeepsRecord
  <1>3. CASE OpensFresh(u)
    BY <1>1, <1>3 DEF OpensFresh
  <1> QED  BY <1>2, <1>3 DEF SideStep

\* To a ranked game, such a step is a gift.
LEMMA SidePot == ASSUME SafeInv, SideStep PROVE Pot!Gift
  <1>1. \A r \in RankedGames, t \in PaymentToken : PotOf(r)'[t] =
           IF ~Exists(r) THEN 0
           ELSE IF t = SOL THEN bal'[Escrow(r)][t] - RENT_RANKED ELSE bal'[Escrow(r)][t]
    BY DEF SideStep, PotOf, Exists, Escrow, RankedGamePda
  <1>2. \A r \in RankedGames, t \in PaymentToken : PotOf(r)[t] =
           IF ~Exists(r) THEN 0
           ELSE IF t = SOL THEN bal[Escrow(r)][t] - RENT_RANKED ELSE bal[Escrow(r)][t]
    BY DEF PotOf
  <1>3. \A r \in RankedGames : Exists(r) =>
           bal[Escrow(r)][SOL] >= RENT_RANKED /\ bal'[Escrow(r)][SOL] >= RENT_RANKED
    BY SideSafe DEF SafeInv, EscrowAccounted, SideStep, Exists, Escrow, RankedGamePda
  <1>4. /\ \A r \in RankedGames : /\ PotOf(r)' = [t \in PaymentToken |-> PotOf(r)'[t]]
                                  /\ PotOf(r) = [t \in PaymentToken |-> PotOf(r)[t]]
    BY DEF PotOf
  <1>5. \A r \in RankedGames, t \in PaymentToken :
           PotOf(r)'[t] \in Nat /\ PotOf(r)'[t] >= PotOf(r)[t]
    BY <1>1, <1>2, <1>3, SideEscrows, RentAssumption
  <1>6. \A r \in RankedGames : PotOf(r)' \in [PaymentToken -> Nat]
    BY <1>4, <1>5
  <1>7. \A r \in RankedGames : ~Exists(r) => PotOf(r)' = PotOf(r)
    <2> SUFFICES ASSUME NEW r \in RankedGames, ~Exists(r)
                 PROVE  PotOf(r)' = PotOf(r)
      OBVIOUS
    <2>1. \A t \in PaymentToken : PotOf(r)'[t] = PotOf(r)[t]
      BY <1>1, <1>2
    <2> QED  BY <1>4, <2>1
  <1>8. \A u \in UserAccounts, r \in RankedGames :
           user'[u].current_ranked_game = r <=> user[u].current_ranked_game = r
    BY KeyAssumption DEF SideStep, KeepsRecord, OpensFresh
  <1>9. \A r \in RankedGames : EntrantsOf(r)' = EntrantsOf(r)
    BY <1>8 DEF SideStep, EntrantsOf, Exists
  <1>10. \A r \in RankedGames : ranked[r].status = "Absent" <=> ~Exists(r)
    BY DEF Exists
  <1>11. /\ [r \in RankedGames |-> ranked'[r].status] = [r \in RankedGames |-> ranked[r].status]
         /\ [r \in RankedGames |-> EntrantsOf(r)'] = [r \in RankedGames |-> EntrantsOf(r)]
    BY <1>9 DEF SideStep
  <1> QED  BY <1>5, <1>6, <1>7, <1>10, <1>11 DEF Pot!Gift

----------------------------------------------------------------------------
(* What each instruction of titles and accounts does to the ledger *)

\* Lamports need no token account.
LEMMA FilledWithSol ==
    ASSUME bal \in Ledgers, NEW b \in Ledgers, NEW S,
           \A h \in Pda, t \in PaymentToken :
              b[h][t] >= bal[h][t] /\ (t # SOL => b[h][t] = bal[h][t])
    PROVE  Filled(b, S)
  BY DEF Filled, CanHold

\* Two credits that one debit pays for.
Split(b, p, h, k, t, z, x, y) ==
    [b EXCEPT ![p][t] = @ - z, ![h][t] = @ + x, ![k][t] = @ + y]

LEMMA SplitLedger ==
    ASSUME NEW b \in Ledgers, NEW p \in Holder, NEW h \in Holder, NEW k \in Holder,
           p # h, p # k, h # k, NEW t \in PaymentToken,
           NEW z \in Nat, NEW x \in Nat, NEW y \in Nat, b[p][t] >= z
    PROVE  /\ Split(b, p, h, k, t, z, x, y) \in Ledgers
           /\ \A q \in Holder : q # p /\ q # h /\ q # k =>
                 Split(b, p, h, k, t, z, x, y)[q] = b[q]
           /\ \A s \in PaymentToken :
                 /\ Split(b, p, h, k, t, z, x, y)[h][s] = b[h][s] + IF s = t THEN x ELSE 0
                 /\ Split(b, p, h, k, t, z, x, y)[k][s] = b[k][s] + IF s = t THEN y ELSE 0
  <1>1. \A q \in Holder, s \in PaymentToken : b[q][s] \in Nat
    BY DEF Ledgers
  <1> DEFINE b1 == [b EXCEPT ![p][t] = b[p][t] - z]
             b2 == [b1 EXCEPT ![h][t] = b[h][t] + x]
             b3 == [b2 EXCEPT ![k][t] = b[k][t] + y]
  <1>2. b[p][t] - z \in Nat /\ b[h][t] + x \in Nat /\ b[k][t] + y \in Nat
    BY <1>1
  <1>3. b1 \in Ledgers
    BY <1>2, OneBalance
  <1>4. b3 \in Ledgers
    <2> HIDE DEF b1
    <2>1. b2 \in Ledgers
      BY <1>2, <1>3, OneBalance
    <2> HIDE DEF b2
    <2> QED  BY <1>2, <2>1, OneBalance
  <1>5. Split(b, p, h, k, t, z, x, y) = b3
    BY DEF Split, Ledgers
  <1>6. \A q \in Holder : q # p /\ q # h /\ q # k => b3[q] = b[q]
    BY DEF Ledgers
  <1>7. \A s \in PaymentToken :
           /\ b3[h][s] = b[h][s] + IF s = t THEN x ELSE 0
           /\ b3[k][s] = b[k][s] + IF s = t THEN y ELSE 0
    BY <1>1 DEF Ledgers
  <1> QED  BY <1>4, <1>5, <1>6, <1>7

\* One credit that one debit pays for.
Move(b, p, h, t, x) == [b EXCEPT ![p][t] = @ - x, ![h][t] = @ + x]

LEMMA MoveLedger ==
    ASSUME NEW b \in Ledgers, NEW p \in Holder, NEW h \in Holder, p # h,
           NEW t \in PaymentToken, NEW x \in Nat, b[p][t] >= x
    PROVE  /\ Move(b, p, h, t, x) \in Ledgers
           /\ \A q \in Holder : q # p /\ q # h => Move(b, p, h, t, x)[q] = b[q]
           /\ \A s \in PaymentToken :
                 Move(b, p, h, t, x)[h][s] = b[h][s] + IF s = t THEN x ELSE 0
  <1>1. \A q \in Holder, s \in PaymentToken : b[q][s] \in Nat
    BY DEF Ledgers
  <1> DEFINE b1 == [b EXCEPT ![p][t] = b[p][t] - x]
             b2 == [b1 EXCEPT ![h][t] = b[h][t] + x]
  <1>2. b[p][t] - x \in Nat /\ b[h][t] + x \in Nat
    BY <1>1
  <1>3. b2 \in Ledgers
    <2>1. b1 \in Ledgers
      BY <1>2, OneBalance
    <2> HIDE DEF b1
    <2> QED  BY <1>2, <2>1, OneBalance
  <1>4. Move(b, p, h, t, x) = b2
    BY DEF Move, Ledgers
  <1>5. \A q \in Holder : q # p /\ q # h => b2[q] = b[q]
    BY DEF Ledgers
  <1>6. \A s \in PaymentToken : b2[h][s] = b[h][s] + IF s = t THEN x ELSE 0
    BY <1>1 DEF Ledgers
  <1> QED  BY <1>3, <1>4, <1>5, <1>6

LEMMA TopUpIsNat ==
    ASSUME bal \in Ledgers, NEW h \in Holder, NEW floor \in Nat
    PROVE  TopUp(h, floor) \in Nat
  <1>1. bal[h][SOL] \in Nat
    BY SolIsToken DEF Ledgers
  <1> QED  BY <1>1 DEF TopUp

LEMMA CreateGameLedger ==
    ASSUME bal \in Ledgers, NEW w \in Wallets, NEW g \in Games, NEW offer \in Offers,
           CreateGame(w, g, offer)
    PROVE  /\ Filled(bal', {})
           /\ \A t \in PaymentToken :
                 /\ bal'[GamePda(g)][t]
                      = bal[GamePda(g)][t] + IF t = SOL THEN GameTopUp(g) ELSE 0
                 /\ bal'[GameProtocolPda(g)][t]
                      = bal[GameProtocolPda(g)][t] + IF t = SOL THEN ProtocolTopUp(g) ELSE 0
  <1> DEFINE P == WalletOf(w)
             G == GamePda(g)
             H == GameProtocolPda(g)
             x == ProtocolTopUp(g)
             y == GameTopUp(g)
             atas == TitleAtas(g)
             due == x + y + RENT_ATA * Cardinality(atas)
  <1>1. /\ P \in Holder /\ G \in Holder /\ H \in Holder /\ P # H /\ P # G /\ H # G
        /\ \A h \in Pda : h \in Holder /\ h # P
    BY Addresses, VaultAddresses, VaultsApart
  <1>2. x \in Nat /\ y \in Nat
    BY <1>1, TopUpIsNat, RentAssumption DEF ProtocolTopUp, GameTopUp
  <1>3. RENT_ATA * Cardinality(atas) \in Nat
    <2>1. IsFiniteSet(Mints)
      <3>1. IsFiniteSet({SKR}) /\ IsFiniteSet({SLICE}) /\ IsFiniteSet({USDC})
        BY FS_Singleton
      <3>2. Mints = ({SKR} \cup {SLICE}) \cup {USDC}
        BY DEF Mints
      <3>3. IsFiniteSet({SKR} \cup {SLICE})
        BY <3>1, FS_Union
      <3> QED  BY <3>1, <3>2, <3>3, FS_Union
    <2>2. /\ IsFiniteSet(MissingAtas(G, Mints)) /\ IsFiniteSet(MissingAtas(H, Mints))
      BY <2>1, FS_Subset DEF MissingAtas
    <2>3. IsFiniteSet({G} \X MissingAtas(G, Mints)) /\ IsFiniteSet({H} \X MissingAtas(H, Mints))
      BY <2>2, FS_Singleton, FS_Product
    <2>4. IsFiniteSet({}) BY FS_EmptySet
    <2>5. IsFiniteSet(atas)
      BY <2>3, <2>4, FS_Union DEF TitleAtas
    <2>6. Cardinality(atas) \in Nat
      BY <2>5, FS_CardinalityType
    <2> QED  BY <2>6, RentAssumption, SMT
  <1> HIDE DEF atas
  <1>4. due \in Nat /\ bal[P][SOL] >= due /\ bal' = Split(bal, P, H, G, SOL, due, x, y)
    BY <1>2, <1>3 DEF CreateGame, Split, atas
  <1> HIDE DEF P, G, H, x, y, due
  <1>5. /\ bal' \in Ledgers
        /\ \A q \in Holder : q # P /\ q # H /\ q # G => bal'[q] = bal[q]
        /\ \A s \in PaymentToken :
              /\ bal'[H][s] = bal[H][s] + IF s = SOL THEN x ELSE 0
              /\ bal'[G][s] = bal[G][s] + IF s = SOL THEN y ELSE 0
    BY <1>1, <1>2, <1>4, SolIsToken, SplitLedger
  <1>6. \A h \in Pda, s \in PaymentToken :
           bal'[h][s] >= bal[h][s] /\ (s # SOL => bal'[h][s] = bal[h][s])
    <2> SUFFICES ASSUME NEW h \in Pda, NEW s \in PaymentToken
                 PROVE  bal'[h][s] >= bal[h][s] /\ (s # SOL => bal'[h][s] = bal[h][s])
      OBVIOUS
    <2>1. bal[h][s] \in Nat /\ h # P /\ h \in Holder
      BY <1>1 DEF Ledgers
    <2>2. CASE h = H
      BY <1>2, <1>5, <2>1, <2>2
    <2>3. CASE h = G
      BY <1>2, <1>5, <2>1, <2>3
    <2>4. CASE h # H /\ h # G
      BY <1>5, <2>1, <2>4
    <2> QED  BY <2>2, <2>3, <2>4
  <1>7. Filled(bal', {})
    BY <1>5, <1>6, FilledWithSol
  <1> QED  BY <1>5, <1>7 DEF G, H, x, y

LEMMA UpgradeLedger ==
    ASSUME bal \in Ledgers, NEW g \in Games, UpgradeGameVersion(g)
    PROVE  /\ Filled(bal', {})
           /\ bal[GamePda(g)][SOL] <= RENT_GAME
           /\ \A t \in PaymentToken : bal'[GamePda(g)][t] =
                 IF t = SOL THEN RENT_GAME ELSE bal[GamePda(g)][t]
  <1> DEFINE P == WalletOf(AUTHORITY)
             G == GamePda(g)
             x == RENT_GAME - bal[G][SOL]
  <1>1. /\ P \in Holder /\ G \in Holder /\ P # G
        /\ \A h \in Pda : h \in Holder /\ h # P
    BY Addresses, VaultAddresses, KeyAssumption
  <1>2. bal[G][SOL] \in Nat
    BY <1>1, SolIsToken DEF Ledgers
  <1>3. bal[G][SOL] <= RENT_GAME /\ x \in Nat /\ bal[P][SOL] >= x /\ bal[G][SOL] + x = RENT_GAME
    BY <1>2, RentAssumption DEF UpgradeGameVersion, GrowthPayable
  <1>4. bal' = [bal EXCEPT ![P][SOL] = @ - x, ![G][SOL] = RENT_GAME]
    BY DEF UpgradeGameVersion
  <1> HIDE DEF P, G, x
  <1>5. bal' = Move(bal, P, G, SOL, x)
    BY <1>1, <1>3, <1>4 DEF Move, Ledgers
  <1>6. /\ bal' \in Ledgers
        /\ \A q \in Holder : q # P /\ q # G => bal'[q] = bal[q]
        /\ \A s \in PaymentToken : bal'[G][s] = bal[G][s] + IF s = SOL THEN x ELSE 0
    BY <1>1, <1>3, <1>5, SolIsToken, MoveLedger
  <1>7. \A s \in PaymentToken : bal'[G][s] = IF s = SOL THEN RENT_GAME ELSE bal[G][s]
    <2>1. \A s \in PaymentToken : bal[G][s] \in Nat
      BY <1>1 DEF Ledgers
    <2> QED  BY <1>3, <1>6, <2>1
  <1>8. \A h \in Pda, s \in PaymentToken :
           bal'[h][s] >= bal[h][s] /\ (s # SOL => bal'[h][s] = bal[h][s])
    <2> SUFFICES ASSUME NEW h \in Pda, NEW s \in PaymentToken
                 PROVE  bal'[h][s] >= bal[h][s] /\ (s # SOL => bal'[h][s] = bal[h][s])
      OBVIOUS
    <2>1. bal[h][s] \in Nat /\ h # P /\ h \in Holder
      BY <1>1 DEF Ledgers
    <2>2. CASE h = G
      BY <1>3, <1>6, <2>1, <2>2
    <2>3. CASE h # G
      BY <1>6, <2>1, <2>3
    <2> QED  BY <2>2, <2>3
  <1>9. Filled(bal', {})
    BY <1>6, <1>8, FilledWithSol
  <1> QED  BY <1>3, <1>7, <1>9 DEF G

\* Clients give; they take from their own wallets only.
LEMMA AtaLedger ==
    ASSUME bal \in Ledgers, NEW w \in Wallets, NEW a \in ClientAtas,
           ClientOpensAta(w, a[1], a[2])
    PROVE  Filled(bal', {})
  <1> DEFINE P == WalletOf(w)
  <1>1. P \in Holder /\ \A h \in Pda : h \in Holder /\ h # P
    BY VaultAddresses
  <1>2. bal[P][SOL] - RENT_ATA \in Nat
    <2>1. bal[P][SOL] \in Nat
      BY <1>1, SolIsToken DEF Ledgers
    <2> QED  BY <2>1, RentAssumption DEF ClientOpensAta
  <1>3. bal' = [bal EXCEPT ![P][SOL] = bal[P][SOL] - RENT_ATA]
    BY DEF ClientOpensAta
  <1> HIDE DEF P
  <1>4. bal' \in Ledgers
    BY <1>1, <1>2, <1>3, SolIsToken, OneBalance
  <1>5. \A h \in Pda : bal'[h] = bal[h]
    BY <1>1, <1>3 DEF Ledgers
  <1>6. \A h \in Pda, t \in PaymentToken : bal[h][t] \in Nat
    BY <1>1 DEF Ledgers
  <1> QED  BY <1>4, <1>5, <1>6 DEF Filled

LEMMA GiftLedger ==
    ASSUME bal \in Ledgers, NEW w \in Wallets, NEW a \in Gifts, ClientSends(w, a[1], a[2])
    PROVE  Filled(bal', {})
  <1>1. a[1] \in Holder /\ a[2] \in PaymentToken
    BY ClientAssumption
  <1>2. bal[WalletOf(w)][a[2]] \in Nat
    BY <1>1, VaultAddresses DEF Ledgers
  <1>3. bal[WalletOf(w)][a[2]] >= 1 /\ CanHold(a[1], a[2])
    BY <1>2 DEF ClientSends
  <1>4. Filled(Transferred(bal, WalletOf(w), a[1], a[2], 1), {})
    BY <1>1, <1>3, NothingFilled, FillTransfer
  <1> QED  BY <1>4 DEF ClientSends

\* The price of an account is a natural, no base unit short of its cents and
\* less than one above them.
LEMMA PriceCovers ==
    ASSUME NEW cost \in Nat, NEW t \in PaymentToken,
           PriceFor(t) \in Nat \ {0}, TokenBase(t) \in Nat
    PROVE  /\ PriceInTokens(cost, t) \in Nat
           /\ Covers(PriceInTokens(cost, t), CentsOf(cost), t)
  <1> DEFINE cents == CentsOf(cost)
             n == cents * CENT_MICRO * TokenBase(t)
             d == PriceFor(t)
             q == CeilDiv(n, d)
  <1>1. cents \in Nat
    BY ScaleAssumption, DivCovers DEF CentsOf
  <1> HIDE DEF cents
  <1>2. n \in Nat
    BY <1>1, ScaleAssumption
  <1> HIDE DEF n
  <1>3. q \in Nat /\ q * d >= n /\ q * d < n + d
    BY <1>2, CeilCovers
  <1>4. PriceInTokens(cost, t) = q
    BY DEF PriceInTokens, UsdCentsToBaseUnits, n, cents
  <1> HIDE DEF q, d
  <1>5. (q - 1) * d < n
    <2>1. d \in Nat
      BY DEF d
    <2>2. (q - 1) * d = q * d - d /\ q * d \in Nat
      BY <1>3, <2>1, SMT
    <2> QED  BY <1>2, <1>3, <2>1, <2>2
  <1>6. Covers(q, cents, t)
    BY <1>3, <1>5 DEF Covers, n, d
  <1> QED  BY <1>3, <1>4, <1>6 DEF cents

\* What a new account costs, in token t.
SaleDue(g, t) ==
    IF AsksPayment(g) THEN PurchaseDue(g, t) ELSE [dev |-> 0, protocol |-> 0]

LEMMA SeedFacts ==
    ASSUME NEW u \in UserAccounts
    PROVE  UserSeed[u].owner \in Wallets /\ UserSeed[u].game \in GameKeys
  BY SeedAssumption

\* What the guards of a purchase give.
LEMMA SaleFacts ==
    ASSUME SafeInv, NEW u \in UserAccounts, NEW t \in PaymentToken,
           NEW to \in Payees(UserSeed[u].game), CreateUserAccount(u, t, to),
           AsksPayment(UserSeed[u].game)
    PROVE  LET g == UserSeed[u].game
               P == WalletOf(UserSeed[u].owner)
               due == PurchaseDue(g, t)
           IN  /\ g \in Games /\ game[g].game_cost \in Nat
               /\ game[g].game_to_protocol_share_bps \in Nat
               /\ PriceFor(t) \in Nat \ {0}
               /\ PriceInTokens(game[g].game_cost, t) \in 0..U64MAX
               /\ due.dev \in Nat /\ due.protocol \in Nat
               /\ to.dev \in Holder /\ CanHold(to.dev, t)
               /\ to.protocol \in Holder /\ CanHold(to.protocol, t)
               /\ bal[P][t] >= due.dev
               /\ Transferred(bal, P, to.dev, t, due.dev)[P][t] >= due.protocol
  <1> DEFINE g == UserSeed[u].game
             P == WalletOf(UserSeed[u].owner)
             cost == game[g].game_cost
             share == game[g].game_to_protocol_share_bps
             total == PriceInTokens(cost, t)
             due == PurchaseDue(g, t)
  <1>1. PaymentAccepted(P, g, t, to)
    BY DEF CreateUserAccount
  <1>2. g \in Games
    BY <1>1 DEF PaymentAccepted, GameLoads
  <1>3. cost \in Nat /\ share \in Nat
    BY <1>2, WidthAssumption DEF SafeInv, TypeOK, AccountsTypeOK, GameAccount
  <1>4. PriceFor(t) \in Nat \ {0}
    BY <1>1, SafeFacts DEF PaymentAccepted
  <1>5. total \in 0..U64MAX
    <2>1. total \in Nat
      BY <1>3, <1>4, SafeFacts, PriceCovers
    <2> HIDE DEF total
    <2>2. FitsU64(total)
      BY <1>1 DEF PaymentAccepted, total
    <2> QED  BY <2>1, <2>2, WidthAssumption DEF FitsU64
  <1>6. due.dev \in Nat /\ due.protocol \in Nat
    <2>1. total \in Nat
      BY <1>5, WidthAssumption
    <2>2. due = SplitProtocolFee(total, share)
      BY DEF PurchaseDue
    <2> HIDE DEF total, share, due
    <2> QED  BY <1>3, <2>1, <2>2, PurchaseParts DEF share
  <1>7. to.dev \in Holder /\ to.protocol \in Holder
    <2>1. GamePda(g) \in Holder /\ GameProtocolPda(g) \in Holder
      BY <1>2, VaultAddresses
    <2> QED  BY <2>1, TitleInputAssumption DEF Payees
  <1>8. /\ CanHold(to.dev, t) /\ CanHold(to.protocol, t)
        /\ bal[P][t] >= due.dev
        /\ Transferred(bal, P, to.dev, t, due.dev)[P][t] >= due.protocol
    BY <1>1 DEF PaymentAccepted, PurchaseGoesThrough
  <1> QED  BY <1>2, <1>3, <1>4, <1>5, <1>6, <1>7, <1>8

\* The payment of a new account, to whomever it goes.
LEMMA PaidLedger ==
    ASSUME SafeInv, NEW u \in UserAccounts, NEW t \in PaymentToken,
           NEW to \in Payees(UserSeed[u].game), CreateUserAccount(u, t, to)
    PROVE  Filled(Paid(WalletOf(UserSeed[u].owner), UserSeed[u].game, t, to), {})
  <1> DEFINE g == UserSeed[u].game
             P == WalletOf(UserSeed[u].owner)
             due == PurchaseDue(g, t)
             b == Transferred(bal, P, to.dev, t, due.dev)
             c == Transferred(b, P, to.protocol, t, due.protocol)
  <1>1. bal \in Ledgers /\ UserSeed[u].owner \in Wallets
    BY SafeFacts, SeedFacts
  <1>2. CASE AsksPayment(g)
    <2>1. /\ due.dev \in Nat /\ due.protocol \in Nat
          /\ to.dev \in Holder /\ CanHold(to.dev, t)
          /\ to.protocol \in Holder /\ CanHold(to.protocol, t)
          /\ bal[P][t] >= due.dev /\ b[P][t] >= due.protocol
      BY <1>2, SaleFacts
    <2> HIDE DEF due
    <2>2. Filled(b, {})
      BY <1>1, <2>1, NothingFilled, FillTransfer
    <2> HIDE DEF b
    <2>3. Filled(c, {})
      BY <1>1, <2>1, <2>2, FillTransfer
    <2>4. Paid(P, g, t, to) = c
      BY <1>2 DEF Paid, Purchased, b, due
    <2> QED  BY <2>3, <2>4
  <1>3. CASE ~AsksPayment(g)
    <2>1. Paid(P, g, t, to) = bal
      BY <1>3 DEF Paid
    <2> QED  BY <1>1, <2>1, NothingFilled
  <1> QED  BY <1>2, <1>3

LEMMA CreateUserLedger ==
    ASSUME SafeInv, NEW u \in UserAccounts, NEW t \in PaymentToken,
           NEW to \in Payees(UserSeed[u].game), CreateUserAccount(u, t, to)
    PROVE  Filled(bal', {}) /\ bal'[UserAccountPda(u)][SOL] = RENT_USER
  <1> DEFINE P == WalletOf(UserSeed[u].owner)
             U == UserAccountPda(u)
             now == Paid(P, UserSeed[u].game, t, to)
  <1>1. /\ bal \in Ledgers /\ UserSeed[u].owner \in Wallets
        /\ P \in Holder /\ U \in Holder /\ U # P /\ SOL \in PaymentToken
    BY SafeFacts, SeedFacts, VaultAddresses, Addresses, SolIsToken
  <1>2. Filled(now, {})
    BY PaidLedger
  <1>3. now[P][SOL] >= RENT_USER /\ now[U][SOL] = 0 /\ bal' = Transferred(now, P, U, SOL, RENT_USER)
    BY DEF CreateUserAccount
  <1> HIDE DEF now
  <1>4. Filled(bal', {})
    BY <1>1, <1>2, <1>3, RentAssumption, FillTransfer DEF CanHold
  <1>5. bal'[U][SOL] = RENT_USER
    <2> HIDE DEF P, U
    <2>1. now \in Ledgers
      BY <1>2 DEF Filled
    <2>2. bal'[U][SOL] = now[U][SOL] - (IF U = P /\ SOL = SOL THEN RENT_USER ELSE 0)
                           + (IF U = U /\ SOL = SOL THEN RENT_USER ELSE 0)
      BY <1>1, <1>3, <2>1, RentAssumption, TransferLedger
    <2> QED  BY <1>1, <1>3, <2>2, RentAssumption
  <1> QED  BY <1>4, <1>5

\* A buyer that names the title's own accounts fills its two vaults.
LEMMA SaleLedger ==
    ASSUME SafeInv, NEW u \in UserAccounts, NEW t \in PaymentToken,
           UserSeed[u].game \in Games,
           CreateUserAccount(u, t, OwnPayees(UserSeed[u].game))
    PROVE  LET g == UserSeed[u].game
           IN  \A s \in PaymentToken :
                 /\ bal'[GamePda(g)][s]
                      = bal[GamePda(g)][s] + IF s = t THEN SaleDue(g, t).dev ELSE 0
                 /\ bal'[GameProtocolPda(g)][s]
                      = bal[GameProtocolPda(g)][s]
                          + IF s = t THEN SaleDue(g, t).protocol ELSE 0
  <1> DEFINE g == UserSeed[u].game
             to == OwnPayees(g)
             P == WalletOf(UserSeed[u].owner)
             U == UserAccountPda(u)
             G == GamePda(g)
             H == GameProtocolPda(g)
             due == PurchaseDue(g, t)
             b == Transferred(bal, P, G, t, due.dev)
             c == Transferred(b, P, H, t, due.protocol)
             now == Paid(P, g, t, to)
  <1>1. /\ bal \in Ledgers /\ UserSeed[u].owner \in Wallets
        /\ P \in Holder /\ U \in Holder /\ G \in Holder /\ H \in Holder
        /\ U # P /\ G # P /\ H # P /\ G # H /\ U # G /\ U # H
    BY SafeFacts, SeedFacts, VaultAddresses, VaultsApart, Addresses
  <1>2. to \in Payees(g) /\ to.dev = G /\ to.protocol = H
    BY DEF Payees, OwnPayees
  <1>3. now \in Ledgers
    BY <1>2, PaidLedger DEF Filled
  <1>4. now[P][SOL] >= RENT_USER /\ bal' = Transferred(now, P, U, SOL, RENT_USER)
    BY DEF CreateUserAccount
  <1>5. \A s \in PaymentToken :
           /\ now[G][s] = bal[G][s] + IF s = t THEN SaleDue(g, t).dev ELSE 0
           /\ now[H][s] = bal[H][s] + IF s = t THEN SaleDue(g, t).protocol ELSE 0
    <2>1. CASE AsksPayment(g)
      <3>1. /\ due.dev \in Nat /\ due.protocol \in Nat
            /\ bal[P][t] >= due.dev /\ b[P][t] >= due.protocol
        BY <1>2, <2>1, SaleFacts
      <3>2. now = c /\ SaleDue(g, t) = due
        BY <1>2, <2>1 DEF Paid, Purchased, SaleDue
      <3> HIDE DEF P, G, H, U, due, now, g
      <3>3. /\ b \in Ledgers
            /\ \A h \in Holder, s \in PaymentToken :
                  b[h][s] = bal[h][s] - (IF h = P /\ s = t THEN due.dev ELSE 0)
                              + (IF h = G /\ s = t THEN due.dev ELSE 0)
        BY <1>1, <3>1, TransferLedger
      <3> HIDE DEF b
      <3>4. \A h \in Holder, s \in PaymentToken :
               c[h][s] = b[h][s] - (IF h = P /\ s = t THEN due.protocol ELSE 0)
                           + (IF h = H /\ s = t THEN due.protocol ELSE 0)
        BY <1>1, <3>1, <3>3, TransferLedger
      <3> HIDE DEF c
      <3>5. \A s \in PaymentToken : bal[G][s] \in Nat /\ bal[H][s] \in Nat
        BY <1>1 DEF Ledgers
      <3>6. \A s \in PaymentToken :
               /\ c[G][s] = bal[G][s] + IF s = t THEN due.dev ELSE 0
               /\ c[H][s] = bal[H][s] + IF s = t THEN due.protocol ELSE 0
        BY <1>1, <3>1, <3>3, <3>4, <3>5
      <3> QED  BY <3>2, <3>6
    <2>2. CASE ~AsksPayment(g)
      <3>1. now = bal /\ SaleDue(g, t).dev = 0 /\ SaleDue(g, t).protocol = 0
        BY <2>2 DEF Paid, SaleDue
      <3>2. \A s \in PaymentToken : bal[G][s] \in Nat /\ bal[H][s] \in Nat
        BY <1>1 DEF Ledgers
      <3> HIDE DEF now, G, H, g
      <3> QED  BY <3>1, <3>2
    <2> QED  BY <2>1, <2>2
  <1> HIDE DEF now, P, U, G, H, g
  <1>6. \A h \in Holder, s \in PaymentToken :
           bal'[h][s] = now[h][s] - (IF h = P /\ s = SOL THEN RENT_USER ELSE 0)
                          + (IF h = U /\ s = SOL THEN RENT_USER ELSE 0)
    BY <1>1, <1>3, <1>4, RentAssumption, SolIsToken, TransferLedger
  <1>7. \A s \in PaymentToken : now[G][s] \in Nat /\ now[H][s] \in Nat
    BY <1>1, <1>3 DEF Ledgers
  <1>8. \A s \in PaymentToken : bal'[G][s] = now[G][s] /\ bal'[H][s] = now[H][s]
    BY <1>1, <1>6, <1>7
  <1> QED  BY <1>5, <1>8 DEF G, H, g

LEMMA RewardUserLedger ==
    ASSUME SafeInv, NEW u \in UserAccounts, NEW bps \in PoolBps, RewardUserAccount(u, bps)
    PROVE  LET H == GameProtocolPda(user[u].game)
               U == UserAccountPda(u)
               paid == PoolShare(user[u].game, bps)
           IN  /\ user[u].game \in Games
               /\ Filled(bal', {H})
               /\ \A t \in PaymentToken :
                     /\ paid[t] \in 0..Withdrawable(H, RENT_EMPTY, t)
                     /\ bal'[H][t] = bal[H][t] - paid[t]
                     /\ bal'[U][t] = bal[U][t] + paid[t]
               /\ \A h \in Holder : h # H /\ h # U =>
                     \A t \in PaymentToken : bal'[h][t] = bal[h][t]
  <1> DEFINE g == user[u].game
             H == GameProtocolPda(g)
             U == UserAccountPda(u)
             paid == PoolShare(g, bps)
  <1>1. g \in Games
    BY DEF RewardUserAccount, Awardable, GameLoads
  <1>2. /\ H \in Holder /\ U \in Holder /\ H # U /\ VaultHolder \subseteq Holder
        /\ H \in VaultHolder /\ U \in VaultHolder
        /\ Pda \subseteq Holder
    BY <1>1, Addresses, VaultAddresses, VaultsApart
  <1>3. bal \in Ledgers /\ \A q \in Holder, t \in PaymentToken : bal[q][t] \in Nat
    BY SafeFacts DEF Ledgers
  <1>4. bps \in Nat /\ bps <= BPS_DENOMINATOR
    BY TitleInputAssumption, WidthAssumption DEF RewardUserAccount, Awardable
  <1>5. \A t \in PaymentToken : Withdrawable(H, RENT_EMPTY, t) \in 0..bal[H][t]
    BY <1>2, <1>3, OutBound, RentAssumption
  <1>6. \A t \in PaymentToken : paid[t] \in 0..Withdrawable(H, RENT_EMPTY, t)
    <2> SUFFICES ASSUME NEW t \in PaymentToken
                 PROVE  paid[t] \in 0..Withdrawable(H, RENT_EMPTY, t)
      OBVIOUS
    <2>1. Withdrawable(H, RENT_EMPTY, t) \in Nat
      BY <1>2, <1>3, <1>5
    <2>2. paid[t] = BpsOf(Withdrawable(H, RENT_EMPTY, t), bps)
      BY DEF PoolShare, ProtocolPool
    <2> QED  BY <1>4, <2>1, <2>2, BpsBound
  <1>7. bal' = [bal EXCEPT ![H] = [t \in PaymentToken |-> bal[H][t] - paid[t]],
                           ![U] = [t \in PaymentToken |-> bal[U][t] + paid[t]]]
    BY <1>2, <1>3 DEF RewardUserAccount, Awardable, RewardMoved, Ledgers
  <1>8. \A t \in PaymentToken : paid[t] > 0 => CanHold(U, t)
    BY DEF RewardUserAccount, Awardable, Receives, CanHold, PaymentToken
  <1> HIDE DEF paid, H, U, g
  <1>9. \A t \in PaymentToken :
           /\ paid[t] \in Nat
           /\ bal[H][t] - paid[t] \in Nat /\ bal[U][t] + paid[t] \in Nat
    BY <1>2, <1>3, <1>5, <1>6
  <1>10. bal' \in Ledgers
    BY <1>2, <1>3, <1>7, <1>9 DEF Ledgers
  <1>11. /\ \A q \in Holder : q # H /\ q # U => bal'[q] = bal[q]
         /\ \A t \in PaymentToken : /\ bal'[H][t] = bal[H][t] - paid[t]
                                    /\ bal'[U][t] = bal[U][t] + paid[t]
    BY <1>2, <1>3, <1>7 DEF Ledgers
  <1>12. \A q \in Pda \ {H}, t \in PaymentToken :
            bal'[q][t] >= bal[q][t] /\ (bal'[q][t] = bal[q][t] \/ CanHold(q, t))
    <2> SUFFICES ASSUME NEW q \in Pda, q # H, NEW t \in PaymentToken
                 PROVE  bal'[q][t] >= bal[q][t] /\ (bal'[q][t] = bal[q][t] \/ CanHold(q, t))
      OBVIOUS
    <2>1. q \in Holder /\ bal[q][t] \in Nat /\ paid[t] \in Nat
      BY <1>2, <1>3, <1>9
    <2>2. CASE q = U /\ paid[t] > 0
      BY <1>8, <1>11, <2>1, <2>2
    <2>3. CASE q = U /\ paid[t] = 0
      BY <1>11, <2>1, <2>3
    <2>4. CASE q # U
      BY <1>11, <2>1, <2>4
    <2> QED  BY <2>1, <2>2, <2>3, <2>4
  <1>13. Filled(bal', {H})
    BY <1>10, <1>12 DEF Filled
  <1>14. \A q \in Holder : q # H /\ q # U => \A t \in PaymentToken : bal'[q][t] = bal[q][t]
    BY <1>11
  <1> QED  BY <1>1, <1>6, <1>11, <1>13, <1>14 DEF paid, H, U, g

----------------------------------------------------------------------------
(***************************************************************************)
(* The invariant of the whole program. To what holds of ranked games it    *)
(* adds titles, accounts and rents, which need each other: a withdrawal    *)
(* leaves the rent because it was there. The account that another was      *)
(* opened in stays open.                                                   *)
(***************************************************************************)
Seeded ==
    /\ protocols \in SUBSET Games
    /\ \A g \in Games : game[g].version # "Absent" =>
          g \in protocols /\ game[g].owner \in Wallets
    /\ \A u \in UserAccounts : user[u].is_initialized =>
          /\ user[u].owner = UserSeed[u].owner
          /\ user[u].game = UserSeed[u].game
          /\ \/ user[u].game \in Games /\ game[user[u].game].version # "Absent"
             \/ user[u].game \in FreeNames /\ user[user[u].game].is_initialized

Unopened ==
    \A u \in UserAccounts :
        ~user[u].is_initialized => user[u].current_ranked_game = DefaultKey

IndieInv == SafeInv /\ Seeded /\ AccountsFunded /\ Unopened

LEMMA IndieFacts ==
    ASSUME IndieInv
    PROVE  /\ SafeInv /\ bal \in Ledgers
           /\ game \in [Games -> GameAccount] /\ user \in [UserAccounts -> UserAccount]
           /\ ata \in SUBSET (Holder \X Mints)
           /\ Seeded /\ AccountsFunded /\ Unopened
  BY SafeFacts DEF IndieInv, SafeInv, TypeOK, AccountsTypeOK

LEMMA RentBound ==
    /\ \A g \in Games : game[g] \in GameAccount => RentOf(g) \in 0..RENT_GAME
    /\ \A g \in Games : game'[g] \in GameAccount => RentOf(g)' \in 0..RENT_GAME
  BY RentAssumption DEF RentOf, GameAccount

LEMMA SideUnopened == ASSUME Unopened, SideStep PROVE Unopened'
  BY DEF Unopened, SideStep, KeepsRecord, OpensFresh

\* Titles and accounts that keep existing, the accounts as they were opened.
LEMMA SameSeeded ==
    ASSUME Seeded, protocols \subseteq protocols', protocols' \subseteq Games,
           \A g \in Games :
              /\ game[g].version # "Absent" => game'[g].version # "Absent"
              /\ game'[g].version # "Absent" => g \in protocols' /\ game'[g].owner \in Wallets,
           \A u \in UserAccounts : /\ user'[u].is_initialized = user[u].is_initialized
                                   /\ user'[u].owner = user[u].owner
                                   /\ user'[u].game = user[u].game
    PROVE  Seeded'
  <1>1. ASSUME NEW u \in UserAccounts, user'[u].is_initialized
        PROVE  \/ user'[u].game \in Games /\ game'[user'[u].game].version # "Absent"
               \/ user'[u].game \in FreeNames /\ user'[user'[u].game].is_initialized
    BY <1>1, SeedAssumption DEF Seeded
  <1> QED  BY <1>1 DEF Seeded

\* What side steps with the same users have to show.
LEMMA SideOf ==
    ASSUME IndieInv, UNCHANGED <<oracle, ranked, usedIds, entered, user>>,
           NEW S \in SUBSET VaultHolder, Filled(bal', S),
           ata' \in SUBSET (Holder \X Mints),
           \A r \in RankedGames, m \in Mints :
              <<Escrow(r), m>> \in ata' <=> <<Escrow(r), m>> \in ata,
           game' \in [Games -> GameAccount]
    PROVE  SideStep
  <1>1. Filled(bal', VaultHolder)
    BY DEF Filled
  <1> QED  BY <1>1, IndieFacts DEF SideStep, KeepsRecord

\* What steps have to show of the rents: of the accounts they open, of those
\* they take from, and of the titles whose rent changes.
LEMMA FundedRows ==
    ASSUME IndieInv, NEW S, Filled(bal', S), protocols' \subseteq Games,
           game' \in [Games -> GameAccount],
           \A k \in Games : \/ RentOf(k)' = RentOf(k) /\ GamePda(k) \notin S
                            \/ bal'[GamePda(k)][SOL] >= RentOf(k)',
           \A k \in protocols' : \/ k \in protocols /\ GameProtocolPda(k) \notin S
                                 \/ bal'[GameProtocolPda(k)][SOL] >= RENT_EMPTY,
           \A u \in UserAccounts : user'[u].is_initialized =>
              \/ user[u].is_initialized /\ UserAccountPda(u) \notin S
              \/ bal'[UserAccountPda(u)][SOL] >= RENT_USER
    PROVE  AccountsFunded'
  <1>1. AccountsFunded /\ bal \in Ledgers /\ game \in [Games -> GameAccount]
    BY IndieFacts
  <1>2. \A h \in VaultHolder : bal[h][SOL] \in Nat /\ bal'[h][SOL] \in Nat
    BY <1>1, VaultAddresses, SolIsToken DEF Filled, Ledgers
  <1>3. \A h \in VaultHolder \ S : bal'[h][SOL] >= bal[h][SOL]
    BY VaultAddresses, SolIsToken DEF Filled
  <1>4. ASSUME NEW k \in Games PROVE bal'[GamePda(k)][SOL] >= RentOf(k)'
    <2>1. CASE RentOf(k)' = RentOf(k) /\ GamePda(k) \notin S
      <3>1. bal[GamePda(k)][SOL] >= RentOf(k) /\ RentOf(k) \in 0..RENT_GAME
        BY <1>1, RentBound DEF AccountsFunded
      <3>2. GamePda(k) \in VaultHolder
        BY VaultAddresses
      <3> QED  BY <1>2, <1>3, <2>1, <3>1, <3>2, RentAssumption
    <2>2. CASE bal'[GamePda(k)][SOL] >= RentOf(k)'
      BY <2>2
    <2> QED  BY <2>1, <2>2
  <1>5. ASSUME NEW k \in protocols' PROVE bal'[GameProtocolPda(k)][SOL] >= RENT_EMPTY
    <2>1. CASE k \in protocols /\ GameProtocolPda(k) \notin S
      <3>1. bal[GameProtocolPda(k)][SOL] >= RENT_EMPTY
        BY <1>1, <2>1 DEF AccountsFunded
      <3>2. GameProtocolPda(k) \in VaultHolder
        BY VaultAddresses
      <3> QED  BY <1>2, <1>3, <2>1, <3>1, <3>2, RentAssumption
    <2>2. CASE bal'[GameProtocolPda(k)][SOL] >= RENT_EMPTY
      BY <2>2
    <2> QED  BY <2>1, <2>2
  <1>6. ASSUME NEW u \in UserAccounts, user'[u].is_initialized
        PROVE  bal'[UserAccountPda(u)][SOL] >= RENT_USER
    <2>1. CASE user[u].is_initialized /\ UserAccountPda(u) \notin S
      <3>1. bal[UserAccountPda(u)][SOL] >= RENT_USER
        BY <1>1, <2>1 DEF AccountsFunded
      <3>2. UserAccountPda(u) \in VaultHolder
        BY VaultAddresses
      <3> QED  BY <1>2, <1>3, <2>1, <3>1, <3>2, RentAssumption
    <2>2. CASE bal'[UserAccountPda(u)][SOL] >= RENT_USER
      BY <2>2
    <2> QED  BY <1>6, <2>1, <2>2
  <1> QED  BY <1>4, <1>5, <1>6 DEF AccountsFunded, GamePda, GameProtocolPda, UserAccountPda

\* The same for steps that open nothing and change no title's layout.
LEMMA FundedQuietly ==
    ASSUME IndieInv, NEW S, Filled(bal', S), protocols' = protocols,
           game' \in [Games -> GameAccount],
           \A k \in Games : game'[k].version = game[k].version,
           \A u \in UserAccounts : user'[u].is_initialized = user[u].is_initialized,
           \A k \in Games : GamePda(k) \in S => bal'[GamePda(k)][SOL] >= RentOf(k),
           \A k \in protocols : GameProtocolPda(k) \in S =>
              bal'[GameProtocolPda(k)][SOL] >= RENT_EMPTY,
           \A u \in UserAccounts : user[u].is_initialized /\ UserAccountPda(u) \in S =>
              bal'[UserAccountPda(u)][SOL] >= RENT_USER
    PROVE  AccountsFunded'
  <1>1. \A k \in Games : RentOf(k)' = RentOf(k)
    BY DEF RentOf
  <1>2. protocols' \subseteq Games
    BY DEF IndieInv, Seeded
  <1> QED  BY <1>1, <1>2, FundedRows

LEMMA TermsKept ==
    ASSUME IndieInv, NEW w \in Wallets, NEW g \in Games,
           \/ \E fees \in FeeShares : UpdateFeeShare(w, g, fees)
           \/ \E cost \in GameCosts : UpdateGameCost(w, g, cost)
           \/ \E new_owner \in Wallets : TransferGameOwnership(w, g, new_owner)
    PROVE  /\ UNCHANGED <<oracle, user, ranked, bal, ata, protocols>>
           /\ game' \in [Games -> GameAccount]
           /\ \A k \in Games : /\ game'[k].version = game[k].version
                               /\ game'[k].total_users = game[k].total_users
                               /\ game[k].version # "Absent" => game'[k].owner \in Wallets
  <1>0. game \in [Games -> GameAccount]
    BY IndieFacts
  <1>1. \A k \in Games : game[k].version # "Absent" => game[k].owner \in Wallets
    BY DEF IndieInv, Seeded
  <1>2. ASSUME NEW fees \in FeeShares, UpdateFeeShare(w, g, fees)
        PROVE  game' \in [Games -> GameAccount]
               /\ \A k \in Games : /\ game'[k].version = game[k].version
                                   /\ game'[k].total_users = game[k].total_users
                                   /\ game'[k].owner = game[k].owner
    <2>1. fees.dev_fee_bps \in 0..U16MAX /\ fees.game_to_protocol_share_bps \in 0..U16MAX
      BY TitleInputAssumption
    <2> QED  BY <1>0, <1>2, <2>1 DEF UpdateFeeShare, GameAccount
  <1>3. ASSUME NEW cost \in GameCosts, UpdateGameCost(w, g, cost)
        PROVE  game' \in [Games -> GameAccount]
               /\ \A k \in Games : /\ game'[k].version = game[k].version
                                   /\ game'[k].total_users = game[k].total_users
                                   /\ game'[k].owner = game[k].owner
    <2>1. cost \in 0..U64MAX
      BY TitleInputAssumption
    <2> QED  BY <1>0, <1>3, <2>1 DEF UpdateGameCost, GameAccount
  <1>4. ASSUME NEW new_owner \in Wallets, TransferGameOwnership(w, g, new_owner)
        PROVE  game' \in [Games -> GameAccount]
               /\ \A k \in Games : /\ game'[k].version = game[k].version
                                   /\ game'[k].total_users = game[k].total_users
                                   /\ \/ game'[k].owner = game[k].owner
                                      \/ game'[k].owner \in Wallets
    BY <1>0, <1>4 DEF TransferGameOwnership, GameAccount
  <1>5. UNCHANGED <<oracle, user, ranked, bal, ata, protocols>>
    BY DEF UpdateFeeShare, UpdateGameCost, TransferGameOwnership
  <1> QED  BY <1>1, <1>2, <1>3, <1>4, <1>5

LEMMA TermsIndie ==
    ASSUME IndieInv, NEW w \in Wallets, NEW g \in Games, UNCHANGED <<usedIds, entered>>,
           \/ \E fees \in FeeShares : UpdateFeeShare(w, g, fees)
           \/ \E cost \in GameCosts : UpdateGameCost(w, g, cost)
           \/ \E new_owner \in Wallets : TransferGameOwnership(w, g, new_owner)
    PROVE  SideStep /\ Seeded' /\ AccountsFunded'
  <1>1. /\ UNCHANGED <<oracle, user, ranked, bal, ata, protocols>>
        /\ game' \in [Games -> GameAccount]
        /\ \A k \in Games : /\ game'[k].version = game[k].version
                            /\ game[k].version # "Absent" => game'[k].owner \in Wallets
    BY TermsKept
  <1>2. Filled(bal', {})
    BY <1>1, IndieFacts, NothingFilled
  <1>3. SideStep
    BY <1>1, <1>2, IndieFacts, SideOf
  <1>4. Seeded'
    <2>1. Seeded /\ protocols \subseteq Games
      BY IndieFacts DEF Seeded
    <2> QED  BY <1>1, <2>1, SameSeeded DEF Seeded
  <1>5. AccountsFunded'
    BY <1>1, <1>2, FundedQuietly
  <1> QED  BY <1>3, <1>4, <1>5

LEMMA CreateGameIndie ==
    ASSUME IndieInv, NEW w \in Wallets, NEW g \in Games, NEW offer \in Offers,
           CreateGame(w, g, offer), UNCHANGED <<usedIds, entered>>
    PROVE  SideStep /\ Seeded' /\ AccountsFunded'
  <1> DEFINE G == GamePda(g)
             H == GameProtocolPda(g)
  <1>0. /\ bal \in Ledgers /\ game \in [Games -> GameAccount]
        /\ ata \in SUBSET (Holder \X Mints) /\ Seeded /\ AccountsFunded
    BY IndieFacts DEF IndieInv
  <1>1. /\ Filled(bal', {})
        /\ bal'[G][SOL] = bal[G][SOL] + GameTopUp(g)
        /\ bal'[H][SOL] = bal[H][SOL] + ProtocolTopUp(g)
    BY <1>0, CreateGameLedger, SolIsToken
  <1>2. /\ UNCHANGED <<oracle, user, ranked>> /\ protocols' = protocols \cup {g}
        /\ ata' = ata \cup TitleAtas(g) /\ game' = Registered(w, g, offer)
    BY DEF CreateGame
  <1>3. /\ G \in VaultHolder /\ H \in VaultHolder
        /\ \A r \in RankedGames : Escrow(r) # G /\ Escrow(r) # H
        /\ G \in Holder /\ H \in Holder
    BY VaultAddresses
  <1>4. TitleAtas(g) \subseteq {G, H} \X Mints
    BY DEF TitleAtas, MissingAtas
  <1>5. /\ ata' \in SUBSET (Holder \X Mints)
        /\ \A r \in RankedGames, m \in Mints :
              <<Escrow(r), m>> \in ata' <=> <<Escrow(r), m>> \in ata
    BY <1>0, <1>2, <1>3, <1>4
  <1>6. /\ game' \in [Games -> GameAccount]
        /\ \A k \in Games : k # g => game'[k] = game[k]
        /\ game'[g].version # "Absent"
        /\ game[g].version # "Absent" => game'[g] = game[g]
        /\ game[g].version = "Absent" => game'[g].version = "V2" /\ game'[g].owner = w
    <2>1. CASE game[g].version # "Absent"
      BY <1>0, <1>2, <2>1 DEF Registered
    <2>2. CASE game[g].version = "Absent"
      <3>1. game' = [game EXCEPT ![g] =
              [version |-> "V2", owner |-> w, dev_fee_bps |-> offer.dev_fee_bps,
               game_to_protocol_share_bps |-> offer.game_to_protocol_share_bps,
               game_cost |-> offer.game_cost, total_users |-> 0]]
        BY <1>2, <2>2 DEF Registered
      <3>2. /\ offer.dev_fee_bps \in 0..U16MAX /\ offer.game_cost \in 0..U64MAX
            /\ offer.game_to_protocol_share_bps \in 0..U16MAX /\ 0 \in 0..U32MAX
        BY TitleInputAssumption, WidthAssumption
      <3> QED  BY <1>0, <2>2, <3>1, <3>2 DEF GameAccount
    <2> QED  BY <2>1, <2>2
  <1>7. SideStep
    BY <1>1, <1>2, <1>5, <1>6, SideOf
  <1>8. Seeded'
    BY <1>0, <1>2, <1>6, SameSeeded DEF Seeded
  <1>9. ASSUME NEW k \in Games
        PROVE  RentOf(k)' = RentOf(k) \/ bal'[GamePda(k)][SOL] >= RentOf(k)'
    <2>1. CASE k # g \/ game[g].version # "Absent"
      BY <1>6, <2>1 DEF RentOf
    <2>2. CASE k = g /\ game[g].version = "Absent"
      <3>1. RentOf(g)' = RENT_GAME
        BY <1>6, <2>2 DEF RentOf
      <3>2. bal[G][SOL] \in Nat
        BY <1>0, <1>3, SolIsToken DEF Ledgers
      <3>3. bal'[G][SOL] >= RENT_GAME
        BY <1>1, <2>2, <3>2, RentAssumption DEF GameTopUp, TopUp
      <3> QED  BY <2>2, <3>1, <3>3
    <2> QED  BY <2>1, <2>2
  <1>10. ASSUME NEW k \in protocols'
         PROVE  k \in protocols \/ bal'[GameProtocolPda(k)][SOL] >= RENT_EMPTY
    <2>1. CASE k = g /\ g \notin protocols
      <3>1. bal[H][SOL] \in Nat
        BY <1>0, <1>3, SolIsToken DEF Ledgers
      <3> QED  BY <1>1, <2>1, <3>1, RentAssumption DEF ProtocolTopUp, TopUp
    <2> QED  BY <1>2, <2>1
  <1>11. protocols' \subseteq Games /\ user' = user
    BY <1>0, <1>2 DEF Seeded
  <1>12. AccountsFunded'
    BY <1>1, <1>6, <1>9, <1>10, <1>11, FundedRows
  <1> QED  BY <1>7, <1>8, <1>12

LEMMA UpgradeIndie ==
    ASSUME IndieInv, NEW g \in Games, UpgradeGameVersion(g), UNCHANGED <<usedIds, entered>>
    PROVE  SideStep /\ Seeded' /\ AccountsFunded'
  <1> DEFINE G == GamePda(g)
  <1>0. /\ bal \in Ledgers /\ game \in [Games -> GameAccount]
        /\ ata \in SUBSET (Holder \X Mints) /\ Seeded /\ AccountsFunded
    BY IndieFacts DEF IndieInv
  <1>1. Filled(bal', {}) /\ bal'[G][SOL] = RENT_GAME
    BY <1>0, UpgradeLedger, SolIsToken
  <1>2. /\ UNCHANGED <<oracle, user, ranked, ata, protocols>>
        /\ game' = [game EXCEPT ![g].version = "V2", ![g].game_cost = 0, ![g].total_users = 0]
        /\ game[g].version = "V1"
    BY DEF UpgradeGameVersion, Upgraded
  <1>3. /\ game' \in [Games -> GameAccount]
        /\ \A k \in Games : /\ game'[k].version # "Absent" <=> game[k].version # "Absent"
                            /\ game'[k].owner = game[k].owner
                            /\ k # g => game'[k] = game[k]
        /\ game'[g].version = "V2"
    <2>1. 0 \in 0..U64MAX /\ 0 \in 0..U32MAX
      BY WidthAssumption
    <2> QED  BY <1>0, <1>2, <2>1, ZenonT(60) DEF GameAccount
  <1>4. SideStep
    BY <1>0, <1>1, <1>2, <1>3, SideOf
  <1>5. Seeded'
    BY <1>0, <1>2, <1>3, SameSeeded DEF Seeded
  <1>6. \A k \in Games : RentOf(k)' = RentOf(k) \/ bal'[GamePda(k)][SOL] >= RentOf(k)'
    <2>1. \A k \in Games : k # g => RentOf(k)' = RentOf(k)
      BY <1>3 DEF RentOf
    <2>2. RentOf(g)' = RENT_GAME
      BY <1>3 DEF RentOf
    <2> QED  BY <1>1, <2>1, <2>2, RentAssumption
  <1>7. protocols' = protocols /\ protocols \subseteq Games
    BY <1>0, <1>2 DEF Seeded
  <1>8. AccountsFunded'
    BY <1>1, <1>2, <1>3, <1>6, <1>7, FundedRows
  <1> QED  BY <1>4, <1>5, <1>8

LEMMA DeveloperWithdrawIndie ==
    ASSUME IndieInv, NEW w \in Wallets, NEW g \in Games,
           NEW dst \in [Mints -> Destinations],
           DeveloperWithdraw(w, g, dst), UNCHANGED <<usedIds, entered>>
    PROVE  SideStep /\ Seeded' /\ AccountsFunded'
  <1> DEFINE G == GamePda(g)
  <1>0. /\ bal \in Ledgers /\ game \in [Games -> GameAccount]
        /\ ata \in SUBSET (Holder \X Mints) /\ Seeded /\ AccountsFunded
        /\ G \in VaultHolder /\ G \in Holder /\ {G} \in SUBSET VaultHolder
    BY IndieFacts, VaultAddresses DEF IndieInv
  <1>1. /\ UNCHANGED <<oracle, game, user, ranked, ata, protocols>>
        /\ bal' = Drained(G, RENT_GAME, Directed(w, dst)) /\ CanDrainTo(G, dst)
        /\ game[g].version = "V2"
    BY DEF DeveloperWithdraw, OwnedBy, GameLoads
  <1>2. Filled(bal', {G}) /\ bal'[G][SOL] = bal[G][SOL] - Surplus(G, RENT_GAME)
    <2>1. dst \in [Mints -> Holder]
      BY TitleInputAssumption
    <2> QED  BY <1>0, <1>1, <2>1, DrainLedger, RentAssumption DEF Withdrawable, DrainedRows
  <1>3. RentOf(g) = RENT_GAME
    BY <1>1 DEF RentOf
  <1>4. bal'[G][SOL] >= RENT_GAME
    <2>1. bal[G][SOL] >= RENT_GAME
      BY <1>0, <1>3 DEF AccountsFunded
    <2> QED  BY <1>0, <1>2, <2>1, SurplusBound, RentAssumption
  <1>5. SideStep
    BY <1>0, <1>1, <1>2, SideOf
  <1>6. Seeded'
    BY <1>0, <1>1, SameSeeded DEF Seeded
  <1>7. AccountsFunded'
    BY <1>0, <1>1, <1>2, <1>3, <1>4, FundedQuietly, VaultsApart DEF Seeded
  <1> QED  BY <1>5, <1>6, <1>7

LEMMA WithdrawRewardsIndie ==
    ASSUME IndieInv, NEW u \in UserAccounts, NEW dst \in [Mints -> Destinations],
           WithdrawRewards(u, dst), UNCHANGED <<usedIds, entered>>
    PROVE  SideStep /\ Seeded' /\ AccountsFunded'
  <1> DEFINE U == UserAccountPda(u)
             w == user[u].owner
  <1>0. /\ bal \in Ledgers /\ game \in [Games -> GameAccount]
        /\ ata \in SUBSET (Holder \X Mints) /\ Seeded /\ AccountsFunded
        /\ U \in VaultHolder /\ U \in Holder /\ {U} \in SUBSET VaultHolder
    BY IndieFacts, VaultAddresses DEF IndieInv
  <1>1. /\ UNCHANGED <<oracle, game, user, ranked, ata, protocols>>
        /\ bal' = Drained(U, RENT_USER, Directed(w, dst)) /\ CanDrainTo(U, dst)
        /\ user[u].is_initialized
    BY DEF WithdrawRewards
  <1>2. w \in Wallets
    BY <1>1, IndieFacts, SafeFacts
  <1> HIDE DEF w
  <1>3. Filled(bal', {U}) /\ bal'[U][SOL] = bal[U][SOL] - Surplus(U, RENT_USER)
    <2>1. dst \in [Mints -> Holder]
      BY TitleInputAssumption
    <2> HIDE DEF U
    <2>2. Filled(bal', {U}) /\ bal'[U][SOL] = bal[U][SOL] - Withdrawable(U, RENT_USER, SOL)
      BY <1>0, <1>1, <1>2, <2>1, DrainLedger, RentAssumption DEF DrainedRows
    <2> QED  BY <1>1, <2>2 DEF Withdrawable
  <1>4. bal'[U][SOL] >= RENT_USER
    <2>1. bal[U][SOL] >= RENT_USER
      BY <1>0, <1>1 DEF AccountsFunded
    <2> QED  BY <1>0, <1>3, <2>1, SurplusBound, RentAssumption
  <1>5. SideStep
    BY <1>0, <1>1, <1>3, SideOf
  <1>6. Seeded'
    BY <1>0, <1>1, SameSeeded DEF Seeded
  <1>7. AccountsFunded'
    BY <1>0, <1>1, <1>3, <1>4, FundedQuietly, VaultsApart DEF Seeded
  <1> QED  BY <1>5, <1>6, <1>7

LEMMA ClientsIndie ==
    ASSUME IndieInv, NEW w \in Wallets, UNCHANGED <<usedIds, entered>>,
           \/ \E a \in ClientAtas : ClientOpensAta(w, a[1], a[2])
           \/ \E a \in Gifts : ClientSends(w, a[1], a[2])
    PROVE  SideStep /\ Seeded' /\ AccountsFunded'
  <1>1. bal \in Ledgers /\ game \in [Games -> GameAccount] /\ ata \in SUBSET (Holder \X Mints)
    BY IndieFacts
  <1>2. /\ UNCHANGED <<oracle, game, user, ranked, protocols>>
        /\ \/ ata' = ata
           \/ \E a \in ClientAtas : ata' = ata \cup {<<a[1], a[2]>>}
    BY DEF ClientOpensAta, ClientSends
  <1>3. Filled(bal', {})
    BY <1>1, AtaLedger, GiftLedger
  <1>4. /\ ata' \in SUBSET (Holder \X Mints)
        /\ \A r \in RankedGames, m \in Mints :
              <<Escrow(r), m>> \in ata' <=> <<Escrow(r), m>> \in ata
    <2>1. ASSUME NEW a \in ClientAtas
          PROVE  /\ a[1] \in Holder /\ a[2] \in Mints
                 /\ \A r \in RankedGames : a[1] # Escrow(r)
      <3>1. a[1] \in Holder \ ({"igp_ranked_game"} \X RankedGames) /\ a[2] \in Mints
        BY ClientAssumption
      <3> QED  BY <3>1 DEF Escrow, RankedGamePda
    <2> QED  BY <1>1, <1>2, <2>1
  <1>5. SideStep
    BY <1>1, <1>2, <1>3, <1>4, SideOf
  <1>6. Seeded'
    <2>1. Seeded
      BY IndieFacts
    <2> QED  BY <1>2, <2>1, SameSeeded DEF Seeded
  <1>7. AccountsFunded'
    BY <1>1, <1>2, <1>3, FundedQuietly
  <1> QED  BY <1>5, <1>6, <1>7

LEMMA RewardUserIndie ==
    ASSUME IndieInv, NEW u \in UserAccounts, NEW bps \in PoolBps,
           RewardUserAccount(u, bps), UNCHANGED <<usedIds, entered>>
    PROVE  SideStep /\ Seeded' /\ AccountsFunded'
  <1> DEFINE g == user[u].game
             H == GameProtocolPda(g)
             U == UserAccountPda(u)
             paid == PoolShare(g, bps)
             usd == RewardUsd(paid)
  <1>0. /\ SafeInv /\ bal \in Ledgers /\ game \in [Games -> GameAccount]
        /\ user \in [UserAccounts -> UserAccount]
        /\ ata \in SUBSET (Holder \X Mints) /\ Seeded /\ AccountsFunded
    BY IndieFacts DEF IndieInv
  <1>1. /\ g \in Games /\ Filled(bal', {H})
        /\ \A t \in PaymentToken :
              /\ paid[t] \in 0..Withdrawable(H, RENT_EMPTY, t)
              /\ bal'[H][t] = bal[H][t] - paid[t]
              /\ bal'[U][t] = bal[U][t] + paid[t]
    BY <1>0, RewardUserLedger
  <1>2. /\ UNCHANGED <<oracle, game, ranked, ata, protocols>>
        /\ user[u].is_initialized /\ g \in protocols
        /\ user[u].total_usd_rewards_micro + usd <= U64MAX
        /\ user' = [user EXCEPT ![u].total_usd_rewards_micro = @ + usd]
    BY DEF RewardUserAccount, Awardable, FitsU64
  <1>3. /\ H \in Holder /\ U \in Holder /\ {H} \in SUBSET VaultHolder /\ H # U
    BY <1>1, VaultAddresses, VaultsApart
  <1>4. \A t \in PaymentToken : /\ Withdrawable(H, RENT_EMPTY, t) \in 0..bal[H][t]
                                /\ bal[H][t] \in Nat /\ bal[U][t] \in Nat
    BY <1>0, <1>3, OutBound, RentAssumption DEF Ledgers
  <1>5. usd \in Nat
    <2>1. \A t \in PaymentToken : PriceFor(t) \in Nat /\ paid[t] \in Nat
      BY <1>0, <1>1, <1>4, SafeFacts
    <2>2. \A n \in Nat : Saturate(n) \in Nat
      BY WidthAssumption DEF Saturate
    <2> HIDE DEF paid
    <2>3. \A n \in Nat : n \div SPL_BASE \in Nat /\ n \div SOL_BASE \in Nat
      BY ScaleAssumption, SMT
    <2>4. ASSUME NEW t \in PaymentToken
          PROVE  SplUsd(paid[t], PriceFor(t)) \in Nat /\ SolUsd(paid[t], PriceFor(t)) \in Nat
      <3>1. paid[t] * PriceFor(t) \in Nat
        BY <2>1
      <3> QED  BY <2>2, <2>3, <3>1 DEF SplUsd, SolUsd
    <2>5. SOL \in PaymentToken /\ SKR \in PaymentToken /\ SLICE \in PaymentToken
          /\ USDC \in PaymentToken
      BY DEF PaymentToken, Mints
    <2> QED  BY <2>2, <2>4, <2>5 DEF RewardUsd
  <1> HIDE DEF usd, paid
  <1>6. /\ user' \in [UserAccounts -> UserAccount]
        /\ \A v \in UserAccounts :
              KeepsRecord(v)
    <2>1. user[u].total_usd_rewards_micro + usd \in 0..U64MAX
      BY <1>0, <1>2, <1>5, WidthAssumption DEF UserAccount
    <2> QED  BY <1>0, <1>2, <2>1 DEF UserAccount, KeepsRecord
  <1>7. SideStep
    <2>1. Filled(bal', VaultHolder)
      BY <1>1, <1>3 DEF Filled
    <2> QED  BY <1>0, <1>2, <1>6, <2>1 DEF SideStep
  <1>8. Seeded'
    BY <1>0, <1>2, <1>6, SameSeeded DEF Seeded, KeepsRecord
  <1>9. bal'[H][SOL] >= RENT_EMPTY
    <2>1. bal[H][SOL] >= RENT_EMPTY
      BY <1>0, <1>2 DEF AccountsFunded
    <2>2. bal[H][SOL] - Surplus(H, RENT_EMPTY) = RENT_EMPTY
      BY <1>0, <1>3, <2>1, SurplusBound, RentAssumption
    <2>3. Withdrawable(H, RENT_EMPTY, SOL) = Surplus(H, RENT_EMPTY)
      BY DEF Withdrawable
    <2> QED  BY <1>1, <1>4, <2>2, <2>3, SolIsToken, RentAssumption
  <1>10. AccountsFunded'
    BY <1>0, <1>1, <1>2, <1>6, <1>9, FundedQuietly, VaultsApart DEF Seeded, KeepsRecord
  <1> QED  BY <1>7, <1>8, <1>10

\* What a new account is, and who counts it.
LEMMA CreateUserRecords ==
    ASSUME IndieInv, NEW u \in UserAccounts, NEW t \in PaymentToken,
           NEW to \in Payees(UserSeed[u].game), CreateUserAccount(u, t, to)
    PROVE  LET g == UserSeed[u].game
           IN  /\ UNCHANGED <<oracle, ranked, ata, protocols>>
               /\ ~user[u].is_initialized /\ GameReads(g) /\ g # u
               /\ game' \in [Games -> GameAccount] /\ user' \in [UserAccounts -> UserAccount]
               /\ \A k \in Games : /\ game'[k].version = game[k].version
                                   /\ game'[k].owner = game[k].owner
               /\ user'[u].is_initialized
               /\ user'[u].owner = UserSeed[u].owner /\ user'[u].game = g
               /\ user'[u].current_ranked_game = DefaultKey
               /\ user'[u].total_wins = 0 /\ user'[u].total_usd_rewards_micro = 0
               /\ user'[u].total_ranked_games_played = 0
               /\ \A v \in UserAccounts : v # u =>
                     /\ KeepsRecord(v)
                     /\ user'[v].total_usd_rewards_micro = user[v].total_usd_rewards_micro
  <1> DEFINE g == UserSeed[u].game
             fresh == [NoUserAccount EXCEPT !.is_initialized = TRUE,
                          !.owner = UserSeed[u].owner, !.game = g]
             opened == [user EXCEPT ![u] = fresh]
  <1>0. /\ game \in [Games -> GameAccount] /\ user \in [UserAccounts -> UserAccount]
        /\ UserSeed[u].owner \in Wallets /\ g \in GameKeys
    BY IndieFacts, SeedFacts
  <1>1. /\ UNCHANGED <<oracle, ranked, ata, protocols>>
        /\ ~user[u].is_initialized /\ GameReads(g)
        /\ TotalUsers(g) < U32MAX
        /\ game' = CountedTitle(g) /\ user' = CountedAccount(g, opened)
    BY DEF CreateUserAccount, Opened
  <1>2. g # u
    BY <1>1, KeyAssumption DEF GameReads, GameLoads
  <1>3. /\ fresh \in UserAccount /\ fresh.is_initialized
        /\ fresh.owner = UserSeed[u].owner /\ fresh.game = g
        /\ fresh.current_ranked_game = DefaultKey /\ fresh.total_wins = 0
        /\ fresh.total_usd_rewards_micro = 0 /\ fresh.total_ranked_games_played = 0
    <2>1. 0 \in 0..U32MAX /\ 0 \in 0..U64MAX
      BY WidthAssumption
    <2>2. /\ NoUserAccount \in UserAccount
          /\ NoUserAccount.current_ranked_game = DefaultKey /\ NoUserAccount.total_wins = 0
          /\ NoUserAccount.total_usd_rewards_micro = 0
          /\ NoUserAccount.total_ranked_games_played = 0
      BY <2>1 DEF UserAccount, NoUserAccount
    <2>3. fresh \in UserAccount
      BY <1>0, <2>2 DEF UserAccount
    <2>4. /\ fresh.is_initialized
          /\ fresh.owner = UserSeed[u].owner /\ fresh.game = g
          /\ fresh.current_ranked_game = NoUserAccount.current_ranked_game
          /\ fresh.total_wins = NoUserAccount.total_wins
          /\ fresh.total_usd_rewards_micro = NoUserAccount.total_usd_rewards_micro
          /\ fresh.total_ranked_games_played = NoUserAccount.total_ranked_games_played
      BY <2>2 DEF UserAccount
    <2> QED  BY <2>2, <2>3, <2>4
  <1> HIDE DEF fresh
  <1>4. /\ opened \in [UserAccounts -> UserAccount] /\ opened[u] = fresh
        /\ \A v \in UserAccounts : v # u => opened[v] = user[v]
    BY <1>0, <1>3
  <1> HIDE DEF opened
  <1>5. CASE g \in Games
    <2>1. /\ game' = [game EXCEPT ![g].total_users = @ + 1] /\ user' = opened
          /\ game[g].total_users < U32MAX
      BY <1>1, <1>5 DEF CountedTitle, CountedAccount, TotalUsers
    <2>2. game[g].total_users + 1 \in 0..U32MAX
      BY <1>0, <1>5, <2>1, WidthAssumption DEF GameAccount
    <2>3. /\ game' \in [Games -> GameAccount]
          /\ \A k \in Games : /\ game'[k].version = game[k].version
                              /\ game'[k].owner = game[k].owner
      BY <1>0, <1>5, <2>1, <2>2 DEF GameAccount
    <2> QED  BY <1>1, <1>2, <1>3, <1>4, <2>1, <2>3 DEF KeepsRecord
  <1>6. CASE g \notin Games
    <2>1. /\ game' = game /\ g \in UserAccounts
          /\ user' = [opened EXCEPT ![g].total_usd_spent_bytes = @ + 1]
          /\ user[g].total_usd_spent_bytes < U32MAX
      BY <1>0, <1>1, <1>6 DEF CountedTitle, CountedAccount, TotalUsers, GameKeys
    <2>2. user[g].total_usd_spent_bytes + 1 \in 0..U32MAX
      BY <1>0, <2>1, WidthAssumption DEF UserAccount
    <2>3. /\ opened[g] = user[g] /\ opened[g] \in UserAccount
          /\ user' = [opened EXCEPT ![g].total_usd_spent_bytes =
                                       user[g].total_usd_spent_bytes + 1]
      BY <1>2, <1>4, <2>1
    <2>4. user'[u] = fresh
      BY <1>2, <1>4, <2>1
    <2>5. /\ user' \in [UserAccounts -> UserAccount]
          /\ \A v \in UserAccounts : v # u => /\ KeepsRecord(v)
                                             /\ user'[v].total_usd_rewards_micro
                                                  = user[v].total_usd_rewards_micro
      BY <1>4, <2>1, <2>2, <2>3 DEF UserAccount, KeepsRecord
    <2> QED  BY <1>0, <1>1, <1>2, <1>3, <2>1, <2>4, <2>5
  <1> QED  BY <1>5, <1>6

LEMMA CreateUserIndie ==
    ASSUME IndieInv, NEW u \in UserAccounts, NEW t \in PaymentToken,
           NEW to \in Payees(UserSeed[u].game), CreateUserAccount(u, t, to),
           UNCHANGED <<usedIds, entered>>
    PROVE  SideStep /\ Seeded' /\ AccountsFunded'
  <1> DEFINE g == UserSeed[u].game
             U == UserAccountPda(u)
  <1>0. /\ SafeInv /\ ata \in SUBSET (Holder \X Mints) /\ Seeded /\ Unopened
        /\ UserSeed[u].owner \in Wallets /\ g \in GameKeys
    BY IndieFacts, SeedFacts
  <1>1. Filled(bal', {}) /\ bal'[U][SOL] = RENT_USER
    BY <1>0, CreateUserLedger
  <1>2. /\ UNCHANGED <<oracle, ranked, ata, protocols>>
        /\ ~user[u].is_initialized /\ GameReads(g) /\ g # u
        /\ game' \in [Games -> GameAccount] /\ user' \in [UserAccounts -> UserAccount]
        /\ \A k \in Games : /\ game'[k].version = game[k].version
                            /\ game'[k].owner = game[k].owner
        /\ user'[u].is_initialized
        /\ user'[u].owner = UserSeed[u].owner /\ user'[u].game = g
        /\ user'[u].current_ranked_game = DefaultKey /\ user'[u].total_wins = 0
        /\ \A v \in UserAccounts : v # u => KeepsRecord(v)
    BY CreateUserRecords
  <1>3. SideStep
    <2>1. OpensFresh(u)
      BY <1>0, <1>2 DEF OpensFresh, Unopened
    <2>2. \A v \in UserAccounts : KeepsRecord(v) \/ OpensFresh(v)
      BY <1>2, <2>1
    <2>3. Filled(bal', VaultHolder)
      BY <1>1 DEF Filled
    <2> QED  BY <1>0, <1>2, <2>2, <2>3 DEF SideStep
  <1>4. \/ g \in Games /\ game[g].version # "Absent"
        \/ g \in FreeNames /\ user[g].is_initialized
    <2>1. CASE GameLoads(g)
      BY <2>1 DEF GameLoads
    <2>2. CASE ~GameLoads(g)
      <3>1. g \in UserAccounts /\ user[g].is_initialized
        BY <1>2, <2>2 DEF GameReads
      <3>2. ~AsksPayment(g)
        BY <2>2 DEF CreateUserAccount, PaymentAccepted
      <3> QED  BY <3>1, <3>2, KeyAssumption DEF AsksPayment
    <2> QED  BY <2>1, <2>2
  <1>5. Seeded'
    <2>1. \A v \in UserAccounts : user[v].is_initialized => user'[v].is_initialized
      BY <1>2 DEF KeepsRecord
    <2>2. ASSUME NEW v \in UserAccounts, user'[v].is_initialized
          PROVE  /\ user'[v].owner = UserSeed[v].owner
                 /\ user'[v].game = UserSeed[v].game
                 /\ \/ user'[v].game \in Games /\ game'[user'[v].game].version # "Absent"
                    \/ user'[v].game \in FreeNames /\ user'[user'[v].game].is_initialized
      <3>1. FreeNames \subseteq UserAccounts
        BY SeedAssumption
      <3>2. CASE v = u
        BY <1>2, <1>4, <2>1, <3>1, <3>2
      <3>3. CASE v # u
        <4>1. /\ user[v].is_initialized /\ user'[v].owner = user[v].owner
              /\ user'[v].game = user[v].game
          BY <1>2, <2>2, <3>3 DEF KeepsRecord
        <4> QED  BY <1>0, <1>2, <2>1, <3>1, <4>1 DEF Seeded
      <3> QED  BY <3>2, <3>3
    <2>3. /\ protocols' \in SUBSET Games
          /\ \A k \in Games : game'[k].version # "Absent" =>
                k \in protocols' /\ game'[k].owner \in Wallets
      BY <1>0, <1>2 DEF Seeded
    <2> QED  BY <2>2, <2>3 DEF Seeded
  <1>6. AccountsFunded'
    <2>1. \A k \in Games : RentOf(k)' = RentOf(k)
      BY <1>2 DEF RentOf
    <2>2. protocols' = protocols /\ protocols \subseteq Games
      BY <1>0, <1>2 DEF Seeded
    <2>3. \A v \in UserAccounts : user'[v].is_initialized =>
             user[v].is_initialized \/ bal'[UserAccountPda(v)][SOL] >= RENT_USER
      BY <1>1, <1>2, RentAssumption DEF KeepsRecord
    <2> QED  BY <1>1, <1>2, <2>1, <2>2, <2>3, FundedRows
  <1> QED  BY <1>3, <1>5, <1>6

\* Ranked games and the oracle leave titles and the identity of accounts.
LEMMA RankedFrame ==
    ASSUME SafeInv, [Next]_vars
    PROVE  /\ game' = game
           /\ \A v \in UserAccounts :
                 /\ user'[v].is_initialized = user[v].is_initialized
                 /\ user'[v].owner = user[v].owner /\ user'[v].game = user[v].game
                 /\ \/ user'[v].current_ranked_game = user[v].current_ranked_game
                    \/ user[v].is_initialized
  <1>0. user \in [UserAccounts -> UserAccount]
    BY DEF SafeInv, TypeOK, AccountsTypeOK
  <1>1. ASSUME NEW r \in RankedGames, NEW u \in UserAccounts, NEW t \in PaymentToken,
               JoinRankedGame(u, r, t)
        PROVE  /\ game' = game /\ user[u].is_initialized
               /\ user' = [user EXCEPT ![u].current_ranked_game = r,
                                       ![u].total_ranked_games_played = @ + 1]
    BY <1>1 DEF JoinRankedGame, Joinable, Enrolled
  <1>2. ASSUME NEW r \in RankedGames, NEW u \in UserAccounts, NEW bps \in PayoutBps,
               RewardWinner(u, r, bps)
        PROVE  /\ game' = game /\ user[u].is_initialized
               /\ \E usd : user' = [user EXCEPT ![u].total_usd_rewards_micro = @ + usd,
                                                ![u].total_wins = @ + 1,
                                                ![u].current_ranked_game = DefaultKey]
    BY <1>2 DEF RewardWinner, Payable, Rewardable, Rewarded
  <1>3. CASE OracleStep \/ UNCHANGED vars
    BY <1>3 DEF OracleStep, OracleNext, InitOracle, UpdateOraclePrices, vars
  <1>4. ASSUME NEW r \in RankedGames,
               \/ \E g \in ParentGames, fee \in EntryFees : CreateRankedGame(r, g, fee)
               \/ \E s \in RankedGameStatus : UpdateRankedGameStatus(r, s)
               \/ CloseRankedGame(r)
        PROVE  game' = game /\ user' = user
    BY <1>4 DEF CreateRankedGame, UpdateRankedGameStatus, CloseRankedGame, Closable
  <1>5. ASSUME NEW r \in RankedGames, NEW u \in UserAccounts, NEW t \in PaymentToken,
               JoinRankedGame(u, r, t), NEW v \in UserAccounts
        PROVE  /\ user'[v].is_initialized = user[v].is_initialized
               /\ user'[v].owner = user[v].owner /\ user'[v].game = user[v].game
               /\ \/ user'[v].current_ranked_game = user[v].current_ranked_game
                  \/ user[v].is_initialized
    <2>1. /\ user[u].is_initialized
          /\ user' = [user EXCEPT ![u].current_ranked_game = r,
                                  ![u].total_ranked_games_played =
                                     user[u].total_ranked_games_played + 1]
      BY <1>1, <1>5
    <2>2. /\ user'[v].is_initialized = user[v].is_initialized
          /\ user'[v].owner = user[v].owner /\ user'[v].game = user[v].game
      BY <1>0, <2>1 DEF UserAccount
    <2>3. v # u => user'[v] = user[v]
      BY <1>0, <2>1
    <2> QED  BY <2>1, <2>2, <2>3
  <1>6. ASSUME NEW r \in RankedGames, NEW u \in UserAccounts, NEW bps \in PayoutBps,
               RewardWinner(u, r, bps), NEW v \in UserAccounts
        PROVE  /\ user'[v].is_initialized = user[v].is_initialized
               /\ user'[v].owner = user[v].owner /\ user'[v].game = user[v].game
               /\ \/ user'[v].current_ranked_game = user[v].current_ranked_game
                  \/ user[v].is_initialized
    <2>1. user[u].is_initialized
      BY <1>2, <1>6
    <2>2. PICK usd : user' = [user EXCEPT
                        ![u].total_usd_rewards_micro = user[u].total_usd_rewards_micro + usd,
                        ![u].total_wins = user[u].total_wins + 1,
                        ![u].current_ranked_game = DefaultKey]
      BY <1>2, <1>6
    <2>3. /\ user'[v].is_initialized = user[v].is_initialized
          /\ user'[v].owner = user[v].owner /\ user'[v].game = user[v].game
      BY <1>0, <2>2 DEF UserAccount
    <2>4. v # u => user'[v] = user[v]
      BY <1>0, <2>2
    <2> QED  BY <2>1, <2>3, <2>4
  <1> QED  BY <1>1, <1>2, <1>3, <1>4, <1>5, <1>6 DEF Next

LEMMA RankedIndie ==
    ASSUME IndieInv, [Next]_vars, UNCHANGED protocols
    PROVE  Seeded' /\ AccountsFunded' /\ Unopened'
  <1>0. /\ SafeInv /\ bal \in Ledgers /\ game \in [Games -> GameAccount]
        /\ Seeded /\ AccountsFunded /\ Unopened
    BY IndieFacts
  <1>1. /\ game' = game
        /\ \A v \in UserAccounts :
              /\ user'[v].is_initialized = user[v].is_initialized
              /\ user'[v].owner = user[v].owner /\ user'[v].game = user[v].game
              /\ \/ user'[v].current_ranked_game = user[v].current_ranked_game
                 \/ user[v].is_initialized
    BY <1>0, RankedFrame
  <1>2. Seeded'
    BY <1>0, <1>1, SameSeeded DEF Seeded
  <1>3. Unopened'
    BY <1>0, <1>1 DEF Unopened
  <1>4. bal' \in Ledgers
    <2>1. SafeInv'
      BY <1>0, SafeStep
    <2> QED  BY <2>1 DEF SafeInv, TypeOK, AccountsTypeOK, Ledgers
  <1>5. VaultsGrow
    BY <1>0, RankedVaults
  <1>6. /\ \A h \in VaultHolder : /\ bal[h][SOL] \in Nat /\ bal'[h][SOL] \in Nat
                                 /\ bal'[h][SOL] >= bal[h][SOL]
        /\ \A k \in Games : RentOf(k)' = RentOf(k) /\ RentOf(k) \in 0..RENT_GAME
    BY <1>0, <1>1, <1>4, <1>5, RentBound, VaultAddresses, SolIsToken
       DEF VaultsGrow, Ledgers, RentOf
  <1>7. \A k \in Games : bal'[GamePda(k)][SOL] >= RentOf(k)
    BY <1>0, <1>6, VaultAddresses, RentAssumption DEF AccountsFunded
  <1>8. \A k \in protocols : bal'[GameProtocolPda(k)][SOL] >= RENT_EMPTY
    BY <1>0, <1>6, VaultAddresses, RentAssumption DEF AccountsFunded, Seeded
  <1>9. \A v \in UserAccounts : user[v].is_initialized =>
           bal'[UserAccountPda(v)][SOL] >= RENT_USER
    BY <1>0, <1>6, VaultAddresses, RentAssumption DEF AccountsFunded
  <1>10. AccountsFunded'
    BY <1>1, <1>6, <1>7, <1>8, <1>9
       DEF AccountsFunded, GamePda, GameProtocolPda, UserAccountPda
  <1> QED  BY <1>2, <1>3, <1>10

----------------------------------------------------------------------------
(* The invariant holds *)

\* A step of titles and accounts is a side step, with its own facts.
LEMMA SideIndie ==
    ASSUME IndieInv, TitleStep \/ AccountStep
    PROVE  SideStep /\ Seeded' /\ AccountsFunded'
  <1>1. UNCHANGED <<usedIds, entered>>
    BY DEF TitleStep, AccountStep
  <1>2. CASE TitleStep
    BY <1>1, <1>2, CreateGameIndie, TermsIndie, DeveloperWithdrawIndie, UpgradeIndie,
       RewardUserIndie DEF TitleStep, TitleNext
  <1>3. CASE AccountStep
    BY <1>1, <1>3, CreateUserIndie, WithdrawRewardsIndie, ClientsIndie
       DEF AccountStep, AccountNext
  <1> QED  BY <1>2, <1>3

LEMMA IndieInitial == IndieInit => IndieInv
  <1> SUFFICES ASSUME IndieInit PROVE IndieInv
    OBVIOUS
  <1>1. SafeInv
    BY SafeInit DEF IndieInit
  <1>2. /\ game = GenesisGame /\ user = GenesisUser /\ bal = GenesisBal
        /\ protocols = GenesisProtocols
    BY DEF IndieInit, Init
  <1>3. Seeded
    BY <1>2, IndieGenesisAssumption, SeedAssumption DEF Seeded
  <1>4. Unopened
    BY <1>2, GenesisAssumption DEF Unopened
  <1>5. AccountsFunded
    <2>1. ASSUME NEW g \in Games PROVE bal[GamePda(g)][SOL] >= RentOf(g)
      <3>1. bal[GamePda(g)][SOL] \in Nat
        BY <1>1, SafeFacts, Addresses, SolIsToken DEF Ledgers
      <3>2. game[g].version \in {"Absent", "V1", "V2"}
        BY <1>2, GenesisAssumption DEF GameAccount
      <3> QED  BY <1>2, <3>1, <3>2, IndieGenesisAssumption DEF RentOf
    <2>2. ASSUME NEW g \in protocols PROVE bal[GameProtocolPda(g)][SOL] >= RENT_EMPTY
      BY <1>2, IndieGenesisAssumption
    <2>3. \A u \in UserAccounts :
             user[u].is_initialized => bal[UserAccountPda(u)][SOL] >= RENT_USER
      BY <1>2, IndieGenesisAssumption
    <2> QED  BY <2>1, <2>2, <2>3 DEF AccountsFunded
  <1> QED  BY <1>1, <1>3, <1>4, <1>5 DEF IndieInv

LEMMA IndieStep == IndieInv /\ [IndieNext]_indieVars => IndieInv'
  <1> SUFFICES ASSUME IndieInv, [IndieNext]_indieVars PROVE IndieInv'
    OBVIOUS
  <1>0. SafeInv /\ Unopened
    BY DEF IndieInv
  <1>1. CASE RankedStep \/ UNCHANGED indieVars
    <2>1. [Next]_vars /\ UNCHANGED protocols
      BY <1>1 DEF RankedStep, indieVars, vars
    <2> QED  BY <1>0, <2>1, SafeStep, RankedIndie DEF IndieInv
  <1>2. CASE TitleStep \/ AccountStep
    <2>1. SideStep /\ Seeded' /\ AccountsFunded'
      BY <1>2, SideIndie
    <2> QED  BY <1>0, <2>1, SideSafe, SideUnopened DEF IndieInv
  <1> QED  BY <1>1, <1>2 DEF IndieNext

LEMMA IndieAlways == IndieSpec => []IndieInv
  BY IndieInitial, IndieStep, PTL DEF IndieSpec

\* No instruction of any component, in any order, takes a balance below zero
\* or a counter beyond its width, or leaves a title without owner or protocol
\* pools. An account's title is one that exists or, as nothing compares the
\* address of what is named as the title, another open account whose name
\* reads as a price of zero, and never anything else.
THEOREM IndieTypeCorrect == IndieSpec => []IndieTypeOK
  <1>1. IndieInv => IndieTypeOK
    BY DEF IndieInv, SafeInv, Seeded, IndieTypeOK
  <1> QED  BY <1>1, IndieAlways, PTL

\* Whatever is paid to whom, rewarded, withdrawn, created again and upgraded,
\* every account of the program keeps the rent of its layout.
THEOREM AccountsSound == IndieSpec => []AccountsFunded
  <1>1. IndieInv => AccountsFunded
    BY DEF IndieInv
  <1> QED  BY <1>1, IndieAlways, PTL

\* What EscrowSound says of ranked games alone holds while titles and accounts
\* are used: wherever their payments are sent, none takes from an escrow, and
\* none leaves tokens where a ranked game is not open.
THEOREM IndieEscrowSound == IndieSpec => []EscrowAccounted
  <1>1. IndieInv => EscrowAccounted
    BY DEF IndieInv, SafeInv
  <1> QED  BY <1>1, IndieAlways, PTL
----------------------------------------------------------------------------
(* Ranked games, played while titles and accounts are used *)

\* The ranked part of a step of the program.
LEMMA RankedOrSide ==
    ASSUME IndieInv, [IndieNext]_indieVars
    PROVE  SafeInv /\ ([Next]_vars \/ SideStep)
  <1>1. CASE RankedStep \/ UNCHANGED indieVars
    BY <1>1 DEF RankedStep, indieVars, vars, IndieInv
  <1>2. CASE TitleStep \/ AccountStep
    BY <1>2, SideIndie DEF IndieInv
  <1> QED  BY <1>1, <1>2 DEF IndieNext

\* However accounts are opened and rewarded from the title's pools, a player
\* never has more wins than ranked games were paid for.
THEOREM IndieWinsSound == IndieSpec => []WinsBounded
  <1>1. IndieInit => WinsBounded
    BY WinsInit DEF IndieInit
  <1>2. IndieInv /\ WinsBounded /\ [IndieNext]_indieVars => WinsBounded'
    BY RankedOrSide, WinsStep, SideWins
  <1> QED  BY <1>1, <1>2, IndieAlways, PTL DEF IndieSpec

\* What titles and accounts pay out never comes out of an escrow, wherever it
\* is sent: before a match is over nothing leaves its pools in the whole
\* program either.
THEOREM IndieEscrowHeld == IndieSpec => EscrowHeldUntilFinished
  <1>1. ASSUME IndieInv, [IndieNext]_indieVars PROVE PoolsHeld
    <2>1. SafeInv /\ ([Next]_vars \/ SideStep)
      BY <1>1, RankedOrSide
    <2>2. CASE [Next]_vars
      BY <2>1, <2>2, HeldStep
    <2>3. CASE SideStep
      <3>1. \A r \in RankedGames, t \in PaymentToken :
               /\ bal'[Escrow(r)][t] \in Nat /\ bal[Escrow(r)][t] \in Nat
               /\ bal'[Escrow(r)][t] >= bal[Escrow(r)][t]
        BY <2>1, <2>3, SideEscrows
      <3> QED  BY <3>1 DEF PoolsHeld
    <2> QED  BY <2>1, <2>2, <2>3
  <1>2. IndieInv /\ [IndieNext]_indieVars => [PoolsHeld]_vars
    BY <1>1
  <1>3. IndieSpec => [][PoolsHeld]_vars
    BY <1>2, IndieAlways, PTL DEF IndieSpec
  <1> QED  BY <1>3 DEF PoolsHeld, EscrowHeldUntilFinished

LEMMA IndieEnrolAlways == ASSUME UniqueIds PROVE IndieSpec => []EnrolInv
  <1>1. IndieInit => EnrolInv
    BY EnrolInit DEF IndieInit
  <1>2. IndieInv /\ EnrolInv /\ [IndieNext]_indieVars => EnrolInv'
    BY RankedOrSide, EnrolStep, SideEnrol
  <1> QED  BY <1>1, <1>2, IndieAlways, PTL DEF IndieSpec

\* As long as ids are not reused, ranked games are PrizePots also when their
\* titles change owner and share, are upgraded and emptied, and players open
\* accounts between the entries.
THEOREM IndieRefinesPrizePot == ASSUME UniqueIds PROVE IndieSpec => ImplementsPrizePot
  <1>1. IndieInit => Pot!PotInit
    BY PotInitial DEF IndieInit
  <1>2. IndieInv /\ EnrolInv /\ [IndieNext]_indieVars => [Pot!PotNext]_(Pot!potVars)
    BY RankedOrSide, PotStep, SidePot DEF Pot!PotNext
  <1> QED  BY <1>1, <1>2, IndieAlways, IndieEnrolAlways, PTL
           DEF IndieSpec, ImplementsPrizePot, Pot!PotSpec

\* As long as ids are not reused, whoever a live ranked game takes for a
\* participant paid its entry, whichever accounts were opened in between.
THEOREM IndieEnrolmentSound == ASSUME UniqueIds PROVE IndieSpec => []EnrolledArePayers
  <1>1. EnrolInv => EnrolledArePayers
    BY DEF EnrolInv
  <1> QED  BY <1>1, IndieEnrolAlways, PTL

\* Whatever titles and accounts do between the entries, nobody takes part in a
\* ranked game uncounted.
THEOREM IndieEntrantsSound == IndieSpec => []EntrantsCounted
  <1>1. IndieInit => EntrantsCounted
    BY EntrantsInit DEF IndieInit
  <1>2. ASSUME EntrantsCounted, SideStep PROVE EntrantsCounted'
    BY <1>2 DEF EntrantsCounted, SideStep, Exists
  <1>3. IndieInv /\ EntrantsCounted /\ [IndieNext]_indieVars => EntrantsCounted'
    BY <1>2, RankedOrSide, EntrantsStep
  <1> QED  BY <1>1, <1>3, IndieAlways, PTL DEF IndieSpec

\* Titles and accounts open token accounts and close none.
LEMMA SideAtasKept ==
    ASSUME TitleStep \/ AccountStep
    PROVE  ata \subseteq ata'
  <1>1. CASE TitleStep
    BY <1>1, ZenonT(60) DEF TitleStep, TitleNext, CreateGame, UpdateFeeShare, UpdateGameCost,
       TransferGameOwnership, DeveloperWithdraw, UpgradeGameVersion, RewardUserAccount
  <1>2. CASE AccountStep
    BY <1>2 DEF AccountStep, AccountNext, CreateUserAccount, WithdrawRewards,
       ClientOpensAta, ClientSends
  <1> QED  BY <1>1, <1>2

\* No instruction of the program takes the authority's token accounts away, so
\* no ranked game is ever stuck with what its players paid.
THEOREM IndieRecoverySound == ASSUME AuthorityReceives PROVE IndieSpec => []FundsRecoverable
  <1>1. IndieInit => TreasuryOpen
    BY DEF IndieInit, Init, TreasuryOpen, AuthorityReceives
  <1>2. TreasuryOpen /\ [IndieNext]_indieVars => TreasuryOpen'
    <2> SUFFICES ASSUME TreasuryOpen, [IndieNext]_indieVars PROVE TreasuryOpen'
      OBVIOUS
    <2>1. CASE RankedStep \/ UNCHANGED indieVars
      <3>1. [Next]_vars
        BY <2>1 DEF RankedStep, indieVars, vars
      <3> QED  BY <3>1, TreasuryStep
    <2>2. CASE TitleStep \/ AccountStep
      <3>1. ata \subseteq ata'
        BY <2>2, SideAtasKept
      <3> QED  BY <3>1 DEF TreasuryOpen, Treasury
    <2> QED  BY <2>1, <2>2 DEF IndieNext
  <1> QED  BY <1>1, <1>2, OpenRecovers, PTL DEF IndieSpec

LEMMA SidePriced == ASSUME PricedBeforeEntry, SideStep PROVE PricedBeforeEntry'
  <1> SUFFICES ASSUME NEW u \in UserAccounts, user'[u].current_ranked_game # DefaultKey
               PROVE  oracle'.initialized
    BY DEF PricedBeforeEntry, OracleLoads
  <1>1. user[u].current_ranked_game # DefaultKey /\ oracle' = oracle
    BY DEF SideStep, KeepsRecord, OpensFresh
  <1> QED  BY <1>1 DEF PricedBeforeEntry, OracleLoads

\* Accounts bought, rewarded and emptied in between do not come between a
\* winner and pools that were filled in SOL only, or in tokens only.
THEOREM IndiePayoutSound == IndieSpec => []UnmixedWinnerPayable
  <1>1. IndieInit => PricedBeforeEntry
    BY PricedInit DEF IndieInit
  <1>2. IndieInv /\ PricedBeforeEntry /\ [IndieNext]_indieVars => PricedBeforeEntry'
    BY RankedOrSide, PricedStep, SidePriced
  <1>3. IndieInv => SafeInv
    BY DEF IndieInv
  <1> QED  BY <1>1, <1>2, <1>3, PayableInv, IndieWinsSound, IndieAlways, PTL DEF IndieSpec

\* A win is what ranked games alone count, so what TokenPayoutSound says of a
\* payout in tokens holds of every step of the program.
THEOREM IndieTokenPayoutSound == IndieSpec => TokenPayoutExact
  <1> DEFINE Exact == \A u \in UserAccounts :
          LET paid == PaidFrom(user[u].current_ranked_game)
          IN  user'[u].total_wins > user[u].total_wins /\ paid[SOL] = 0 =>
                 user'[u].total_usd_rewards_micro - user[u].total_usd_rewards_micro
                    = Saturate(ValueOf(paid))
  <1>1. ASSUME IndieInv, SideStep, NEW u \in UserAccounts
        PROVE  ~(user'[u].total_wins > user[u].total_wins)
    <2>1. user[u].total_wins \in Nat
      BY <1>1, IndieFacts, WidthAssumption DEF UserAccount
    <2>2. user'[u].total_wins = user[u].total_wins \/ user'[u].total_wins = 0
      BY <1>1 DEF SideStep, KeepsRecord, OpensFresh
    <2> QED  BY <2>1, <2>2
  <1>2. IndieInv /\ [IndieNext]_indieVars => Exact
    BY <1>1, RankedOrSide, TokenPayoutStep
  <1> HIDE DEF Exact
  <1>3. IndieInv /\ [IndieNext]_indieVars => [Exact]_vars
    BY <1>2
  <1>4. IndieSpec => [][Exact]_vars
    BY <1>3, IndieAlways, PTL DEF IndieSpec
  <1> QED  BY <1>4 DEF Exact, TokenPayoutExact

----------------------------------------------------------------------------
(* Accounts whose title is none *)

\* What joins, wins and is rewarded has a title to the last byte.
LEMMA OutsidersStep ==
    ASSUME IndieInv, OutsidersUnpaid, [IndieNext]_indieVars
    PROVE  OutsidersUnpaid'
  <1> DEFINE Apart(u) == /\ user[u].current_ranked_game = DefaultKey
                         /\ user[u].total_ranked_games_played = 0
                         /\ user[u].total_wins = 0
                         /\ user[u].total_usd_rewards_micro = 0
  <1>0. /\ SafeInv /\ user \in [UserAccounts -> UserAccount]
        /\ \A u \in UserAccounts : user[u].is_initialized /\ user[u].game \notin Games => Apart(u)
    BY IndieFacts DEF OutsidersUnpaid
  <1>1. CASE user' = user
    BY <1>1 DEF OutsidersUnpaid
  <1>2. ASSUME NEW r \in RankedGames, NEW u \in UserAccounts, NEW t \in PaymentToken,
               JoinRankedGame(u, r, t)
        PROVE  OutsidersUnpaid'
    <2>1. user[u].game \in Games
      BY <1>2 DEF JoinRankedGame, Joinable, GameLoads
    <2>2. user' = [user EXCEPT ![u].current_ranked_game = r,
                               ![u].total_ranked_games_played = @ + 1]
      BY <1>2 DEF JoinRankedGame, Enrolled
    <2>3. user'[u].game = user[u].game /\ \A v \in UserAccounts : v # u => user'[v] = user[v]
      BY <1>0, <2>2 DEF UserAccount
    <2> QED  BY <1>0, <2>1, <2>3 DEF OutsidersUnpaid
  <1>3. ASSUME NEW r \in RankedGames, NEW u \in UserAccounts, NEW bps \in PayoutBps,
               RewardWinner(u, r, bps)
        PROVE  OutsidersUnpaid'
    <2>1. user[u].is_initialized /\ user[u].current_ranked_game = r
      BY <1>3 DEF RewardWinner, Payable, Rewardable
    <2>2. user[u].game \in Games
      BY <1>0, <2>1, KeyAssumption
    <2>3. PICK usd : user' = [user EXCEPT
                        ![u].total_usd_rewards_micro = user[u].total_usd_rewards_micro + usd,
                        ![u].total_wins = user[u].total_wins + 1,
                        ![u].current_ranked_game = DefaultKey]
      BY <1>3 DEF RewardWinner, Rewarded
    <2>4. user'[u].game = user[u].game /\ \A v \in UserAccounts : v # u => user'[v] = user[v]
      BY <1>0, <2>3 DEF UserAccount
    <2> QED  BY <1>0, <2>2, <2>4 DEF OutsidersUnpaid
  <1>4. ASSUME NEW u \in UserAccounts, NEW bps \in PoolBps, RewardUserAccount(u, bps)
        PROVE  OutsidersUnpaid'
    <2>1. user[u].game \in Games
      BY <1>4 DEF RewardUserAccount, Awardable, GameLoads
    <2>2. PICK usd : user' = [user EXCEPT
                        ![u].total_usd_rewards_micro = user[u].total_usd_rewards_micro + usd]
      BY <1>4 DEF RewardUserAccount
    <2>3. user'[u].game = user[u].game /\ \A v \in UserAccounts : v # u => user'[v] = user[v]
      BY <1>0, <2>2 DEF UserAccount
    <2> QED  BY <1>0, <2>1, <2>3 DEF OutsidersUnpaid
  <1>5. ASSUME NEW u \in UserAccounts, NEW t \in PaymentToken,
               NEW to \in Payees(UserSeed[u].game), CreateUserAccount(u, t, to)
        PROVE  OutsidersUnpaid'
    <2>1. /\ user'[u].current_ranked_game = DefaultKey
          /\ user'[u].total_wins = 0 /\ user'[u].total_usd_rewards_micro = 0
          /\ user'[u].total_ranked_games_played = 0
          /\ \A v \in UserAccounts : v # u =>
                /\ KeepsRecord(v)
                /\ user'[v].total_usd_rewards_micro = user[v].total_usd_rewards_micro
      BY <1>5, CreateUserRecords
    <2>2. ASSUME NEW v \in UserAccounts, user'[v].is_initialized, user'[v].game \notin Games
          PROVE  /\ user'[v].current_ranked_game = DefaultKey
                 /\ user'[v].total_ranked_games_played = 0
                 /\ user'[v].total_wins = 0
                 /\ user'[v].total_usd_rewards_micro = 0
      <3>1. CASE v = u
        BY <2>1, <3>1
      <3>2. CASE v # u
        BY <1>0, <2>1, <2>2, <3>2 DEF KeepsRecord
      <3> QED  BY <3>1, <3>2
    <2> QED  BY <2>2 DEF OutsidersUnpaid
  <1>6. CASE RankedStep
    BY <1>1, <1>2, <1>3, <1>6 DEF RankedStep, Next, OracleStep, OracleNext, InitOracle,
       UpdateOraclePrices, CreateRankedGame, UpdateRankedGameStatus, CloseRankedGame, Closable
  <1>7. CASE TitleStep
    BY <1>1, <1>4, <1>7, ZenonT(60) DEF TitleStep, TitleNext, CreateGame, UpdateFeeShare, UpdateGameCost,
       TransferGameOwnership, DeveloperWithdraw, UpgradeGameVersion
  <1>8. CASE AccountStep
    BY <1>1, <1>5, <1>8 DEF AccountStep, AccountNext, WithdrawRewards, ClientOpensAta,
       ClientSends
  <1>9. CASE UNCHANGED indieVars
    BY <1>1, <1>9 DEF indieVars
  <1> QED  BY <1>6, <1>7, <1>8, <1>9 DEF IndieNext

\* An account that was opened in what is no title is in no ranked game, also
\* not in one opened under the same account, and is credited nothing, by the
\* winner's pools or the protocol's: only the opening itself reads less than
\* all of a title.
THEOREM OutsidersSound == IndieSpec => []OutsidersUnpaid
  <1>1. IndieInit => OutsidersUnpaid
    <2>1. IndieInit => user = GenesisUser
      BY DEF IndieInit, Init
    <2> QED  BY <2>1, GenesisAssumption, IndieGenesisAssumption DEF OutsidersUnpaid
  <1>2. IndieInv /\ OutsidersUnpaid /\ [IndieNext]_indieVars => OutsidersUnpaid'
    BY OutsidersStep
  <1> QED  BY <1>1, <1>2, IndieAlways, PTL DEF IndieSpec

----------------------------------------------------------------------------
(* The program implements Vaults *)

\* What h holds of t above its rent in the ledger b.
Above(b, h, t) ==
    IF t = SOL THEN (IF b[h][SOL] > FloorOf(h) THEN b[h][SOL] - FloorOf(h) ELSE 0)
    ELSE b[h][t]

LEMMA Floors ==
    /\ \A h \in VaultHolder : FloorOf(h) \in Nat
    /\ \A g \in Games : FloorOf(GamePda(g)) = RENT_GAME
    /\ \A g \in Games : FloorOf(GameProtocolPda(g)) = RENT_EMPTY
    /\ \A u \in UserAccounts : FloorOf(UserAccountPda(u)) = RENT_USER
  <1>1. \A h \in VaultHolder : h[1] \in {"igp_game", "igp_game_protocol", "igp_user"}
    BY DEF VaultHolder
  <1>2. \A h \in VaultHolder : FloorOf(h) \in Nat
    BY <1>1, RentAssumption DEF FloorOf
  <1>3. /\ \A g \in Games : FloorOf(GamePda(g)) = RENT_GAME
        /\ \A g \in Games : FloorOf(GameProtocolPda(g)) = RENT_EMPTY
        /\ \A u \in UserAccounts : FloorOf(UserAccountPda(u)) = RENT_USER
    BY DEF FloorOf, GamePda, GameProtocolPda, UserAccountPda
  <1> QED  BY <1>2, <1>3

LEMMA VaultRows ==
    ASSUME bal \in Ledgers
    PROVE  \A h \in VaultHolder :
              /\ VaultOf(h) \in [PaymentToken -> Nat]
              /\ \A t \in PaymentToken : VaultOf(h)[t] = Above(bal, h, t)
                                         /\ Above(bal, h, t) \in Nat
  <1> SUFFICES ASSUME NEW h \in VaultHolder
               PROVE  /\ VaultOf(h) \in [PaymentToken -> Nat]
                      /\ \A t \in PaymentToken : VaultOf(h)[t] = Above(bal, h, t)
                                                 /\ Above(bal, h, t) \in Nat
    OBVIOUS
  <1>1. FloorOf(h) \in Nat /\ \A t \in PaymentToken : bal[h][t] \in Nat
    BY Floors, VaultAddresses DEF Ledgers
  <1>2. \A t \in PaymentToken : Above(bal, h, t) \in Nat
    BY <1>1, SolIsToken DEF Above
  <1>3. \A t \in PaymentToken : VaultOf(h)[t] = Above(bal, h, t)
    BY DEF VaultOf, Withdrawable, Surplus, Above
  <1>4. VaultOf(h) = [t \in PaymentToken |-> Above(bal, h, t)]
    BY DEF VaultOf, Withdrawable, Surplus, Above
  <1> QED  BY <1>2, <1>3, <1>4

LEMMA NextVaultRows ==
    ASSUME bal' \in Ledgers
    PROVE  \A h \in VaultHolder :
              /\ VaultOf(h)' \in [PaymentToken -> Nat]
              /\ \A t \in PaymentToken : VaultOf(h)'[t] = Above(bal', h, t)
                                         /\ Above(bal', h, t) \in Nat
  <1> SUFFICES ASSUME NEW h \in VaultHolder
               PROVE  /\ VaultOf(h)' \in [PaymentToken -> Nat]
                      /\ \A t \in PaymentToken : VaultOf(h)'[t] = Above(bal', h, t)
                                                 /\ Above(bal', h, t) \in Nat
    OBVIOUS
  <1>1. FloorOf(h) \in Nat /\ \A t \in PaymentToken : bal'[h][t] \in Nat
    BY Floors, VaultAddresses DEF Ledgers
  <1>2. \A t \in PaymentToken : Above(bal', h, t) \in Nat
    BY <1>1, SolIsToken DEF Above
  <1>3. VaultOf(h)' = [t \in PaymentToken |-> Above(bal', h, t)]
    BY DEF VaultOf, Withdrawable, Surplus, Above, FloorOf
  <1> QED  BY <1>2, <1>3

\* Sales, entries, gifts and all that takes from no vault.
LEMMA GrowthFills ==
    ASSUME bal \in Ledgers, bal' \in Ledgers, VaultsGrow
    PROVE  Vault!Fill
  <1>1. \A h \in VaultHolder, t \in PaymentToken : VaultOf(h)'[t] >= VaultOf(h)[t]
    <2> SUFFICES ASSUME NEW h \in VaultHolder, NEW t \in PaymentToken
                 PROVE  Above(bal', h, t) >= Above(bal, h, t)
      BY VaultRows, NextVaultRows
    <2>1. /\ FloorOf(h) \in Nat /\ \A x \in PaymentToken :
                bal[h][x] \in Nat /\ bal'[h][x] \in Nat /\ bal'[h][x] >= bal[h][x]
      BY Floors, VaultAddresses DEF Ledgers, VaultsGrow
    <2> QED  BY <2>1, SolIsToken DEF Above
  <1>2. \A h \in VaultHolder : VaultOf(h)' \in [PaymentToken -> Nat]
    BY NextVaultRows
  <1> QED  BY <1>1, <1>2 DEF Vault!Fill

LEMMA FilledGrows ==
    ASSUME Filled(bal', {})
    PROVE  VaultsGrow
  BY VaultAddresses DEF Filled, VaultsGrow

\* Wherever the tokens of a vault that is emptied go.
LEMMA DrainWithdraws ==
    ASSUME bal \in Ledgers, NEW h \in VaultHolder, h \notin {"igp_game_protocol"} \X Games,
           NEW w \in Wallets, NEW dst \in [Mints -> Holder], CanDrainTo(h, dst),
           NEW floor \in Nat, floor = FloorOf(h),
           bal' = Drained(h, floor, Directed(w, dst))
    PROVE  \E p \in VaultHolder \ ({"igp_game_protocol"} \X Games) : Vault!Withdraw(p)
  <1>1. /\ Filled(bal', {h})
        /\ \A k \in VaultHolder :
              bal'[k][SOL] = bal[k][SOL]
                - (IF k = h THEN Withdrawable(h, floor, SOL) ELSE 0)
        /\ \A k \in Holder, m \in Mints :
              bal'[k][m] = bal[k][m] - (IF k = h THEN bal[h][m] ELSE 0)
                             + (IF k = dst[m] THEN bal[h][m] ELSE 0)
    <2>1. Filled(bal', {h}) /\ DrainedRows(bal', h, floor, dst)
      BY DrainLedger
    <2> QED  BY <2>1 DEF DrainedRows
  <1>2. bal' \in Ledgers
    BY <1>1 DEF Filled
  <1>3. /\ \A k \in VaultHolder : k \in Holder /\ FloorOf(k) \in Nat
        /\ \A k \in VaultHolder, t \in PaymentToken : bal[k][t] \in Nat /\ bal'[k][t] \in Nat
    BY <1>2, VaultAddresses, Floors DEF Ledgers
  <1>4. \A m \in Mints : m \in PaymentToken /\ m # SOL
    BY TokenAssumption DEF Mints, PaymentToken
  <1>5. \A k \in VaultHolder : VaultOf(k)'[SOL] = IF k = h THEN 0 ELSE VaultOf(k)[SOL]
    <2> SUFFICES ASSUME NEW k \in VaultHolder
                 PROVE  Above(bal', k, SOL) = IF k = h THEN 0 ELSE Above(bal, k, SOL)
      BY <1>2, SolIsToken, VaultRows, NextVaultRows
    <2>1. Withdrawable(h, floor, SOL)
            = IF bal[h][SOL] > floor THEN bal[h][SOL] - floor ELSE 0
      BY DEF Withdrawable, Surplus
    <2>2. /\ bal[k][SOL] \in Nat /\ FloorOf(k) \in Nat
          /\ bal'[k][SOL] = bal[k][SOL]
               - (IF k = h THEN Withdrawable(h, floor, SOL) ELSE 0)
      BY <1>1, <1>3, SolIsToken
    <2>3. CASE k = h
      <3>1. bal'[k][SOL] <= FloorOf(k)
        BY <2>1, <2>2, <2>3
      <3> QED  BY <2>2, <2>3, <3>1, <1>3, SolIsToken DEF Above
    <2>4. CASE k # h
      <3>1. bal'[k][SOL] = bal[k][SOL]
        BY <2>2, <2>4
      <3> QED  BY <2>4, <3>1 DEF Above
    <2> QED  BY <2>3, <2>4
  <1>6. ASSUME NEW m \in Mints
        PROVE  /\ VaultOf(h)[m] = bal[h][m]
               /\ \A k \in VaultHolder : VaultOf(k)[m] \in Nat
               /\ \A k \in VaultHolder : VaultOf(k)'[m] =
                    VaultOf(k)[m] - (IF k = h THEN bal[h][m] ELSE 0)
                      + (IF k = dst[m] THEN bal[h][m] ELSE 0)
    <2>1. \A k \in VaultHolder : /\ VaultOf(k)[m] = bal[k][m] /\ VaultOf(k)'[m] = bal'[k][m]
                                 /\ bal[k][m] \in Nat
      BY <1>2, <1>3, <1>4, VaultRows, NextVaultRows DEF Above
    <2> QED  BY <1>1, <1>3, <2>1
  <1>7. ASSUME NEW a \in PaymentToken \ {SOL}
        PROVE  Vault!Leaves(h, a) \/ \E q \in VaultHolder : Vault!GoesTo(h, q, a)
    <2>1. a \in Mints
      BY <1>7 DEF PaymentToken
    <2>2. CASE dst[a] \in VaultHolder
      <3>1. Vault!GoesTo(h, dst[a], a)
        BY <1>6, <2>1, <2>2 DEF Vault!GoesTo, Vault!After
      <3> QED  BY <2>2, <3>1
    <2>3. CASE dst[a] \notin VaultHolder
      <3>1. \A k \in VaultHolder : VaultOf(k)'[a] = IF k = h THEN 0 ELSE VaultOf(k)[a]
        BY <1>6, <2>1, <2>3
      <3> QED  BY <3>1 DEF Vault!Leaves
    <2> QED  BY <2>2, <2>3
  <1>8. Vault!Leaves(h, SOL)
    BY <1>5 DEF Vault!Leaves
  <1>9. \A k \in VaultHolder : VaultOf(k)' \in [PaymentToken -> Nat]
    BY <1>2, NextVaultRows
  <1>10. Vault!Withdraw(h)
    BY <1>7, <1>8, <1>9 DEF Vault!Withdraw
  <1> QED  BY <1>10

\* What a reward takes from the reserve arrives at the account.
LEMMA RewardAwards ==
    ASSUME IndieInv, NEW u \in UserAccounts, NEW bps \in PoolBps, RewardUserAccount(u, bps)
    PROVE  /\ UserSeed[u].game \in Games
           /\ Vault!Award(UserAccountPda(u), GameProtocolPda(UserSeed[u].game))
  <1> DEFINE g == UserSeed[u].game
             H == GameProtocolPda(g)
             U == UserAccountPda(u)
             paid == PoolShare(g, bps)
  <1>0. SafeInv /\ bal \in Ledgers /\ Seeded /\ AccountsFunded
    BY IndieFacts
  <1>1. user[u].is_initialized /\ user[u].game \in protocols
    BY DEF RewardUserAccount, Awardable
  <1>2. user[u].game = g
    BY <1>0, <1>1 DEF Seeded
  <1>3. /\ g \in Games /\ g \in protocols /\ Filled(bal', {H})
        /\ \A t \in PaymentToken :
              /\ paid[t] \in 0..Withdrawable(H, RENT_EMPTY, t)
              /\ bal'[H][t] = bal[H][t] - paid[t]
              /\ bal'[U][t] = bal[U][t] + paid[t]
        /\ \A h \in Holder : h # H /\ h # U =>
              \A t \in PaymentToken : bal'[h][t] = bal[h][t]
    <2>1. LET H0 == GameProtocolPda(user[u].game)
              paid0 == PoolShare(user[u].game, bps)
          IN  /\ user[u].game \in Games
              /\ Filled(bal', {H0})
              /\ \A t \in PaymentToken :
                    /\ paid0[t] \in 0..Withdrawable(H0, RENT_EMPTY, t)
                    /\ bal'[H0][t] = bal[H0][t] - paid0[t]
                    /\ bal'[U][t] = bal[U][t] + paid0[t]
              /\ \A h \in Holder : h # H0 /\ h # U =>
                    \A t \in PaymentToken : bal'[h][t] = bal[h][t]
      BY <1>0, RewardUserLedger
    <2> QED  BY <1>1, <1>2, <2>1
  <1>4. /\ bal' \in Ledgers
        /\ H \in VaultHolder /\ U \in VaultHolder /\ H # U /\ VaultHolder \subseteq Holder
        /\ FloorOf(H) = RENT_EMPTY /\ FloorOf(U) = RENT_USER
        /\ bal[H][SOL] >= RENT_EMPTY /\ bal[U][SOL] >= RENT_USER
    BY <1>0, <1>1, <1>3, VaultAddresses, VaultsApart, Floors DEF Filled, AccountsFunded
  <1>5. \A t \in PaymentToken : Withdrawable(H, RENT_EMPTY, t) = Above(bal, H, t)
    BY <1>4 DEF Withdrawable, Surplus, Above
  <1> HIDE DEF g, H, U, paid
  <1>6. /\ \A h \in VaultHolder, t \in PaymentToken :
              bal[h][t] \in Nat /\ Above(bal, h, t) \in Nat /\ Above(bal', h, t) \in Nat
        /\ \A t \in PaymentToken : paid[t] \in Nat /\ paid[t] <= Above(bal, H, t)
    BY <1>0, <1>3, <1>4, <1>5, VaultRows, NextVaultRows DEF Ledgers
  <1>7. ASSUME NEW t \in PaymentToken
        PROVE  Above(bal', H, t) = Above(bal, H, t) - paid[t]
    <2>1. CASE t = SOL
      <3>1. bal[H][SOL] \in Nat /\ paid[SOL] \in Nat /\ paid[SOL] <= Above(bal, H, SOL)
            /\ bal'[H][SOL] = bal[H][SOL] - paid[SOL]
        BY <1>3, <1>4, <1>6, SolIsToken
      <3> QED  BY <1>4, <2>1, <3>1, RentAssumption DEF Above
    <2>2. CASE t # SOL
      BY <1>3, <2>2 DEF Above
    <2> QED  BY <2>1, <2>2
  <1>8. ASSUME NEW t \in PaymentToken
        PROVE  Above(bal', U, t) = Above(bal, U, t) + paid[t]
    <2>1. CASE t = SOL
      <3>1. bal[U][SOL] \in Nat /\ paid[SOL] \in Nat
            /\ bal'[U][SOL] = bal[U][SOL] + paid[SOL]
        BY <1>3, <1>4, <1>6, SolIsToken
      <3> QED  BY <1>4, <2>1, <3>1, RentAssumption DEF Above
    <2>2. CASE t # SOL
      BY <1>3, <2>2 DEF Above
    <2> QED  BY <2>1, <2>2
  <1>9. ASSUME NEW h \in VaultHolder, h # H, h # U, NEW t \in PaymentToken
        PROVE  Above(bal', h, t) = Above(bal, h, t)
    BY <1>3, <1>4, <1>9, SolIsToken DEF Above
  <1>10. /\ \A h \in VaultHolder, t \in PaymentToken :
               VaultOf(h)[t] = Above(bal, h, t) /\ VaultOf(h)'[t] = Above(bal', h, t)
         /\ \A h \in VaultHolder : VaultOf(h)' \in [PaymentToken -> Nat]
    BY <1>0, <1>4, VaultRows, NextVaultRows
  <1>11. \A t \in PaymentToken : /\ VaultOf(H)'[t] <= VaultOf(H)[t]
                                 /\ VaultOf(H)[t] - VaultOf(H)'[t] = paid[t]
    <2> SUFFICES ASSUME NEW t \in PaymentToken
                 PROVE  /\ VaultOf(H)'[t] <= VaultOf(H)[t]
                        /\ VaultOf(H)[t] - VaultOf(H)'[t] = paid[t]
      OBVIOUS
    <2>1. VaultOf(H)[t] \in Nat /\ VaultOf(H)'[t] = VaultOf(H)[t] - paid[t] /\ paid[t] \in Nat
      BY <1>4, <1>6, <1>7, <1>10
    <2> QED  BY <2>1
  <1>12. \A t \in PaymentToken, h \in VaultHolder : VaultOf(h)'[t] =
            VaultOf(h)[t] - (IF h = H THEN paid[t] ELSE 0) + (IF h = U THEN paid[t] ELSE 0)
    <2> SUFFICES ASSUME NEW t \in PaymentToken, NEW h \in VaultHolder
                 PROVE  VaultOf(h)'[t] = VaultOf(h)[t] - (IF h = H THEN paid[t] ELSE 0)
                                           + (IF h = U THEN paid[t] ELSE 0)
      OBVIOUS
    <2>1. VaultOf(h)[t] \in Nat /\ paid[t] \in Nat
      BY <1>6, <1>10
    <2> QED  BY <1>4, <1>7, <1>8, <1>9, <1>10, <2>1
  <1>13. Vault!Award(U, H)
    <2> DEFINE was == [h \in VaultHolder |-> VaultOf(h)]
               next == [h \in VaultHolder |-> VaultOf(h)']
    <2>1. /\ next \in [VaultHolder -> [PaymentToken -> Nat]]
          /\ \A h \in VaultHolder, t \in PaymentToken :
                was[h][t] = VaultOf(h)[t] /\ next[h][t] = VaultOf(h)'[t]
      BY <1>10
    <2> HIDE DEF was, next
    <2>2. \A t \in PaymentToken, h \in VaultHolder : next[h][t] =
             was[h][t] - (IF h = H THEN was[H][t] - next[H][t] ELSE 0)
               + (IF h = U THEN was[H][t] - next[H][t] ELSE 0)
      <3>1. \A t \in PaymentToken : was[H][t] - next[H][t] = paid[t]
        BY <1>4, <1>11, <2>1
      <3> QED  BY <1>12, <2>1, <3>1
    <2>3. \A t \in PaymentToken : next[H][t] <= was[H][t]
      BY <1>4, <1>11, <2>1
    <2> QED  BY <2>1, <2>2, <2>3 DEF Vault!Award, Vault!After, was, next
  <1> QED  BY <1>3, <1>13 DEF g, H, U

LEMMA VaultInitial == IndieInv => Vault!VaultInit
  BY IndieFacts, VaultRows DEF Vault!VaultInit

LEMMA VaultStep == ASSUME IndieInv, [IndieNext]_indieVars PROVE Vault!VaultNext
  <1>0. SafeInv /\ bal \in Ledgers
    BY IndieFacts
  <1>1. bal' \in Ledgers
    BY IndieStep DEF IndieInv, SafeInv, TypeOK, AccountsTypeOK, Ledgers
  <1>2. CASE VaultsGrow
    BY <1>0, <1>1, <1>2, GrowthFills DEF Vault!VaultNext
  <1>3. CASE RankedStep \/ UNCHANGED indieVars
    <2>1. [Next]_vars
      BY <1>3 DEF RankedStep, indieVars, vars
    <2> QED  BY <1>0, <1>2, <2>1, RankedVaults
  <1>4. ASSUME NEW w \in Wallets, NEW g \in Games,
               \/ \E offer \in Offers : CreateGame(w, g, offer)
               \/ \E fees \in FeeShares : UpdateFeeShare(w, g, fees)
               \/ \E cost \in GameCosts : UpdateGameCost(w, g, cost)
               \/ \E new_owner \in Wallets : TransferGameOwnership(w, g, new_owner)
               \/ UpgradeGameVersion(g)
        PROVE  Vault!VaultNext
    <2>1. Filled(bal', {}) \/ bal' = bal
      BY <1>0, <1>4, CreateGameLedger, UpgradeLedger
         DEF UpdateFeeShare, UpdateGameCost, TransferGameOwnership
    <2> QED  BY <1>0, <1>2, <2>1, FilledGrows, VaultsStay
  <1>5. ASSUME NEW w \in Wallets, NEW g \in Games, NEW dst \in [Mints -> Destinations],
               DeveloperWithdraw(w, g, dst)
        PROVE  Vault!VaultNext
    <2>1. /\ GamePda(g) \in VaultHolder /\ GamePda(g) \notin {"igp_game_protocol"} \X Games
          /\ dst \in [Mints -> Holder]
      BY VaultAddresses, TitleInputAssumption DEF GamePda
    <2>2. /\ CanDrainTo(GamePda(g), dst) /\ RENT_GAME \in Nat
          /\ RENT_GAME = FloorOf(GamePda(g))
          /\ bal' = Drained(GamePda(g), RENT_GAME, Directed(w, dst))
      BY <1>5, Floors, RentAssumption DEF DeveloperWithdraw
    <2>3. \E p \in VaultHolder \ ({"igp_game_protocol"} \X Games) : Vault!Withdraw(p)
      BY <1>0, <2>1, <2>2, DrainWithdraws
    <2> QED  BY <2>3 DEF Vault!VaultNext
  <1>6. ASSUME NEW u \in UserAccounts, NEW dst \in [Mints -> Destinations],
               WithdrawRewards(u, dst)
        PROVE  Vault!VaultNext
    <2> DEFINE U == UserAccountPda(u)
               w == user[u].owner
    <2>1. /\ U \in VaultHolder /\ U \notin {"igp_game_protocol"} \X Games
          /\ dst \in [Mints -> Holder]
      BY VaultAddresses, TitleInputAssumption DEF UserAccountPda
    <2>2. /\ CanDrainTo(U, dst) /\ user[u].is_initialized /\ RENT_USER \in Nat
          /\ RENT_USER = FloorOf(U) /\ bal' = Drained(U, RENT_USER, Directed(w, dst))
      BY <1>6, Floors, RentAssumption DEF WithdrawRewards
    <2>3. w \in Wallets
      BY <1>0, <2>2, SafeFacts
    <2> HIDE DEF U, w
    <2>4. \E p \in VaultHolder \ ({"igp_game_protocol"} \X Games) : Vault!Withdraw(p)
      BY <1>0, <2>1, <2>2, <2>3, DrainWithdraws
    <2> QED  BY <2>4 DEF Vault!VaultNext
  <1>7. ASSUME NEW u \in UserAccounts, NEW bps \in PoolBps, RewardUserAccount(u, bps)
        PROVE  Vault!VaultNext
    <2>1. /\ UserSeed[u].game \in Games
          /\ Vault!Award(UserAccountPda(u), GameProtocolPda(UserSeed[u].game))
      BY <1>7, RewardAwards
    <2>2. /\ HomeOf(u)[1] = UserAccountPda(u)
          /\ HomeOf(u)[2] = GameProtocolPda(UserSeed[u].game)
      BY DEF HomeOf
    <2>3. Vault!Award(HomeOf(u)[1], HomeOf(u)[2])
      BY <2>1, <2>2
    <2> QED  BY <2>1, <2>3 DEF Vault!VaultNext
  <1>8. ASSUME NEW u \in UserAccounts, NEW t \in PaymentToken,
               NEW to \in Payees(UserSeed[u].game), CreateUserAccount(u, t, to)
        PROVE  Vault!VaultNext
    BY <1>0, <1>2, <1>8, CreateUserLedger, FilledGrows
  <1>9. ASSUME NEW w \in Wallets,
               \/ \E a \in ClientAtas : ClientOpensAta(w, a[1], a[2])
               \/ \E a \in Gifts : ClientSends(w, a[1], a[2])
        PROVE  Vault!VaultNext
    BY <1>0, <1>2, <1>9, AtaLedger, GiftLedger, FilledGrows
  <1>10. CASE TitleStep
    BY <1>4, <1>5, <1>7, <1>10, KeyAssumption DEF TitleStep, TitleNext
  <1>11. CASE AccountStep
    BY <1>6, <1>8, <1>9, <1>11 DEF AccountStep, AccountNext
  <1> QED  BY <1>3, <1>10, <1>11 DEF IndieNext

\* The program implements Vaults, for whatever accounts a client has a sale
\* paid to and a withdrawal sent to: no vault of a title or an account loses
\* anything but to its owner, who takes all of it at once, or, if it is the
\* protocol's, to an account of its title that is credited to the unit.
THEOREM IndieRefinesVaults == IndieSpec => ImplementsVaults
  <1>1. IndieInv /\ [IndieNext]_indieVars => Vault!VaultNext
    BY VaultStep
  <1> QED  BY <1>1, VaultInitial, IndieInitial, IndieAlways, PTL
           DEF IndieSpec, ImplementsVaults, Vault!VaultSpec

----------------------------------------------------------------------------
(* Sales *)

\* What a sale brings the two pools of the title, when the buyer names them.
LEMMA SaleGain ==
    ASSUME IndieInv, NEW u \in UserAccounts, NEW t \in PaymentToken,
           UserSeed[u].game \in Games,
           CreateUserAccount(u, t, OwnPayees(UserSeed[u].game))
    PROVE  LET g == UserSeed[u].game
           IN  /\ SaleDue(g, t).dev \in Nat /\ SaleDue(g, t).protocol \in Nat
               /\ PoolGain(g, t) = SaleDue(g, t).dev + SaleDue(g, t).protocol
               /\ \A s \in PaymentToken \ {t} : PoolGain(g, s) = 0
  <1> DEFINE g == UserSeed[u].game
             G == GamePda(g)
             H == GameProtocolPda(g)
             due == SaleDue(g, t)
  <1>0. SafeInv /\ bal \in Ledgers
    BY IndieFacts
  <1>1. due.dev \in Nat /\ due.protocol \in Nat
    <2>1. OwnPayees(g) \in Payees(g)
      BY DEF OwnPayees, Payees
    <2>2. CASE AsksPayment(g)
      <3>1. PurchaseDue(g, t).dev \in Nat /\ PurchaseDue(g, t).protocol \in Nat
        BY <1>0, <2>1, <2>2, SaleFacts
      <3> QED  BY <2>2, <3>1 DEF SaleDue
    <2>3. CASE ~AsksPayment(g)
      BY <2>3 DEF SaleDue
    <2> QED  BY <2>2, <2>3
  <1>2. \A s \in PaymentToken :
           /\ bal'[G][s] = bal[G][s] + IF s = t THEN due.dev ELSE 0
           /\ bal'[H][s] = bal[H][s] + IF s = t THEN due.protocol ELSE 0
    BY <1>0, SaleLedger
  <1>3. \A s \in PaymentToken : bal[G][s] \in Nat /\ bal[H][s] \in Nat
    BY <1>0, VaultAddresses DEF Ledgers
  <1>4. \A s \in PaymentToken :
           PoolGain(g, s) = (bal'[G][s] - bal[G][s]) + (bal'[H][s] - bal[H][s])
    BY DEF PoolGain, GamePda, GameProtocolPda
  <1> HIDE DEF G, H, due, g
  <1>5. /\ PoolGain(g, t) = due.dev + due.protocol
        /\ \A s \in PaymentToken : s # t => PoolGain(g, s) = 0
    BY <1>1, <1>2, <1>3, <1>4
  <1> QED  BY <1>1, <1>5 DEF g, due

\* What is paid is the price, one too many only with a share above the whole.
LEMMA SaleCovers ==
    ASSUME IndieInv, NEW u \in UserAccounts, NEW t \in PaymentToken,
           UserSeed[u].game \in Games,
           CreateUserAccount(u, t, OwnPayees(UserSeed[u].game))
    PROVE  LET g == UserSeed[u].game
               price == CentsOf(game[g].game_cost)
           IN  /\ IF game[g].game_cost = 0 THEN PoolGain(g, t) = 0
                  ELSE PoolGain(g, t) * PriceFor(t) >= price * CENT_MICRO * TokenBase(t)
               /\ game[g].game_cost # 0
                  /\ game[g].game_to_protocol_share_bps <= BPS_DENOMINATOR
                  => Covers(PoolGain(g, t), price, t)
               /\ \A s \in PaymentToken \ {t} : PoolGain(g, s) = 0
  <1> DEFINE g == UserSeed[u].game
             cost == game[g].game_cost
             price == CentsOf(cost)
             total == PriceInTokens(cost, t)
             share == game[g].game_to_protocol_share_bps
             gain == PoolGain(g, t)
             due == SaleDue(g, t)
  <1>0. SafeInv
    BY IndieFacts
  <1>1. /\ due.dev \in Nat /\ due.protocol \in Nat /\ gain = due.dev + due.protocol
        /\ \A s \in PaymentToken \ {t} : PoolGain(g, s) = 0
    BY SaleGain
  <1>2. cost \in Nat /\ share \in Nat
    BY <1>0, WidthAssumption DEF SafeInv, TypeOK, AccountsTypeOK, GameAccount
  <1>3. CASE cost = 0
    <2>1. ~AsksPayment(g)
      BY <1>3 DEF AsksPayment
    <2> QED  BY <1>1, <1>3, <2>1 DEF SaleDue
  <1>4. CASE cost # 0
    <2>1. AsksPayment(g)
      BY <1>2, <1>4 DEF AsksPayment
    <2>2. OwnPayees(g) \in Payees(g)
      BY DEF OwnPayees, Payees
    <2>3. PriceFor(t) \in Nat \ {0} /\ total \in 0..U64MAX
      BY <1>0, <2>1, <2>2, SaleFacts
    <2>4. due = SplitProtocolFee(total, share)
      BY <2>1 DEF SaleDue, PurchaseDue
    <2>5. TokenBase(t) \in Nat
      BY ScaleAssumption DEF TokenBase
    <2>6. Covers(total, price, t)
      BY <1>2, <2>3, <2>5, PriceCovers
    <2>7. total \in Nat /\ total <= U64MAX
      BY <2>3, WidthAssumption
    <2>8. price \in Nat /\ CENT_MICRO \in Nat
      BY <1>2, ScaleAssumption, DivCovers DEF CentsOf
    <2> HIDE DEF total, share, due, price, gain
    <2>9. gain >= total /\ (share <= BPS_DENOMINATOR => gain = total)
      <3>1. /\ due.dev + due.protocol >= total
            /\ share <= BPS_DENOMINATOR => due.dev + due.protocol = total
        BY <1>2, <2>4, <2>7, PurchaseParts DEF share
      <3> QED  BY <1>1, <3>1 DEF due, gain
    <2>10. gain * PriceFor(t) >= price * CENT_MICRO * TokenBase(t)
      <3>1. gain \in Nat
        BY <1>1
      <3>2. gain * PriceFor(t) >= total * PriceFor(t)
        BY <2>3, <2>7, <2>9, <3>1, SMT
      <3>3. total * PriceFor(t) >= price * CENT_MICRO * TokenBase(t)
        BY <2>6 DEF Covers
      <3> DEFINE x == gain * PriceFor(t)
                 y == total * PriceFor(t)
                 z == price * CENT_MICRO * TokenBase(t)
      <3>4. x \in Int /\ y \in Int /\ z \in Int
        BY <2>3, <2>5, <2>7, <2>8, <3>1
      <3> HIDE DEF x, y, z
      <3>5. x >= y /\ y >= z
        BY <3>2, <3>3 DEF x, y, z
      <3>6. x >= z
        BY <3>4, <3>5
      <3> QED  BY <3>6 DEF x, z
    <2>11. share <= BPS_DENOMINATOR => Covers(gain, price, t)
      BY <2>6, <2>9
    <2> QED  BY <1>1, <1>4, <2>10, <2>11 DEF price, gain, share
  <1> QED  BY <1>3, <1>4

\* At any price of the oracle, in any token, for any cost and share, an
\* account whose buyer names its title's own accounts is sold for no less
\* than its price in whole cents, and with a share of at most the whole for
\* that, rounded up to the base unit; the pools receive nothing else.
THEOREM PurchaseSound == IndieSpec => PurchaseCoversCost
  <1> DEFINE Sound == \A u \in UserAccounts, t \in PaymentToken :
          LET g == UserSeed[u].game
              price == CentsOf(game[g].game_cost)
          IN  g \in Games /\ CreateUserAccount(u, t, OwnPayees(g)) =>
                 /\ IF game[g].game_cost = 0 THEN PoolGain(g, t) = 0
                    ELSE PoolGain(g, t) * PriceFor(t) >= price * CENT_MICRO * TokenBase(t)
                 /\ game[g].game_cost # 0
                    /\ game[g].game_to_protocol_share_bps <= BPS_DENOMINATOR
                    => Covers(PoolGain(g, t), price, t)
                 /\ \A s \in PaymentToken \ {t} : PoolGain(g, s) = 0
  <1>1. IndieInv /\ [IndieNext]_indieVars => Sound
    BY SaleCovers
  <1>2. IndieInv /\ [IndieNext]_indieVars => [Sound]_indieVars
    BY <1>1
  <1> HIDE DEF Sound
  <1>3. IndieSpec => [][Sound]_indieVars
    BY <1>2, IndieAlways, PTL DEF IndieSpec
  <1> QED  BY <1>3 DEF Sound, PurchaseCoversCost
----------------------------------------------------------------------------
(* Terms and counts *)

\* A title that is not of the current layout has neither cost nor count.
OldLayout ==
    \A g \in Games : game[g].version # "V2" =>
        game[g].game_cost = 0 /\ game[g].total_users = 0

\* What an instruction other than the three that set terms does to a title.
KeepsTerms(g) ==
    /\ game'[g].owner = game[g].owner
    /\ game'[g].game_cost = game[g].game_cost
    /\ game'[g].dev_fee_bps = game[g].dev_fee_bps
    /\ game'[g].game_to_protocol_share_bps = game[g].game_to_protocol_share_bps

\* A title is created again and upgraded with the terms and the count it has.
LEMMA CreateGameTerms ==
    ASSUME IndieInv, OldLayout, NEW w \in Wallets, NEW g \in Games, NEW offer \in Offers,
           CreateGame(w, g, offer), NEW k \in Games
    PROVE  /\ game[k].version # "Absent" => game'[k] = game[k]
           /\ game'[k].total_users = game[k].total_users
           /\ game'[k].version # "V2" => game'[k] = game[k]
  <1>1. game \in [Games -> GameAccount] /\ game' = Registered(w, g, offer)
    BY IndieFacts DEF CreateGame
  <1>2. CASE game[g].version # "Absent"
    BY <1>1, <1>2 DEF Registered
  <1>3. CASE game[g].version = "Absent"
    BY <1>1, <1>3 DEF Registered, OldLayout
  <1> QED  BY <1>2, <1>3

LEMMA UpgradeTerms ==
    ASSUME IndieInv, OldLayout, NEW g \in Games, UpgradeGameVersion(g), NEW k \in Games
    PROVE  /\ KeepsTerms(k) /\ game'[k].total_users = game[k].total_users
           /\ game'[k].version # "V2" => game'[k] = game[k]
  <1>1. /\ game \in [Games -> GameAccount] /\ game[g].version = "V1"
        /\ game' = [game EXCEPT ![g].version = "V2", ![g].game_cost = 0, ![g].total_users = 0]
    BY IndieFacts DEF UpgradeGameVersion, Upgraded
  <1>2. game[g].game_cost = 0 /\ game[g].total_users = 0
    BY <1>1 DEF OldLayout
  <1>3. CASE k = g
    <2>1. /\ game'[k].version = "V2" /\ game'[k].owner = game[k].owner
          /\ game'[k].dev_fee_bps = game[k].dev_fee_bps
          /\ game'[k].game_to_protocol_share_bps = game[k].game_to_protocol_share_bps
          /\ game'[k].game_cost = 0 /\ game'[k].total_users = 0
      BY <1>1, <1>3 DEF GameAccount
    <2> QED  BY <1>2, <1>3, <2>1 DEF KeepsTerms
  <1>4. CASE k # g
    BY <1>1, <1>4 DEF KeepsTerms
  <1> QED  BY <1>3, <1>4

\* A sale counts one account where it was opened, if that is a title, and
\* keeps the terms of all.
LEMMA CreateUserTerms ==
    ASSUME IndieInv, NEW u \in UserAccounts, NEW t \in PaymentToken,
           NEW to \in Payees(UserSeed[u].game), CreateUserAccount(u, t, to), NEW k \in Games
    PROVE  /\ KeepsTerms(k) /\ game'[k].version = game[k].version
           /\ game'[k].total_users
                = game[k].total_users + IF k = UserSeed[u].game THEN 1 ELSE 0
           /\ game'[k].version # "V2" => game'[k] = game[k]
  <1> DEFINE g == UserSeed[u].game
  <1>1. /\ game \in [Games -> GameAccount] /\ GameReads(g)
        /\ game' = IF g \in Games
                   THEN [game EXCEPT ![g].total_users = game[g].total_users + 1] ELSE game
    BY IndieFacts DEF CreateUserAccount, CountedTitle
  <1>2. game[k].total_users \in Nat
    BY <1>1, WidthAssumption DEF GameAccount
  <1> HIDE DEF g
  <1>3. CASE k = g
    <2>1. game[g].version = "V2"
      BY <1>1, <1>3, KeyAssumption DEF GameReads, GameLoads
    <2>2. /\ game'[k].version = game[k].version /\ game'[k].owner = game[k].owner
          /\ game'[k].dev_fee_bps = game[k].dev_fee_bps
          /\ game'[k].game_to_protocol_share_bps = game[k].game_to_protocol_share_bps
          /\ game'[k].game_cost = game[k].game_cost
          /\ game'[k].total_users = game[k].total_users + 1
      BY <1>1, <1>3 DEF GameAccount
    <2> QED  BY <1>3, <2>1, <2>2 DEF KeepsTerms, g
  <1>4. CASE k # g
    BY <1>1, <1>2, <1>4 DEF KeepsTerms, g
  <1> QED  BY <1>3, <1>4

\* The instructions that neither set terms, open titles or accounts nor
\* upgrade: they write no title.
LEMMA TitlesKept ==
    ASSUME IndieInv, [IndieNext]_indieVars
    PROVE  \/ game' = game
           \/ \E w \in Wallets, g \in Games :
                 \/ \E offer \in Offers : CreateGame(w, g, offer)
                 \/ \E fees \in FeeShares : UpdateFeeShare(w, g, fees)
                 \/ \E cost \in GameCosts : UpdateGameCost(w, g, cost)
                 \/ \E new_owner \in Wallets : TransferGameOwnership(w, g, new_owner)
                 \/ UpgradeGameVersion(g)
           \/ \E u \in UserAccounts, t \in PaymentToken :
                 \E to \in Payees(UserSeed[u].game) : CreateUserAccount(u, t, to)
  <1>1. CASE RankedStep
    BY <1>1, RankedFrame DEF RankedStep, IndieInv
  <1>2. CASE TitleStep
    <2>1. AUTHORITY \in Wallets
      BY KeyAssumption
    <2> QED  BY <1>2, <2>1 DEF TitleStep, TitleNext, DeveloperWithdraw, RewardUserAccount, Awardable
  <1>3. CASE AccountStep
    BY <1>3 DEF AccountStep, AccountNext, WithdrawRewards, ClientOpensAta, ClientSends
  <1>4. CASE UNCHANGED indieVars
    BY <1>4 DEF indieVars
  <1> QED  BY <1>1, <1>2, <1>3, <1>4 DEF IndieNext
\* The three instructions that set terms set one, and move nothing.
LEMMA SetTerms ==
    ASSUME IndieInv, NEW w \in Wallets, NEW g \in Games,
           \/ \E fees \in FeeShares : UpdateFeeShare(w, g, fees)
           \/ \E cost \in GameCosts : UpdateGameCost(w, g, cost)
           \/ \E new_owner \in Wallets : TransferGameOwnership(w, g, new_owner),
           NEW k \in Games
    PROVE  /\ game'[k].version = game[k].version
           /\ game'[k].total_users = game[k].total_users
           /\ game'[k].version # "V2" => game'[k] = game[k]
           /\ UNCHANGED <<bal, ata, user>>
           /\ \/ game'[k].owner = game[k].owner /\ game'[k].game_cost = game[k].game_cost
              \/ /\ game'[k].owner = game[k].owner
                 /\ game'[k].dev_fee_bps = game[k].dev_fee_bps
                 /\ game'[k].game_to_protocol_share_bps = game[k].game_to_protocol_share_bps
              \/ /\ game'[k].game_cost = game[k].game_cost
                 /\ game'[k].dev_fee_bps = game[k].dev_fee_bps
                 /\ game'[k].game_to_protocol_share_bps = game[k].game_to_protocol_share_bps
  <1>0. game \in [Games -> GameAccount] /\ game[g].version = "V2"
    BY IndieFacts DEF UpdateFeeShare, UpdateGameCost, TransferGameOwnership, OwnedBy, GameLoads
  <1>1. UNCHANGED <<bal, ata, user>>
    BY DEF UpdateFeeShare, UpdateGameCost, TransferGameOwnership
  <1>2. \/ \E a, b : game' = [game EXCEPT ![g].dev_fee_bps = a,
                                          ![g].game_to_protocol_share_bps = b]
        \/ \E cost : game' = [game EXCEPT ![g].game_cost = cost]
        \/ \E owner : game' = [game EXCEPT ![g].owner = owner]
    BY DEF UpdateFeeShare, UpdateGameCost, TransferGameOwnership
  <1>3. CASE k = g
    BY <1>0, <1>1, <1>2, <1>3 DEF GameAccount
  <1>4. CASE k # g
    BY <1>0, <1>1, <1>2, <1>4
  <1> QED  BY <1>3, <1>4

\* No instruction writes a title that stays in the old layout.
LEMMA OldTitlesKept ==
    ASSUME IndieInv, OldLayout, [IndieNext]_indieVars, NEW k \in Games
    PROVE  game'[k].version # "V2" => game'[k] = game[k]
  BY TitlesKept, CreateGameTerms, SetTerms, UpgradeTerms, CreateUserTerms

LEMMA OldLayoutAlways == IndieSpec => []OldLayout
  <1>1. IndieInit => OldLayout
    BY IndieGenesisAssumption DEF IndieInit, Init, OldLayout
  <1>2. IndieInv /\ OldLayout /\ [IndieNext]_indieVars => OldLayout'
    <2> SUFFICES ASSUME IndieInv, OldLayout, [IndieNext]_indieVars PROVE OldLayout'
      OBVIOUS
    <2> QED  BY OldTitlesKept DEF OldLayout
  <1> QED  BY <1>1, <1>2, IndieAlways, PTL DEF IndieSpec

\* A step that keeps the terms of a title changes none of them.
LEMMA KeptTerms ==
    ASSUME NEW g \in Games, KeepsTerms(g)
    PROVE  \A i \in 1..3 : TermsOf(g)'[i] = TermsOf(g)[i]
  BY DEF KeepsTerms, TermsOf

LEMMA TermsAlone ==
    ASSUME IndieInv, OldLayout, [IndieNext]_indieVars, NEW g \in Games, NEW i \in 1..3,
           game[g].version # "Absent", TermsOf(g)'[i] # TermsOf(g)[i]
    PROVE  /\ game'[g].version = game[g].version
           /\ \A k \in 1..3 : k # i => TermsOf(g)'[k] = TermsOf(g)[k]
           /\ UNCHANGED <<bal, ata, user>>
  <1>1. ~KeepsTerms(g)
    BY KeptTerms
  <1>2. game'[g] # game[g]
    BY <1>1 DEF KeepsTerms
  <1>3. PICK w \in Wallets, h \in Games :
           \/ \E fees \in FeeShares : UpdateFeeShare(w, h, fees)
           \/ \E cost \in GameCosts : UpdateGameCost(w, h, cost)
           \/ \E new_owner \in Wallets : TransferGameOwnership(w, h, new_owner)
    BY <1>1, <1>2, TitlesKept, CreateGameTerms, UpgradeTerms, CreateUserTerms
  <1>4. /\ game'[g].version = game[g].version /\ UNCHANGED <<bal, ata, user>>
        /\ \/ game'[g].owner = game[g].owner /\ game'[g].game_cost = game[g].game_cost
           \/ /\ game'[g].owner = game[g].owner
              /\ game'[g].dev_fee_bps = game[g].dev_fee_bps
              /\ game'[g].game_to_protocol_share_bps = game[g].game_to_protocol_share_bps
           \/ /\ game'[g].game_cost = game[g].game_cost
              /\ game'[g].dev_fee_bps = game[g].dev_fee_bps
              /\ game'[g].game_to_protocol_share_bps = game[g].game_to_protocol_share_bps
    BY <1>3, SetTerms
  <1>5. /\ TermsOf(g)' = <<game'[g].owner, game'[g].game_cost,
              <<game'[g].dev_fee_bps, game'[g].game_to_protocol_share_bps>>>>
        /\ TermsOf(g) = <<game[g].owner, game[g].game_cost,
              <<game[g].dev_fee_bps, game[g].game_to_protocol_share_bps>>>>
    BY DEF TermsOf
  <1>6. /\ TermsOf(g)'[1] = TermsOf(g)[1] \/ TermsOf(g)'[2] = TermsOf(g)[2]
        /\ TermsOf(g)'[1] = TermsOf(g)[1] \/ TermsOf(g)'[3] = TermsOf(g)[3]
        /\ TermsOf(g)'[2] = TermsOf(g)[2] \/ TermsOf(g)'[3] = TermsOf(g)[3]
    BY <1>4, <1>5
  <1>7. i = 1 \/ i = 2 \/ i = 3
    OBVIOUS
  <1>8. \A k \in 1..3 : k # i => TermsOf(g)'[k] = TermsOf(g)[k]
    <2> SUFFICES ASSUME NEW k \in 1..3, k # i PROVE TermsOf(g)'[k] = TermsOf(g)[k]
      OBVIOUS
    <2>1. k = 1 \/ k = 2 \/ k = 3
      OBVIOUS
    <2> QED  BY <1>6, <1>7, <2>1
  <1> QED  BY <1>4, <1>8

\* Owner, cost and shares of a title change one at a time and while nothing
\* is paid, for every number of titles and owners; neither a second creation
\* nor an upgrade changes any of them.
THEOREM TermsSound == IndieSpec => TermsChangeAlone
  <1> DEFINE Alone == \A g \in Games, i \in 1..3 :
          game[g].version # "Absent" /\ TermsOf(g)'[i] # TermsOf(g)[i] =>
              /\ game'[g].version = game[g].version
              /\ \A k \in 1..3 : k # i => TermsOf(g)'[k] = TermsOf(g)[k]
              /\ UNCHANGED <<bal, ata, user>>
  <1>1. IndieInv /\ OldLayout /\ [IndieNext]_indieVars => [Alone]_indieVars
    BY TermsAlone
  <1> HIDE DEF Alone
  <1>2. IndieSpec => [][Alone]_indieVars
    BY <1>1, IndieAlways, OldLayoutAlways, PTL DEF IndieSpec
  <1> QED  BY <1>2 DEF Alone, TermsChangeAlone
----------------------------------------------------------------------------
(* Counts *)

\* The instructions that open no account keep whose accounts there are.
LEMMA RecordsKept ==
    ASSUME IndieInv, [IndieNext]_indieVars,
           ~ \E u \in UserAccounts, t \in PaymentToken :
                \E to \in Payees(UserSeed[u].game) : CreateUserAccount(u, t, to)
    PROVE  \A v \in UserAccounts : /\ user'[v].is_initialized = user[v].is_initialized
                                   /\ user'[v].game = user[v].game
  <1>0. SafeInv /\ user \in [UserAccounts -> UserAccount]
    BY IndieFacts
  <1>1. CASE RankedStep
    BY <1>0, <1>1, RankedFrame DEF RankedStep
  <1>2. CASE TitleStep
    <2>1. ASSUME NEW u \in UserAccounts, NEW bps \in PoolBps, RewardUserAccount(u, bps),
                 NEW v \in UserAccounts
          PROVE  /\ user'[v].is_initialized = user[v].is_initialized
                 /\ user'[v].game = user[v].game
      <3>1. \E usd : user' = [user EXCEPT ![u].total_usd_rewards_micro = @ + usd]
        BY <2>1 DEF RewardUserAccount, Awardable
      <3> QED  BY <1>0, <3>1 DEF UserAccount
    <2>2. user' = user \/ \E u \in UserAccounts, bps \in PoolBps : RewardUserAccount(u, bps)
      BY <1>2, ZenonT(60) DEF TitleStep, TitleNext, CreateGame, UpdateFeeShare, UpdateGameCost,
         TransferGameOwnership, DeveloperWithdraw, UpgradeGameVersion
    <2> QED  BY <2>1, <2>2
  <1>3. CASE AccountStep
    BY <1>3 DEF AccountStep, AccountNext, WithdrawRewards, ClientOpensAta, ClientSends
  <1>4. CASE UNCHANGED indieVars
    BY <1>4 DEF indieVars
  <1> QED  BY <1>1, <1>2, <1>3, <1>4 DEF IndieNext

\* Accounts there were at first stay, so an account that is opened counts.
StillOpen ==
    \A u \in UserAccounts : GenesisUser[u].is_initialized => user[u].is_initialized

CountInv == UsersCounted /\ StillOpen

\* The accounts opened in a title follow from who they are.
LEMMA SameOpened ==
    ASSUME \A v \in UserAccounts : /\ user'[v].is_initialized = user[v].is_initialized
                                   /\ user'[v].game = user[v].game
    PROVE  \A g \in Games : OpenedSince(g)' = OpenedSince(g)
  BY DEF OpenedSince

\* The account of a sale is one more of its title.
LEMMA SaleOpened ==
    ASSUME IndieInv, StillOpen, NEW u \in UserAccounts, NEW t \in PaymentToken,
           NEW to \in Payees(UserSeed[u].game), CreateUserAccount(u, t, to), NEW g \in Games
    PROVE  /\ u \notin OpenedSince(g)
           /\ OpenedSince(g)' =
                IF g = UserSeed[u].game THEN OpenedSince(g) \cup {u} ELSE OpenedSince(g)
  <1> DEFINE home == UserSeed[u].game
  <1>1. /\ ~user[u].is_initialized
        /\ user'[u].is_initialized /\ user'[u].game = home
        /\ \A v \in UserAccounts : v # u => KeepsRecord(v)
    BY CreateUserRecords
  <1>2. \A v \in UserAccounts : v # u => /\ user'[v].is_initialized = user[v].is_initialized
                                        /\ user'[v].game = user[v].game
    BY <1>1 DEF KeepsRecord
  <1>3. ~GenesisUser[u].is_initialized
    BY <1>1 DEF StillOpen
  <1> HIDE DEF home
  <1>4. \A v \in UserAccounts :
           v \in OpenedSince(g)' <=> v \in OpenedSince(g) \/ (v = u /\ g = home)
    BY <1>1, <1>2, <1>3 DEF OpenedSince
  <1>5. OpenedSince(g) \subseteq UserAccounts /\ OpenedSince(g)' \subseteq UserAccounts
    BY DEF OpenedSince
  <1>6. u \notin OpenedSince(g)
    BY <1>1 DEF OpenedSince
  <1> QED  BY <1>4, <1>5, <1>6 DEF home

LEMMA CountStep ==
    ASSUME IndieInv, OldLayout, CountInv, [IndieNext]_indieVars
    PROVE  CountInv'
  <1>0. UsersCounted /\ StillOpen
    BY DEF CountInv
  <1>1. ASSUME NEW u \in UserAccounts, NEW t \in PaymentToken,
               NEW to \in Payees(UserSeed[u].game), CreateUserAccount(u, t, to)
        PROVE  CountInv'
    <2>1. /\ ~user[u].is_initialized
          /\ \A v \in UserAccounts : v # u => user'[v].is_initialized = user[v].is_initialized
      BY <1>1, CreateUserRecords DEF KeepsRecord
    <2>3. StillOpen'
      <3>1. ~GenesisUser[u].is_initialized
        BY <1>0, <2>1 DEF StillOpen
      <3> QED  BY <1>0, <2>1, <3>1 DEF StillOpen
    <2>4. ASSUME NEW g \in Games
          PROVE  game'[g].total_users = FirstCount(g) + Cardinality(OpenedSince(g)')
      <3> DEFINE S == OpenedSince(g)
                 n == FirstCount(g)
                 home == UserSeed[u].game
      <3>1. game'[g].total_users = game[g].total_users + IF g = home THEN 1 ELSE 0
        BY <1>1, CreateUserTerms
      <3>2. u \notin S /\ S' = IF g = home THEN S \cup {u} ELSE S
        BY <1>0, <1>1, SaleOpened
      <3>3. IsFiniteSet(S)
        BY KeyAssumption, FS_Subset DEF OpenedSince
      <3>4. Cardinality(S) \in Nat /\ Cardinality(S \cup {u}) = Cardinality(S) + 1
        BY <3>2, <3>3, FS_CardinalityType, FS_AddElement
      <3>5. game[g].total_users = n + Cardinality(S)
        BY <1>0 DEF UsersCounted
      <3>6. n \in Nat
        BY GenesisAssumption, WidthAssumption DEF FirstCount, GameAccount
      <3> HIDE DEF S, n, home
      <3>7. game'[g].total_users = n + Cardinality(S')
        BY <3>1, <3>2, <3>4, <3>5, <3>6
      <3> QED  BY <3>7 DEF S, n
    <2>5. UsersCounted'
      BY <2>4 DEF UsersCounted, FirstCount
    <2> QED  BY <2>3, <2>5 DEF CountInv
  <1>2. CASE ~ \E u \in UserAccounts, t \in PaymentToken :
                \E to \in Payees(UserSeed[u].game) : CreateUserAccount(u, t, to)
    <2>1. \A v \in UserAccounts : /\ user'[v].is_initialized = user[v].is_initialized
                                  /\ user'[v].game = user[v].game
      BY <1>2, RecordsKept
    <2>2. \A g \in Games : OpenedSince(g)' = OpenedSince(g)
      BY <2>1, SameOpened
    <2>3. \A g \in Games : game'[g].total_users = game[g].total_users
      BY <1>2, TitlesKept, CreateGameTerms, SetTerms, UpgradeTerms
    <2>4. UsersCounted'
      BY <1>0, <2>2, <2>3 DEF UsersCounted, FirstCount
    <2>5. StillOpen'
      BY <1>0, <2>1 DEF StillOpen
    <2> QED  BY <2>4, <2>5 DEF CountInv
  <1> QED  BY <1>1, <1>2

\* The count of every title is that of its accounts, whatever is created
\* again, upgraded and changed between the sales.
THEOREM UsersSound == IndieSpec => []UsersCounted
  <1>1. IndieInit => CountInv
    <2> SUFFICES ASSUME IndieInit PROVE CountInv
      OBVIOUS
    <2>1. game = GenesisGame /\ user = GenesisUser
      BY DEF IndieInit, Init
    <2>2. \A g \in Games : OpenedSince(g) = {}
      BY <2>1 DEF OpenedSince
    <2>3. \A g \in Games : /\ game[g].total_users \in Nat
                           /\ game[g].total_users = FirstCount(g)
      BY <2>1, GenesisAssumption, IndieGenesisAssumption, WidthAssumption
         DEF FirstCount, GameAccount
    <2>4. \A g \in Games : Cardinality(OpenedSince(g)) = 0
      BY <2>2, FS_EmptySet
    <2>5. \A n, k : k \in Nat /\ n = 0 => k = k + n
      OBVIOUS
    <2>6. UsersCounted
      BY <2>3, <2>4, <2>5 DEF UsersCounted
    <2> QED  BY <2>1, <2>6 DEF CountInv, StillOpen
  <1>2. IndieInv /\ OldLayout /\ CountInv /\ [IndieNext]_indieVars => CountInv'
    BY CountStep
  <1>3. CountInv => UsersCounted
    BY DEF CountInv
  <1> QED  BY <1>1, <1>2, <1>3, IndieAlways, OldLayoutAlways, PTL DEF IndieSpec
----------------------------------------------------------------------------
(* Rewards *)

LEMMA RewardWorth ==
    ASSUME SafeInv, NEW paid \in [PaymentToken -> Nat]
    PROVE  RewardUsd(paid) = Saturate(ValueOf(paid))
  <1> DEFINE worth(t) == (paid[t] * PriceFor(t)) \div TokenBase(t)
  <1>1. /\ SOL \in PaymentToken /\ SKR \in PaymentToken
        /\ SLICE \in PaymentToken /\ USDC \in PaymentToken
        /\ SOL # SKR /\ SOL # SLICE /\ SOL # USDC
    BY TokenAssumption DEF PaymentToken, Mints
  <1>2. /\ TokenBase(SOL) = SOL_BASE /\ TokenBase(SKR) = SPL_BASE
        /\ TokenBase(SLICE) = SPL_BASE /\ TokenBase(USDC) = SPL_BASE
    BY <1>1 DEF TokenBase
  <1>3. \A t \in PaymentToken : worth(t) \in Nat
    BY WorthIsNat
  <1>4. ValueOf(paid) = worth(SOL) + worth(SKR) + worth(SLICE) + worth(USDC)
    BY DEF ValueOf
  <1>5. RewardUsd(paid) = Saturate(Saturate(worth(USDC)) + Saturate(worth(SKR))
                                     + Saturate(worth(SLICE)) + Saturate(worth(SOL)))
    BY <1>2 DEF RewardUsd, SplUsd, SolUsd
  <1> HIDE DEF worth
  <1>6. worth(USDC) + worth(SKR) + worth(SLICE) + worth(SOL)
          = worth(SOL) + worth(SKR) + worth(SLICE) + worth(USDC)
    BY <1>1, <1>3
  <1>7. /\ worth(USDC) \in Nat /\ worth(SKR) \in Nat
        /\ worth(SLICE) \in Nat /\ worth(SOL) \in Nat
    BY <1>1, <1>3
  <1>8. Saturate(Saturate(worth(USDC)) + Saturate(worth(SKR))
                    + Saturate(worth(SLICE)) + Saturate(worth(SOL)))
           = Saturate(worth(USDC) + worth(SKR) + worth(SLICE) + worth(SOL))
    BY <1>7, SaturatedSum
  <1> QED  BY <1>4, <1>5, <1>6, <1>8

\* What is credited, and whether anything is or the reserve pays.
Credit(u) == user'[u].total_usd_rewards_micro - user[u].total_usd_rewards_micro

Credits(u) == Credit(u) # 0 \/ PaidByReserve(u)

\* A step that takes from no reserve of a title and credits nothing.
LEMMA ReservesKept ==
    ASSUME IndieInv, bal' \in Ledgers, NEW u \in UserAccounts,
           \A g \in Games, t \in PaymentToken :
              bal'[GameProtocolPda(g)][t] >= bal[GameProtocolPda(g)][t],
           user'[u].total_usd_rewards_micro = user[u].total_usd_rewards_micro
    PROVE  ~Credits(u)
  <1>1. user[u].total_usd_rewards_micro \in Nat
    BY IndieFacts, WidthAssumption DEF UserAccount
  <1>2. Credit(u) = 0
    BY <1>1 DEF Credit
  <1>3. \A g \in Games, t \in PaymentToken :
           bal[GameProtocolPda(g)][t] \in Nat /\ bal'[GameProtocolPda(g)][t] \in Nat
    BY IndieFacts, VaultAddresses DEF Ledgers
  <1>4. \A g \in Games, t \in PaymentToken :
           ~(bal'[GameProtocolPda(g)][t] < bal[GameProtocolPda(g)][t])
    BY <1>3
  <1>5. ~PaidByReserve(u)
    BY <1>4 DEF PaidByReserve
  <1> QED  BY <1>2, <1>5 DEF Credits

LEMMA FilledKeepsReserves ==
    ASSUME IndieInv, NEW u \in UserAccounts, NEW S, Filled(bal', S),
           \A g \in Games : GameProtocolPda(g) \notin S,
           user'[u].total_usd_rewards_micro = user[u].total_usd_rewards_micro
    PROVE  ~Credits(u)
  BY ReservesKept, VaultAddresses DEF Filled

\* The reward of an account from its title's pools, at its value.
LEMMA RewardCredits ==
    ASSUME IndieInv, NEW u \in UserAccounts, NEW bps \in PoolBps, RewardUserAccount(u, bps)
    PROVE  /\ \A t \in PaymentToken : Arrived(u)[t] >= 0
           /\ Credit(u) = Saturate(ValueOf(Arrived(u)))
  <1> DEFINE U == UserAccountPda(u)
             H == GameProtocolPda(user[u].game)
             paid == PoolShare(user[u].game, bps)
  <1>0. SafeInv /\ bal \in Ledgers /\ user \in [UserAccounts -> UserAccount]
    BY IndieFacts
  <1>1. /\ user[u].game \in Games
        /\ \A t \in PaymentToken : /\ paid[t] \in 0..Withdrawable(H, RENT_EMPTY, t)
                                   /\ bal'[U][t] = bal[U][t] + paid[t]
    BY <1>0, RewardUserLedger
  <1>2. \A t \in PaymentToken : /\ bal[U][t] \in Nat
                                /\ Withdrawable(H, RENT_EMPTY, t) \in 0..bal[H][t]
    BY <1>0, <1>1, OutBound, VaultAddresses, RentAssumption DEF Ledgers
  <1>3. paid \in [PaymentToken -> Nat]
    BY <1>1, <1>2 DEF PoolShare
  <1>4. OracleLoads /\ user' = [user EXCEPT ![u].total_usd_rewards_micro =
                          user[u].total_usd_rewards_micro + RewardUsd(paid)]
    BY DEF RewardUserAccount, Awardable
  <1>5. Arrived(u) = [t \in PaymentToken |-> bal'[U][t] - bal[U][t]]
    BY DEF Arrived, UserAccountPda
  <1>6. paid = [t \in PaymentToken |-> paid[t]]
    BY DEF PoolShare
  <1> HIDE DEF U, H, paid
  <1>7. \A t \in PaymentToken : bal'[U][t] - bal[U][t] = paid[t] /\ paid[t] >= 0
    BY <1>1, <1>2, <1>3
  <1>8. Arrived(u) = paid
    BY <1>5, <1>6, <1>7
  <1>9. RewardUsd(paid) = Saturate(ValueOf(paid))
    BY <1>0, <1>3, <1>4, RewardWorth
  <1>10. Credit(u) = RewardUsd(paid)
    <2>1. user'[u].total_usd_rewards_micro
            = user[u].total_usd_rewards_micro + RewardUsd(paid)
      BY <1>0, <1>4 DEF UserAccount
    <2>2. user[u].total_usd_rewards_micro \in Nat
      BY <1>0, WidthAssumption DEF UserAccount
    <2>3. RewardUsd(paid) \in Int
      <3>1. \A n \in Int : Saturate(n) \in Int
        BY WidthAssumption DEF Saturate
      <3>2. \A t \in PaymentToken : PriceFor(t) \in Nat /\ TokenBase(t) \in Nat \ {0}
        BY <1>0, <1>4, SafeFacts, ScaleAssumption DEF OracleLoads, TokenBase
      <3>3. \A t \in PaymentToken : (paid[t] * PriceFor(t)) \div TokenBase(t) \in Int
        <4>1. \A n \in Nat, k \in Nat, d \in Nat \ {0} : (n * k) \div d \in Int
          BY SMT
        <4> QED  BY <1>3, <3>2, <4>1
      <3>4. ValueOf(paid) \in Int
        BY <3>3 DEF ValueOf, PaymentToken, Mints
      <3> QED  BY <1>9, <3>1, <3>4
    <2> QED  BY <2>1, <2>2, <2>3 DEF Credit
  <1> QED  BY <1>7, <1>8, <1>9, <1>10
\* Ranked games credit an account together with a win only.
LEMMA RankedCredits ==
    ASSUME IndieInv, [Next]_vars, NEW u \in UserAccounts,
           user'[u].total_wins = user[u].total_wins
    PROVE  ~Credits(u)
  <1>0. SafeInv /\ bal \in Ledgers /\ user \in [UserAccounts -> UserAccount]
    BY IndieFacts
  <1>1. bal' \in Ledgers
    <2>1. SafeInv'
      BY <1>0, SafeStep
    <2> QED  BY <2>1 DEF SafeInv, TypeOK, AccountsTypeOK, Ledgers
  <1>2. \A g \in Games, t \in PaymentToken :
           bal'[GameProtocolPda(g)][t] >= bal[GameProtocolPda(g)][t]
    BY <1>0, RankedVaults, VaultAddresses DEF VaultsGrow
  <1>3. user'[u].total_usd_rewards_micro = user[u].total_usd_rewards_micro
    <2>1. ASSUME NEW r \in RankedGames, NEW v \in UserAccounts, NEW bps \in PayoutBps,
                 RewardWinner(v, r, bps)
          PROVE  user'[u].total_usd_rewards_micro = user[u].total_usd_rewards_micro
      <3>1. PICK usd : user' = [user EXCEPT ![v].total_usd_rewards_micro = @ + usd,
                                            ![v].total_wins = user[v].total_wins + 1,
                                            ![v].current_ranked_game = DefaultKey]
        BY <2>1 DEF RewardWinner, Payable, Rewarded
      <3>2. user[v].total_wins \in Nat
        BY <1>0, WidthAssumption DEF UserAccount
      <3>3. user'[v].total_wins = user[v].total_wins + 1
        BY <1>0, <3>1 DEF UserAccount
      <3>4. u # v
        BY <3>2, <3>3
      <3> QED  BY <1>0, <3>1, <3>4
    <2>2. ASSUME NEW r \in RankedGames, NEW v \in UserAccounts, NEW t \in PaymentToken,
                 JoinRankedGame(v, r, t)
          PROVE  user'[u].total_usd_rewards_micro = user[u].total_usd_rewards_micro
      <3>1. user' = [user EXCEPT ![v].current_ranked_game = r,
                                 ![v].total_ranked_games_played =
                                    user[v].total_ranked_games_played + 1]
        BY <2>2 DEF JoinRankedGame, Enrolled
      <3> QED  BY <1>0, <3>1 DEF UserAccount
    <2>3. ASSUME NEW r \in RankedGames,
                 \/ \E g \in ParentGames, fee \in EntryFees : CreateRankedGame(r, g, fee)
                 \/ \E s \in RankedGameStatus : UpdateRankedGameStatus(r, s)
                 \/ CloseRankedGame(r)
          PROVE  user' = user
      BY <2>3 DEF CreateRankedGame, UpdateRankedGameStatus, CloseRankedGame, Closable
    <2>4. CASE OracleStep \/ UNCHANGED vars
      BY <2>4 DEF OracleStep, OracleNext, InitOracle, UpdateOraclePrices, vars
    <2> QED  BY <2>1, <2>2, <2>3, <2>4 DEF Next
  <1> QED  BY <1>1, <1>2, <1>3, ReservesKept

LEMMA TitleCredits ==
    ASSUME IndieInv, TitleStep, NEW u \in UserAccounts,
           ~ \E bps \in PoolBps : RewardUserAccount(u, bps)
    PROVE  ~Credits(u)
  <1>0. SafeInv /\ bal \in Ledgers /\ user \in [UserAccounts -> UserAccount]
    BY IndieFacts
  <1>1. ASSUME NEW w \in Wallets, NEW g \in Games,
               \/ \E offer \in Offers : CreateGame(w, g, offer)
               \/ UpgradeGameVersion(g)
        PROVE  ~Credits(u)
    <2>1. Filled(bal', {}) /\ user' = user
      BY <1>0, <1>1, CreateGameLedger, UpgradeLedger DEF CreateGame, UpgradeGameVersion
    <2> QED  BY <2>1, FilledKeepsReserves
  <1>2. ASSUME NEW w \in Wallets, NEW g \in Games,
               \/ \E fees \in FeeShares : UpdateFeeShare(w, g, fees)
               \/ \E cost \in GameCosts : UpdateGameCost(w, g, cost)
               \/ \E new_owner \in Wallets : TransferGameOwnership(w, g, new_owner)
        PROVE  ~Credits(u)
    <2>1. bal' = bal /\ user' = user
      BY <1>2, SetTerms
    <2>2. Filled(bal', {})
      BY <1>0, <2>1, NothingFilled
    <2> QED  BY <2>1, <2>2, FilledKeepsReserves
  <1>3. ASSUME NEW w \in Wallets, NEW g \in Games, NEW dst \in [Mints -> Destinations],
               DeveloperWithdraw(w, g, dst)
        PROVE  ~Credits(u)
    <2>1. /\ bal' = Drained(GamePda(g), RENT_GAME, Directed(w, dst)) /\ user' = user
          /\ GamePda(g) \in VaultHolder /\ CanDrainTo(GamePda(g), dst)
          /\ dst \in [Mints -> Holder] /\ RENT_GAME \in Nat
      BY <1>3, VaultAddresses, TitleInputAssumption, RentAssumption DEF DeveloperWithdraw
    <2>2. Filled(bal', {GamePda(g)})
      BY <1>0, <2>1, DrainLedger
    <2> QED  BY <2>1, <2>2, FilledKeepsReserves, VaultsApart
  <1>4. ASSUME NEW v \in UserAccounts, NEW bps \in PoolBps, RewardUserAccount(v, bps)
        PROVE  ~Credits(u)
    <2>1. u # v
      BY <1>4
    <2>2. user'[u] = user[u] /\ user[u].total_usd_rewards_micro \in Nat
      BY <1>0, <1>4, <2>1, WidthAssumption DEF RewardUserAccount, Awardable, UserAccount
    <2>3. /\ user[v].game \in Games
          /\ \A h \in Holder :
                h # GameProtocolPda(user[v].game) /\ h # UserAccountPda(v) =>
                   \A t \in PaymentToken : bal'[h][t] = bal[h][t]
      BY <1>0, <1>4, RewardUserLedger
    <2>4. \A t \in PaymentToken : bal'[UserAccountPda(u)][t] = bal[UserAccountPda(u)][t]
                                 /\ bal[UserAccountPda(u)][t] \in Nat
      BY <1>0, <2>1, <2>3, VaultAddresses, VaultsApart DEF Ledgers
    <2>5. \A t \in PaymentToken : ~(Arrived(u)[t] > 0)
      <3> SUFFICES ASSUME NEW t \in PaymentToken PROVE ~(Arrived(u)[t] > 0)
        OBVIOUS
      <3>1. Arrived(u)[t] = bal'[UserAccountPda(u)][t] - bal[UserAccountPda(u)][t]
        BY DEF Arrived, UserAccountPda
      <3> QED  BY <2>4, <3>1
    <2>6. ~PaidByReserve(u)
      BY <2>5 DEF PaidByReserve
    <2> QED  BY <2>2, <2>6 DEF Credits, Credit
  <1> QED  BY <1>1, <1>2, <1>3, <1>4, KeyAssumption DEF TitleStep, TitleNext

LEMMA AccountCredits ==
    ASSUME IndieInv, AccountStep, NEW u \in UserAccounts, user[u].is_initialized
    PROVE  ~Credits(u)
  <1>0. SafeInv /\ bal \in Ledgers
    BY IndieFacts
  <1>1. ASSUME NEW v \in UserAccounts, NEW t \in PaymentToken,
               NEW to \in Payees(UserSeed[v].game), CreateUserAccount(v, t, to)
        PROVE  ~Credits(u)
    <2>1. Filled(bal', {})
      BY <1>0, <1>1, CreateUserLedger
    <2>2. u # v
      BY <1>1 DEF CreateUserAccount
    <2>3. user'[u].total_usd_rewards_micro = user[u].total_usd_rewards_micro
      BY <1>1, <2>2, CreateUserRecords
    <2> QED  BY <2>1, <2>3, FilledKeepsReserves
  <1>2. ASSUME NEW v \in UserAccounts, NEW dst \in [Mints -> Destinations],
               WithdrawRewards(v, dst)
        PROVE  ~Credits(u)
    <2> DEFINE V == UserAccountPda(v)
               w == user[v].owner
    <2>1. /\ bal' = Drained(V, RENT_USER, Directed(w, dst)) /\ user' = user
          /\ w \in Wallets /\ V \in VaultHolder /\ CanDrainTo(V, dst)
          /\ dst \in [Mints -> Holder] /\ RENT_USER \in Nat
      BY <1>0, <1>2, SafeFacts, VaultAddresses, TitleInputAssumption, RentAssumption
         DEF WithdrawRewards
    <2>2. \A g \in Games : GameProtocolPda(g) \notin {V}
      BY VaultsApart
    <2> HIDE DEF V, w
    <2>3. Filled(bal', {V})
      BY <1>0, <2>1, DrainLedger
    <2> QED  BY <2>1, <2>2, <2>3, FilledKeepsReserves
  <1>3. ASSUME NEW w \in Wallets,
               \/ \E a \in ClientAtas : ClientOpensAta(w, a[1], a[2])
               \/ \E a \in Gifts : ClientSends(w, a[1], a[2])
        PROVE  ~Credits(u)
    <2>1. Filled(bal', {}) /\ user' = user
      BY <1>0, <1>3, AtaLedger, GiftLedger DEF ClientOpensAta, ClientSends
    <2> QED  BY <2>1, FilledKeepsReserves
  <1> QED  BY <1>1, <1>2, <1>3 DEF AccountStep, AccountNext

LEMMA CreditExact ==
    ASSUME IndieInv, [IndieNext]_indieVars, NEW u \in UserAccounts,
           user[u].is_initialized, user'[u].total_wins = user[u].total_wins, Credits(u)
    PROVE  /\ \A t \in PaymentToken : Arrived(u)[t] >= 0
           /\ Credit(u) = Saturate(ValueOf(Arrived(u)))
  <1>1. CASE RankedStep \/ UNCHANGED indieVars
    <2>1. [Next]_vars
      BY <1>1 DEF RankedStep, indieVars, vars
    <2> QED  BY <2>1, RankedCredits
  <1>2. CASE TitleStep
    BY <1>2, TitleCredits, RewardCredits
  <1>3. CASE AccountStep
    BY <1>3, AccountCredits
  <1> QED  BY <1>1, <1>2, <1>3 DEF IndieNext

\* A user account is credited for what arrives from its title's pools at the
\* value it was sold at, for any prices, bases and widths; nothing else of
\* titles and accounts is credited, and ranked games only with a win.
THEOREM RewardsExact == IndieSpec => RewardCreditExact
  <1> DEFINE Exact == \A u \in UserAccounts :
          LET credit == user'[u].total_usd_rewards_micro - user[u].total_usd_rewards_micro
          IN  /\ user[u].is_initialized
              /\ user'[u].total_wins = user[u].total_wins
              /\ credit # 0 \/ PaidByReserve(u)
              => /\ \A t \in PaymentToken : Arrived(u)[t] >= 0
                 /\ credit = Saturate(ValueOf(Arrived(u)))
  <1>1. IndieInv /\ [IndieNext]_indieVars => [Exact]_indieVars
    BY CreditExact DEF Credit, Credits
  <1> HIDE DEF Exact
  <1>2. IndieSpec => [][Exact]_indieVars
    BY <1>1, IndieAlways, PTL DEF IndieSpec
  <1> QED  BY <1>2 DEF Exact, RewardCreditExact

=============================================================================
