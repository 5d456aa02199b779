------------------------- MODULE RankedSupplyProofs -------------------------
(***************************************************************************)
(* The instructions of ranked games neither create nor destroy tokens, for *)
(* any set of addresses and any ledger.                                    *)
(***************************************************************************)
EXTENDS RankedGameProofs, SupplyProofs

\* What a step must leave of every token.
SupplyKept == \A t \in PaymentToken : SupplyOf(bal', ata', t) = SupplyOf(bal, ata, t)

LEMMA LedgersAccount == Ledgers \subseteq Accounting
  BY DEF Ledgers, Accounting

----------------------------------------------------------------------------
(* What each instruction does to the supply *)

\* An entry is what the payer gives away, whoever the payer is.
LEMMA EntryHeld ==
    ASSUME bal \in Ledgers, NEW payer \in Wallets, NEW r \in RankedGames,
           NEW g \in Games, NEW t \in PaymentToken,
           NEW due \in [net : Nat, dev : Nat, protocol : Nat],
           PaidEntry(payer, r, g, t, due) \in Ledgers
    PROVE  \A x \in PaymentToken : Held(PaidEntry(payer, r, g, t, due), x) = Held(bal, x)
  <1> DEFINE P == WalletOf(payer)
             E == Escrow(r)
             G == GamePda(g)
             H == GameProtocolPda(g)
             c == PaidEntry(payer, r, g, t, due)
  <1>1. /\ P \in Holder /\ E \in Holder /\ G \in Holder /\ H \in Holder
        /\ P # E /\ P # G /\ P # H /\ E # G /\ E # H /\ G # H
    BY Addresses DEF Escrow, WalletOf, GamePda, GameProtocolPda, RankedGamePda
  <1>2. c = [bal EXCEPT ![P][t] = @ - (due.net + due.dev + due.protocol),
                        ![E][t] = @ + due.net, ![G][t] = @ + due.dev,
                        ![H][t] = @ + due.protocol]
    BY DEF PaidEntry, Escrow
  <1> HIDE DEF P, E, G, H, c
  <1>3. due.net \in Nat /\ due.dev \in Nat /\ due.protocol \in Nat
    OBVIOUS
  <1>4. \A h \in Holder, x \in PaymentToken : bal[h][x] \in Nat
    BY DEF Ledgers
  <1>5. bal \in Accounting /\ c \in Accounting
    BY LedgersAccount DEF c
  <1>6. ASSUME NEW x \in PaymentToken
        PROVE  Held(c, x) = Held(bal, x)
    <2>1. \A k \in Holder \ {P, E, G, H} : c[k][x] = bal[k][x]
      BY <1>1, <1>2 DEF Ledgers
    <2>2. /\ c[P][x] = bal[P][x] - IF x = t THEN due.net + due.dev + due.protocol ELSE 0
          /\ c[E][x] = bal[E][x] + IF x = t THEN due.net ELSE 0
          /\ c[G][x] = bal[G][x] + IF x = t THEN due.dev ELSE 0
          /\ c[H][x] = bal[H][x] + IF x = t THEN due.protocol ELSE 0
      BY <1>1, <1>2, <1>4 DEF Ledgers
    <2>3. Held(c, x) = Held(bal, x) + (c[P][x] - bal[P][x]) + (c[E][x] - bal[E][x])
                         + (c[G][x] - bal[G][x]) + (c[H][x] - bal[H][x])
      BY <1>1, <1>5, <2>1, FourHeld
    <2>4. Held(bal, x) \in Int  BY <1>5, HeldIsInt
    <2> QED  BY <1>1, <1>3, <1>4, <2>2, <2>3, <2>4
  <1> QED  BY <1>6 DEF c

LEMMA CreateSupply ==
    ASSUME SafeInv, SafeInv', NEW r \in RankedGames, NEW g \in ParentGames, NEW fee \in EntryFees,
           CreateRankedGame(r, g, fee)
    PROVE  SupplyKept
  <1> DEFINE M == MissingAtas(Escrow(r), Mints)
             x == {Escrow(r)} \X M
             E == Escrow(r)
  <1>1. /\ bal \in Ledgers /\ bal' \in Ledgers /\ bal \in Accounting /\ bal' \in Accounting
        /\ ata \in SUBSET (Holder \X Mints)
    BY LedgersAccount DEF SafeInv, TypeOK, AccountsTypeOK, Ledgers
  <1>2. E \in Holder /\ Treasury \in Holder /\ E # Treasury /\ SOL \in PaymentToken
    BY Addresses DEF PaymentToken
  <1>3. /\ x \in SUBSET (Holder \X Mints) /\ Cardinality(x) = Cardinality(M)
        /\ RENT_ATA * Cardinality(M) \in Nat
    <2>1. M \in SUBSET Mints  BY DEF MissingAtas
    <2> QED  BY <1>2, <2>1, AtasOfOne, RentIsNat
  <1>4. ata' = ata \cup x /\ ata \cap x = {}
    BY DEF CreateRankedGame, OpenedAtas, MissingAtas
  <1> DEFINE rent == RENT_ATA * Cardinality(x)
  <1>5. bal' = [bal EXCEPT ![Treasury][SOL] = @ - (RENT_RANKED + rent),
                           ![E][SOL] = @ + RENT_RANKED]
    BY <1>3 DEF CreateRankedGame, EscrowRent
  <1>6. rent \in Nat  BY <1>3
  <1> HIDE DEF M, x, E, rent
  <1>7. ASSUME NEW t \in PaymentToken
        PROVE  Held(bal', t) = Held(bal, t) - IF t = SOL THEN rent ELSE 0
    <2>1. \A k \in Holder \ {Treasury, E} : bal'[k][t] = bal[k][t]
      BY <1>1, <1>2, <1>5 DEF Ledgers
    <2>2. bal[Treasury][t] \in Nat /\ bal[E][t] \in Nat /\ Held(bal, t) \in Int
      BY <1>1, <1>2, HeldIsInt DEF Ledgers
    <2>3. /\ bal'[Treasury][t] = bal[Treasury][t] - IF t = SOL THEN RENT_RANKED + rent ELSE 0
          /\ bal'[E][t] = bal[E][t] + IF t = SOL THEN RENT_RANKED ELSE 0
      BY <1>1, <1>2, <1>5, <2>2 DEF Ledgers
    <2>4. Held(bal', t) = Held(bal, t) + (bal'[Treasury][t] - bal[Treasury][t])
                                       + (bal'[E][t] - bal[E][t])
      BY <1>1, <1>2, <2>1, TwoHeld
    <2> QED  BY <1>6, <2>2, <2>3, <2>4, RentAssumption
  <1>8. \A t \in PaymentToken : SupplyOf(bal', ata \cup x, t) = SupplyOf(bal, ata, t)
    BY <1>1, <1>3, <1>4, <1>7, SupplyOpened DEF rent
  <1> QED  BY <1>4, <1>8 DEF SupplyKept

LEMMA JoinSupply ==
    ASSUME SafeInv, SafeInv', NEW u \in UserAccounts, NEW r \in RankedGames,
           NEW t \in PaymentToken, JoinRankedGame(u, r, t)
    PROVE  SupplyKept
  <1> DEFINE g == ranked[r].game
             share == game[g].game_to_protocol_share_bps
             fee == ranked[r].entry_fee
             due == EntryTokens(fee, BPS_DENOMINATOR - share, PriceFor(t), TokenBase(t))
  <1>1. /\ Joinable(u, r) /\ share <= BPS_DENOMINATOR
        /\ ProcessRankedEntryPayment(user[u].owner, r, g, fee,
              BPS_DENOMINATOR - share, share, t)
    BY DEF JoinRankedGame
  <1>2. PriceFor(t) # 0 /\ UNCHANGED ata /\ bal' = PaidEntry(user[u].owner, r, g, t, due)
    BY <1>1 DEF ProcessRankedEntryPayment
  <1>3. Exists(r) /\ user[u].owner \in Wallets /\ g \in Games /\ fee \in Nat
    BY <1>1, SafeFacts DEF Joinable, GameLoads, Exists
  <1>4. BPS_DENOMINATOR - share \in Nat /\ BPS_DENOMINATOR - share <= BPS_DENOMINATOR
    <2>1. game[g] \in GameAccount  BY <1>3 DEF SafeInv, TypeOK, AccountsTypeOK
    <2>2. share \in Nat  BY <2>1, WidthAssumption DEF GameAccount
    <2> QED  BY <1>1, <2>2, ScaleAssumption
  <1>5. PriceFor(t) \in Nat \ {0} /\ TokenBase(t) \in Nat
    BY <1>2, SafeFacts
  <1> HIDE DEF g, share, fee
  <1>6. due \in [net : Nat, dev : Nat, protocol : Nat]
    BY <1>3, <1>4, <1>5, TokensDue
  <1> HIDE DEF due
  <1>7. bal \in Ledgers /\ bal' \in Ledgers
    BY DEF SafeInv, TypeOK, AccountsTypeOK, Ledgers
  <1>8. \A x \in PaymentToken : Held(bal', x) = Held(bal, x)
    BY <1>2, <1>3, <1>6, <1>7, EntryHeld
  <1> QED  BY <1>2, <1>8, SupplyMoved DEF SupplyKept

\* The winner gains what the escrow loses; the winner may be the authority,
\* which pays the rent of the winner's new token accounts.
LEMMA RewardSupply ==
    ASSUME SafeInv, SafeInv', NEW u \in UserAccounts, NEW r \in RankedGames,
           NEW bps \in PayoutBps, RewardWinner(u, r, bps)
    PROVE  SupplyKept
  <1> DEFINE w == user[u].owner
             paid == Payout(r, bps)
             M == WinnerAtas(w, paid)
             x == {WalletOf(w)} \X M
             rent == RENT_ATA * Cardinality(x)
             E == Escrow(r)
             W == WalletOf(w)
             p == PaidOut(r, w, paid)
  <1>1. /\ bal \in Ledgers /\ bal' \in Ledgers /\ bal \in Accounting /\ bal' \in Accounting
        /\ ata \in SUBSET (Holder \X Mints)
    BY LedgersAccount DEF SafeInv, TypeOK, AccountsTypeOK, Ledgers
  <1>2. /\ w \in Wallets /\ paid \in [PaymentToken -> Nat]
        /\ \A t \in PaymentToken : paid[t] <= bal[E][t]
    BY SafeFacts, PayoutLedger DEF RewardWinner, Payable, Rewardable
  <1>3. /\ E \in Holder /\ W \in Holder /\ E # W /\ Treasury \in Holder
        /\ SOL \in PaymentToken
    BY <1>2, Addresses DEF PaymentToken
  <1>4. /\ x \in SUBSET (Holder \X Mints) /\ Cardinality(x) = Cardinality(M)
        /\ RENT_ATA * Cardinality(M) \in Nat
    <2>1. M \in SUBSET Mints  BY DEF WinnerAtas, MissingAtas
    <2> QED  BY <1>3, <2>1, AtasOfOne, RentIsNat
  <1>5. ata' = ata \cup x /\ ata \cap x = {}
    BY DEF RewardWinner, WinnerAtas, MissingAtas
  <1>6. bal' = [p EXCEPT ![Treasury][SOL] = @ - rent] /\ rent \in Nat
    BY <1>4 DEF RewardWinner, WinnerRent, RewardSettled
  <1>7. p = [bal EXCEPT ![E] = [t \in PaymentToken |-> bal[E][t] - paid[t]],
                        ![W] = [t \in PaymentToken |-> bal[W][t] + paid[t]]]
    BY DEF PaidOut
  <1> HIDE DEF w, paid, M, x, rent, E, W, p
  <1>8. p \in Accounting
    <2>1. \A h \in Holder, t \in PaymentToken : bal[h][t] \in Nat /\ paid[t] \in Nat
      BY <1>1, <1>2 DEF Ledgers
    <2>2. /\ [t \in PaymentToken |-> bal[E][t] - paid[t]] \in [PaymentToken -> Int]
          /\ [t \in PaymentToken |-> bal[W][t] + paid[t]] \in [PaymentToken -> Int]
      BY <1>3, <2>1
    <2> QED  BY <1>1, <1>7, <2>2 DEF Accounting
  <1>9. ASSUME NEW t \in PaymentToken
        PROVE  Held(p, t) = Held(bal, t)
    <2>1. \A k \in Holder \ {E, W} : p[k][t] = bal[k][t]
      BY <1>1, <1>3, <1>7 DEF Ledgers
    <2>2. bal[E][t] \in Nat /\ bal[W][t] \in Nat /\ paid[t] \in Nat /\ Held(bal, t) \in Int
      BY <1>1, <1>2, <1>3, HeldIsInt DEF Ledgers
    <2>3. p[E][t] = bal[E][t] - paid[t] /\ p[W][t] = bal[W][t] + paid[t]
      BY <1>1, <1>3, <1>7 DEF Ledgers
    <2>4. Held(p, t) = Held(bal, t) + (p[E][t] - bal[E][t]) + (p[W][t] - bal[W][t])
      BY <1>1, <1>3, <1>8, <2>1, TwoHeld
    <2> QED  BY <2>2, <2>3, <2>4
  <1>10. ASSUME NEW t \in PaymentToken
         PROVE  Held(bal', t) = Held(p, t) - IF t = SOL THEN rent ELSE 0
    <2>1. \A k \in Holder \ {Treasury} : bal'[k][t] = p[k][t]
      BY <1>3, <1>6, <1>8 DEF Accounting
    <2>2. p[Treasury][t] \in Int /\ Held(p, t) \in Int
      BY <1>3, <1>8, HeldIsInt DEF Accounting
    <2>3. bal'[Treasury][t] = p[Treasury][t] - IF t = SOL THEN rent ELSE 0
      BY <1>3, <1>6, <1>8, <2>2 DEF Accounting
    <2>4. Held(bal', t) = Held(p, t) + (bal'[Treasury][t] - p[Treasury][t])
      BY <1>1, <1>3, <1>8, <2>1, OneHeld
    <2> QED  BY <1>6, <2>2, <2>3, <2>4
  <1>11. \A t \in PaymentToken : SupplyOf(bal', ata \cup x, t) = SupplyOf(bal, ata, t)
    BY <1>1, <1>4, <1>5, <1>9, <1>10, SupplyOpened DEF rent
  <1> QED  BY <1>5, <1>11 DEF SupplyKept

LEMMA CloseSupply ==
    ASSUME SafeInv, SafeInv', NEW r \in RankedGames, CloseRankedGame(r)
    PROVE  SupplyKept
  <1> DEFINE E == Escrow(r)
             M == OpenAtas(E)
             x == {E} \X M
             rent == RENT_ATA * Cardinality(x)
             gain == [t \in PaymentToken |->
                        bal[Treasury][t] + bal[E][t] + IF t = SOL THEN rent ELSE 0]
  <1>1. /\ bal \in Ledgers /\ bal' \in Ledgers /\ bal \in Accounting /\ bal' \in Accounting
        /\ ata \in SUBSET (Holder \X Mints)
    BY LedgersAccount DEF SafeInv, TypeOK, AccountsTypeOK, Ledgers
  <1>2. E \in Holder /\ Treasury \in Holder /\ E # Treasury
    BY Addresses
  <1>3. /\ x \in SUBSET ata /\ Cardinality(x) = Cardinality(M) /\ rent \in Nat
    <2>1. M \in SUBSET Mints  BY DEF OpenAtas
    <2>2. Cardinality(x) = Cardinality(M) /\ RENT_ATA * Cardinality(M) \in Nat
      BY <1>2, <2>1, AtasOfOne, RentIsNat
    <2> QED  BY <2>2 DEF OpenAtas
  <1>4. ata' = ata \ x
    <2>1. ata' = ata \ ({E} \X Mints)  BY DEF CloseRankedGame
    <2> QED  BY <1>1, <2>1 DEF OpenAtas
  <1>5. bal' = [bal EXCEPT ![Treasury] = gain, ![E] = NoTokens]
    <2>1. RENT_ATA * Cardinality(OpenAtas(Escrow(r))) = rent  BY <1>3
    <2>2. bal' = Swept(r)  BY DEF CloseRankedGame
    <2> HIDE DEF rent
    <2> QED  BY <2>1, <2>2, Zenon DEF Swept
  <1>6. \A t \in PaymentToken :
           gain[t] = bal[Treasury][t] + bal[E][t] + IF t = SOL THEN rent ELSE 0
    OBVIOUS
  <1> HIDE DEF E, M, x, rent, gain
  <1>7. ASSUME NEW t \in PaymentToken
        PROVE  Held(bal', t) = Held(bal, t) + IF t = SOL THEN rent ELSE 0
    <2>1. /\ bal'[Treasury] = gain /\ bal'[E] = NoTokens
          /\ \A k \in Holder \ {Treasury, E} : bal'[k] = bal[k]
      BY <1>1, <1>2, <1>5 DEF Ledgers
    <2>2. bal[Treasury][t] \in Nat /\ bal[E][t] \in Nat /\ Held(bal, t) \in Int
      BY <1>1, <1>2, HeldIsInt DEF Ledgers
    <2>3. Held(bal', t) = Held(bal, t) + (bal'[Treasury][t] - bal[Treasury][t])
                                       + (bal'[E][t] - bal[E][t])
      BY <1>1, <1>2, <2>1, TwoHeld
    <2>4. NoTokens[t] = 0  BY DEF NoTokens
    <2> QED  BY <1>3, <1>6, <2>1, <2>2, <2>3, <2>4
  <1>8. \A t \in PaymentToken : SupplyOf(bal', ata \ x, t) = SupplyOf(bal, ata, t)
    BY <1>1, <1>3, <1>7, SupplyClosed DEF rent
  <1> QED  BY <1>4, <1>8 DEF SupplyKept

LEMMA OracleSupply ==
    ASSUME SafeInv, SafeInv', OracleStep
    PROVE  SupplyKept
  <1>1. PICK price \in PriceInputs : InitOracle(price) \/ UpdateOraclePrices(price)
    BY DEF OracleStep, OracleNext
  <1>2. UNCHANGED ata
    BY <1>1 DEF InitOracle, UpdateOraclePrices
  <1>3. CASE InitOracle(price)
    <2>1. /\ bal \in Ledgers /\ bal' \in Ledgers /\ bal \in Accounting /\ bal' \in Accounting
      BY LedgersAccount DEF SafeInv, TypeOK, AccountsTypeOK, Ledgers
    <2>2. OraclePda \in Holder /\ Treasury \in Holder /\ OraclePda # Treasury
      BY Addresses
    <2>3. bal' = [bal EXCEPT ![Treasury][SOL] = @ - RENT_ORACLE,
                             ![OraclePda][SOL] = @ + RENT_ORACLE]
      BY <1>3 DEF InitOracle, Treasury
    <2>4. ASSUME NEW t \in PaymentToken
          PROVE  Held(bal', t) = Held(bal, t)
      <3>1. \A k \in Holder \ {Treasury, OraclePda} : bal'[k][t] = bal[k][t]
        BY <2>1, <2>2, <2>3 DEF Ledgers
      <3>2. /\ bal[Treasury][t] \in Nat /\ bal[OraclePda][t] \in Nat
            /\ Held(bal, t) \in Int
        BY <2>1, <2>2, HeldIsInt DEF Ledgers
      <3>3. /\ bal'[Treasury][t] = bal[Treasury][t] - IF t = SOL THEN RENT_ORACLE ELSE 0
            /\ bal'[OraclePda][t] = bal[OraclePda][t] + IF t = SOL THEN RENT_ORACLE ELSE 0
        BY <2>1, <2>2, <2>3, <3>2 DEF Ledgers
      <3>4. Held(bal', t) = Held(bal, t) + (bal'[Treasury][t] - bal[Treasury][t])
                                         + (bal'[OraclePda][t] - bal[OraclePda][t])
        BY <2>1, <2>2, <3>1, TwoHeld
      <3> QED  BY <3>2, <3>3, <3>4, RentAssumption
    <2> QED  BY <1>2, <2>4, SupplyMoved DEF SupplyKept
  <1>4. CASE UpdateOraclePrices(price)
    BY <1>4 DEF UpdateOraclePrices, SupplyKept
  <1> QED  BY <1>1, <1>3, <1>4

LEMMA SupplyStep == ASSUME SafeInv, [Next]_vars PROVE SupplyKept
  <1>0. SafeInv'  BY SafeStep
  <1>1. CASE OracleStep  BY <1>0, <1>1, OracleSupply
  <1>2. ASSUME NEW r \in RankedGames, NEW g \in ParentGames, NEW fee \in EntryFees,
               CreateRankedGame(r, g, fee)
        PROVE  SupplyKept
    BY <1>0, <1>2, CreateSupply
  <1>3. ASSUME NEW r \in RankedGames, NEW u \in UserAccounts, NEW t \in PaymentToken,
               JoinRankedGame(u, r, t)
        PROVE  SupplyKept
    BY <1>0, <1>3, JoinSupply
  <1>4. ASSUME NEW r \in RankedGames, NEW s \in RankedGameStatus,
               UpdateRankedGameStatus(r, s)
        PROVE  SupplyKept
    BY <1>4 DEF UpdateRankedGameStatus, SupplyKept
  <1>5. ASSUME NEW r \in RankedGames, NEW u \in UserAccounts, NEW bps \in PayoutBps,
               RewardWinner(u, r, bps)
        PROVE  SupplyKept
    BY <1>0, <1>5, RewardSupply
  <1>6. ASSUME NEW r \in RankedGames, CloseRankedGame(r)
        PROVE  SupplyKept
    BY <1>0, <1>6, CloseSupply
  <1>7. CASE UNCHANGED vars  BY <1>7 DEF vars, SupplyKept
  <1> QED  BY <1>1, <1>2, <1>3, <1>4, <1>5, <1>6, <1>7 DEF Next

\* However ranked games are created, joined, paid out and closed, by whom and
\* in whatever tokens, no unit of any token appears or vanishes.
THEOREM SupplySound == Spec => []Conservation
  <1>1. Init => Conservation
    BY DEF Init, Conservation
  <1>2. SafeInv /\ Conservation /\ [Next]_vars => Conservation'
    BY SupplyStep DEF SupplyKept, Conservation
  <1> QED  BY <1>1, <1>2, SafeAlways, PTL DEF Spec
=============================================================================
