-------------------------- MODULE IndieSupplyProofs --------------------------
(***************************************************************************)
(* No instruction of the whole program creates or destroys tokens, for any *)
(* set of addresses and any ledger: titles and accounts move them between  *)
(* the accounts clients name and vaults, or lock lamports as rent.         *)
(***************************************************************************)
EXTENDS IndieGamesProofs, RankedSupplyProofs

----------------------------------------------------------------------------
(* What the transfers of titles and accounts are worth in all *)

LEMMA MoveHeld ==
    ASSUME NEW b \in Ledgers, NEW p \in Holder, NEW h \in Holder, p # h,
           NEW t \in PaymentToken, NEW x \in Nat, b[p][t] >= x
    PROVE  \A s \in PaymentToken : Held(Move(b, p, h, t, x), s) = Held(b, s)
  <1> DEFINE c == Move(b, p, h, t, x)
  <1>1. b \in Accounting /\ c \in Accounting
    BY MoveLedger, LedgersAccount
  <1>2. ASSUME NEW s \in PaymentToken
        PROVE  Held(c, s) = Held(b, s)
    <2>1. \A q \in Holder \ {p, h} : c[q][s] = b[q][s]
      BY MoveLedger
    <2>2. b[p][s] \in Nat /\ b[h][s] \in Nat /\ Held(b, s) \in Int
      BY <1>1, HeldIsInt DEF Ledgers
    <2>3. /\ c[p][s] = b[p][s] - IF s = t THEN x ELSE 0
          /\ c[h][s] = b[h][s] + IF s = t THEN x ELSE 0
      BY <2>2 DEF Move, Ledgers
    <2> HIDE DEF c
    <2>4. Held(c, s) = Held(b, s) + (c[p][s] - b[p][s]) + (c[h][s] - b[h][s])
      BY <1>1, <2>1, TwoHeld
    <2> QED  BY <2>2, <2>3, <2>4
  <1> QED  BY <1>2

LEMMA SplitHeld ==
    ASSUME NEW b \in Ledgers, NEW p \in Holder, NEW h \in Holder, NEW k \in Holder,
           p # h, p # k, h # k, NEW t \in PaymentToken,
           NEW z \in Nat, NEW x \in Nat, NEW y \in Nat, b[p][t] >= z
    PROVE  \A s \in PaymentToken :
              Held(Split(b, p, h, k, t, z, x, y), s)
                = Held(b, s) - IF s = t THEN z - (x + y) ELSE 0
  <1> DEFINE c == Split(b, p, h, k, t, z, x, y)
  <1>1. b \in Accounting /\ c \in Accounting
    BY SplitLedger, LedgersAccount
  <1>2. ASSUME NEW s \in PaymentToken
        PROVE  Held(c, s) = Held(b, s) - IF s = t THEN z - (x + y) ELSE 0
    <2>1. \A q \in Holder \ {p, h, k} : c[q][s] = b[q][s]
      BY SplitLedger
    <2>2. /\ b[p][s] \in Nat /\ b[h][s] \in Nat /\ b[k][s] \in Nat /\ Held(b, s) \in Int
      BY <1>1, HeldIsInt DEF Ledgers
    <2>3. /\ c[p][s] = b[p][s] - IF s = t THEN z ELSE 0
          /\ c[h][s] = b[h][s] + IF s = t THEN x ELSE 0
          /\ c[k][s] = b[k][s] + IF s = t THEN y ELSE 0
      BY <2>2 DEF Split, Ledgers
    <2> HIDE DEF c
    <2>4. Held(c, s) = Held(b, s) + (c[p][s] - b[p][s]) + (c[h][s] - b[h][s])
                                  + (c[k][s] - b[k][s])
      BY <1>1, <2>1, ThreeHeld
    <2> QED  BY <2>2, <2>3, <2>4
  <1> QED  BY <1>2

\* What leaves one account arrives at another, or at the same one.
LEMMA PassedHeld ==
    ASSUME NEW b \in Ledgers, NEW c \in Ledgers, NEW t \in PaymentToken,
           NEW p \in Holder, NEW q \in Holder, NEW x \in Int,
           \A h \in Holder : c[h][t] = b[h][t] - (IF h = p THEN x ELSE 0)
                                       + (IF h = q THEN x ELSE 0)
    PROVE  Held(c, t) = Held(b, t)
  <1>1. b \in Accounting /\ c \in Accounting /\ Held(b, t) \in Int
    BY LedgersAccount, HeldIsInt
  <1>2. \A h \in Holder : b[h][t] \in Nat
    BY DEF Ledgers
  <1>3. CASE p = q
    <2>1. \A h \in Holder : c[h][t] = b[h][t]
      BY <1>2, <1>3
    <2>2. Held(c, t) = Held(b, t) + (c[p][t] - b[p][t])
      BY <1>1, <2>1, OneHeld
    <2> QED  BY <1>1, <1>2, <2>1, <2>2
  <1>4. CASE p # q
    <2>1. \A h \in Holder \ {p, q} : c[h][t] = b[h][t]
      BY <1>2
    <2>2. c[p][t] = b[p][t] - x /\ c[q][t] = b[q][t] + x
      BY <1>2, <1>4
    <2>3. Held(c, t) = Held(b, t) + (c[p][t] - b[p][t]) + (c[q][t] - b[q][t])
      BY <1>1, <1>4, <2>1, TwoHeld
    <2> QED  BY <1>1, <1>2, <2>2, <2>3
  <1> QED  BY <1>3, <1>4

LEMMA TransferHeld ==
    ASSUME NEW b \in Ledgers, NEW p \in Holder, NEW q \in Holder,
           NEW t \in PaymentToken, NEW x \in Nat, b[p][t] >= x
    PROVE  \A s \in PaymentToken : Held(Transferred(b, p, q, t, x), s) = Held(b, s)
  <1> DEFINE c == Transferred(b, p, q, t, x)
  <1>1. /\ c \in Ledgers
        /\ \A h \in Holder, s \in PaymentToken :
              c[h][s] = b[h][s] - (IF h = p /\ s = t THEN x ELSE 0)
                          + (IF h = q /\ s = t THEN x ELSE 0)
    BY TransferLedger
  <1> HIDE DEF c
  <1>2. ASSUME NEW s \in PaymentToken
        PROVE  Held(c, s) = Held(b, s)
    <2> DEFINE moved == IF s = t THEN x ELSE 0
    <2>1. /\ moved \in Int
          /\ \A h \in Holder : c[h][s] = b[h][s] - (IF h = p THEN moved ELSE 0)
                                          + (IF h = q THEN moved ELSE 0)
      BY <1>1
    <2> HIDE DEF moved
    <2> QED  BY <1>1, <2>1, PassedHeld
  <1> QED  BY <1>2 DEF c

\* Both withdrawals, wherever the tokens go.
LEMMA DrainHeld ==
    ASSUME bal \in Ledgers, NEW h \in VaultHolder, NEW floor \in Nat, NEW w \in Wallets,
           NEW dst \in [Mints -> Holder], CanDrainTo(h, dst),
           bal' = Drained(h, floor, Directed(w, dst))
    PROVE  \A t \in PaymentToken : Held(bal', t) = Held(bal, t)
  <1>1. bal' \in Ledgers
    BY DrainLedger DEF Filled
  <1>2. h \in Holder /\ WalletOf(w) \in Holder
    BY VaultAddresses
  <1>3. ASSUME NEW t \in PaymentToken
        PROVE  Held(bal', t) = Held(bal, t)
    <2> DEFINE x == Withdrawable(h, floor, t)
               q == IF t = SOL THEN WalletOf(w) ELSE dst[t]
    <2>1. q \in Holder
      BY <1>2 DEF PaymentToken
    <2>2. \A k \in Holder : bal'[k][t] = bal[k][t] - (IF k = h THEN x ELSE 0)
                                         + (IF k = q THEN x ELSE 0)
      BY DEF Drained, Emptied, Directed
    <2>3. x \in Int
      <3>1. x \in 0..bal[h][t]
        BY <1>2, OutBound
      <3> QED  BY <3>1
    <2> HIDE DEF x, q
    <2> DEFINE c == bal'
    <2>4. c \in Ledgers /\ \A k \in Holder :
             c[k][t] = bal[k][t] - (IF k = h THEN x ELSE 0) + (IF k = q THEN x ELSE 0)
      BY <1>1, <2>2
    <2> HIDE DEF c
    <2>5. Held(c, t) = Held(bal, t)
      BY <1>2, <2>1, <2>3, <2>4, PassedHeld
    <2> QED  BY <2>5 DEF c
  <1> QED  BY <1>3

----------------------------------------------------------------------------
(* What each instruction of titles and accounts does to the supply *)

\* The creator pays for the two accounts and for all token accounts that the
\* title is still without.
LEMMA CreateGameSupply ==
    ASSUME IndieInv, NEW w \in Wallets, NEW g \in Games, NEW offer \in Offers,
           CreateGame(w, g, offer)
    PROVE  SupplyKept
  <1> DEFINE P == WalletOf(w)
             G == GamePda(g)
             H == GameProtocolPda(g)
             x == ProtocolTopUp(g)
             y == GameTopUp(g)
             opened == TitleAtas(g)
             rent == RENT_ATA * Cardinality(opened)
             due == x + y + rent
  <1>1. /\ P \in Holder /\ G \in Holder /\ H \in Holder /\ P # H /\ P # G /\ H # G
    BY Addresses, VaultAddresses, VaultsApart
  <1>2. bal \in Ledgers /\ ata \in SUBSET (Holder \X Mints)
    BY IndieFacts
  <1>3. x \in Nat /\ y \in Nat
    BY <1>1, <1>2, TopUpIsNat, RentAssumption DEF ProtocolTopUp, GameTopUp
  <1>4. opened \in SUBSET (Holder \X Mints) /\ ata \cap opened = {}
    BY <1>1 DEF TitleAtas, MissingAtas
  <1>5. rent \in Nat
    <2>1. Cardinality(opened) \in Nat
      BY <1>4, AtasFinite, FS_CardinalityType
    <2> HIDE DEF opened
    <2> QED  BY <2>1, RentAssumption, SMT
  <1> HIDE DEF opened
  <1>6. /\ due \in Nat /\ bal[P][SOL] >= due
        /\ bal' = Split(bal, P, H, G, SOL, due, x, y) /\ ata' = ata \cup opened
    BY <1>3, <1>5 DEF CreateGame, Split, opened
  <1> HIDE DEF P, G, H, x, y, rent
  <1>7. bal \in Accounting /\ bal' \in Accounting
    BY <1>1, <1>2, <1>3, <1>6, SolIsToken, SplitLedger, LedgersAccount
  <1>8. \A t \in PaymentToken :
           Held(bal', t) = Held(bal, t) - IF t = SOL THEN due - (x + y) ELSE 0
    BY <1>1, <1>2, <1>3, <1>6, SolIsToken, SplitHeld
  <1>9. due - (x + y) = rent
    BY <1>3, <1>5
  <1> HIDE DEF due
  <1>10. \A t \in PaymentToken : SupplyOf(bal', ata \cup opened, t) = SupplyOf(bal, ata, t)
    BY <1>2, <1>4, <1>7, <1>8, <1>9, SupplyOpened DEF rent
  <1> QED  BY <1>6, <1>10 DEF SupplyKept

LEMMA UpgradeSupply ==
    ASSUME IndieInv, NEW g \in Games, UpgradeGameVersion(g)
    PROVE  SupplyKept
  <1> DEFINE P == WalletOf(AUTHORITY)
             G == GamePda(g)
             x == RENT_GAME - bal[G][SOL]
  <1>1. P \in Holder /\ G \in Holder /\ P # G /\ bal \in Ledgers
    BY Addresses, VaultAddresses, KeyAssumption, IndieFacts
  <1>2. bal[G][SOL] \in Nat
    BY <1>1, SolIsToken DEF Ledgers
  <1>3. x \in Nat /\ bal[P][SOL] >= x /\ bal[G][SOL] + x = RENT_GAME
    BY <1>2, RentAssumption DEF UpgradeGameVersion, GrowthPayable
  <1>4. bal' = [bal EXCEPT ![P][SOL] = @ - x, ![G][SOL] = RENT_GAME]
    BY DEF UpgradeGameVersion
  <1> HIDE DEF P, G, x
  <1>5. bal' = Move(bal, P, G, SOL, x)
    BY <1>1, <1>3, <1>4 DEF Move, Ledgers
  <1>6. \A s \in PaymentToken : Held(bal', s) = Held(bal, s)
    BY <1>1, <1>3, <1>5, SolIsToken, MoveHeld
  <1>7. UNCHANGED ata  BY DEF UpgradeGameVersion
  <1> QED  BY <1>6, <1>7, SupplyMoved DEF SupplyKept

LEMMA WithdrawSupply ==
    ASSUME IndieInv, NEW h \in VaultHolder, NEW floor \in Nat, NEW w \in Wallets,
           NEW dst \in [Mints -> Destinations], CanDrainTo(h, dst),
           bal' = Drained(h, floor, Directed(w, dst)), UNCHANGED ata
    PROVE  SupplyKept
  <1>1. dst \in [Mints -> Holder] /\ bal \in Ledgers
    BY TitleInputAssumption, IndieFacts
  <1>2. \A t \in PaymentToken : Held(bal', t) = Held(bal, t)
    BY <1>1, DrainHeld
  <1> QED  BY <1>2, SupplyMoved DEF SupplyKept

\* A reward is taken from the pools of the account's title.
LEMMA RewardUserSupply ==
    ASSUME IndieInv, NEW u \in UserAccounts, NEW bps \in PoolBps, RewardUserAccount(u, bps)
    PROVE  SupplyKept
  <1> DEFINE H == GameProtocolPda(user[u].game)
             U == UserAccountPda(u)
             paid == PoolShare(user[u].game, bps)
  <1>1. /\ H \in VaultHolder /\ U \in VaultHolder /\ H # U /\ VaultHolder \subseteq Holder
        /\ bal \in Ledgers /\ UNCHANGED ata
    BY RewardUserLedger, IndieFacts, VaultAddresses, VaultsApart DEF RewardUserAccount
  <1>2. /\ bal' = RewardMoved(user[u].game, u, paid)
        /\ \A t \in PaymentToken : /\ paid[t] \in 0..Withdrawable(H, RENT_EMPTY, t)
                                   /\ bal'[H][t] = bal[H][t] - paid[t]
                                   /\ bal'[U][t] = bal[U][t] + paid[t]
        /\ bal' \in Ledgers
    BY RewardUserLedger, IndieFacts DEF RewardUserAccount, Filled
  <1>3. \A k \in Holder \ {H, U} : bal'[k] = bal[k]
    BY <1>1, <1>2 DEF RewardMoved, Ledgers
  <1>4. \A t \in PaymentToken : paid[t] \in Int
    BY <1>2
  <1> HIDE DEF H, U, paid
  <1>5. ASSUME NEW t \in PaymentToken
        PROVE  Held(bal', t) = Held(bal, t)
    <2>1. bal \in Accounting /\ bal' \in Accounting
      BY <1>1, <1>2, LedgersAccount
    <2>2. bal[H][t] \in Nat /\ bal[U][t] \in Nat /\ Held(bal, t) \in Int
      BY <1>1, <2>1, HeldIsInt DEF Ledgers
    <2>3. Held(bal', t) = Held(bal, t) + (bal'[H][t] - bal[H][t]) + (bal'[U][t] - bal[U][t])
      BY <1>1, <1>3, <2>1, TwoHeld
    <2> QED  BY <1>2, <1>4, <2>2, <2>3
  <1> QED  BY <1>1, <1>5, SupplyMoved DEF SupplyKept

\* The buyer pays whom it names and then the rent of the account.
LEMMA CreateUserSupply ==
    ASSUME IndieInv, NEW u \in UserAccounts, NEW t \in PaymentToken,
           NEW to \in Payees(UserSeed[u].game), CreateUserAccount(u, t, to)
    PROVE  SupplyKept
  <1> DEFINE g == UserSeed[u].game
             P == WalletOf(UserSeed[u].owner)
             U == UserAccountPda(u)
             due == PurchaseDue(g, t)
             b == Transferred(bal, P, to.dev, t, due.dev)
             c == Transferred(b, P, to.protocol, t, due.protocol)
             now == Paid(P, g, t, to)
  <1>0. SafeInv /\ bal \in Ledgers
    BY IndieFacts
  <1>1. P \in Holder /\ U \in Holder
    BY SeedFacts, VaultAddresses
  <1>2. now \in Ledgers /\ \A s \in PaymentToken : Held(now, s) = Held(bal, s)
    <2>1. CASE AsksPayment(g)
      <3>1. /\ due.dev \in Nat /\ due.protocol \in Nat
            /\ to.dev \in Holder /\ to.protocol \in Holder
            /\ bal[P][t] >= due.dev /\ b[P][t] >= due.protocol
        BY <1>0, <2>1, SaleFacts
      <3>2. now = c
        BY <2>1 DEF Paid, Purchased
      <3> HIDE DEF P, U, g, due, now
      <3>3. b \in Ledgers /\ \A s \in PaymentToken : Held(b, s) = Held(bal, s)
        BY <1>0, <1>1, <3>1, TransferLedger, TransferHeld
      <3> HIDE DEF b
      <3>4. c \in Ledgers /\ \A s \in PaymentToken : Held(c, s) = Held(b, s)
        BY <1>1, <3>1, <3>3, TransferLedger, TransferHeld
      <3> QED  BY <3>2, <3>3, <3>4
    <2>2. CASE ~AsksPayment(g)
      BY <1>0, <2>2 DEF Paid
    <2> QED  BY <2>1, <2>2
  <1>3. now[P][SOL] >= RENT_USER /\ bal' = Transferred(now, P, U, SOL, RENT_USER)
    BY DEF CreateUserAccount
  <1> HIDE DEF now, P, U, g, due
  <1>4. \A s \in PaymentToken : Held(bal', s) = Held(now, s)
    BY <1>1, <1>2, <1>3, SolIsToken, RentAssumption, TransferHeld
  <1>5. \A s \in PaymentToken : Held(bal', s) = Held(bal, s)
    BY <1>2, <1>4
  <1>6. UNCHANGED ata  BY DEF CreateUserAccount
  <1> QED  BY <1>5, <1>6, SupplyMoved DEF SupplyKept

\* The rent of a token account is the client's lamports.
LEMMA AtaSupply ==
    ASSUME IndieInv, NEW w \in Wallets, NEW a \in ClientAtas,
           ClientOpensAta(w, a[1], a[2])
    PROVE  SupplyKept
  <1> DEFINE P == WalletOf(w)
             x == {<<a[1], a[2]>>}
  <1>1. P \in Holder /\ bal \in Ledgers /\ ata \in SUBSET (Holder \X Mints)
    BY Addresses, IndieFacts
  <1>2. x \in SUBSET (Holder \X Mints) /\ ata \cap x = {} /\ ata' = ata \cup x
    BY ClientAssumption DEF ClientOpensAta, Holder
  <1>3. Cardinality(x) = 1
    BY FS_Singleton
  <1>4. RENT_ATA * Cardinality(x) = RENT_ATA /\ bal[P][SOL] \in Nat
    BY <1>1, <1>3, SolIsToken, RentAssumption DEF Ledgers
  <1>5. bal[P][SOL] - RENT_ATA \in Nat
    BY <1>4, RentAssumption DEF ClientOpensAta
  <1>6. bal' = [bal EXCEPT ![P][SOL] = bal[P][SOL] - RENT_ATA]
    BY DEF ClientOpensAta
  <1> HIDE DEF P, x
  <1>7. bal \in Accounting /\ bal' \in Accounting
    BY <1>1, <1>5, <1>6, SolIsToken, OneBalance, LedgersAccount
  <1>8. ASSUME NEW t \in PaymentToken
        PROVE  Held(bal', t) = Held(bal, t)
                                 - IF t = SOL THEN RENT_ATA * Cardinality(x) ELSE 0
    <2>1. \A k \in Holder \ {P} : bal'[k][t] = bal[k][t]
      BY <1>1, <1>6 DEF Ledgers
    <2>2. bal[P][t] \in Nat /\ Held(bal, t) \in Int
      BY <1>1, <1>7, HeldIsInt DEF Ledgers
    <2>3. bal'[P][t] = bal[P][t] - IF t = SOL THEN RENT_ATA ELSE 0
      BY <1>1, <1>6, <2>2 DEF Ledgers
    <2>4. Held(bal', t) = Held(bal, t) + (bal'[P][t] - bal[P][t])
      BY <1>1, <1>7, <2>1, OneHeld
    <2> QED  BY <1>4, <2>2, <2>3, <2>4, RentAssumption
  <1>9. \A t \in PaymentToken : SupplyOf(bal', ata \cup x, t) = SupplyOf(bal, ata, t)
    BY <1>1, <1>2, <1>7, <1>8, SupplyOpened
  <1> QED  BY <1>2, <1>9 DEF SupplyKept

LEMMA GiftSupply ==
    ASSUME IndieInv, NEW w \in Wallets, NEW a \in Gifts, ClientSends(w, a[1], a[2])
    PROVE  SupplyKept
  <1>1. /\ WalletOf(w) \in Holder /\ a[1] \in Holder /\ a[2] \in PaymentToken
        /\ bal \in Ledgers
    BY ClientAssumption, VaultAddresses, IndieFacts
  <1>2. bal[WalletOf(w)][a[2]] \in Nat
    BY <1>1 DEF Ledgers
  <1>3. /\ bal[WalletOf(w)][a[2]] >= 1 /\ UNCHANGED ata
        /\ bal' = Transferred(bal, WalletOf(w), a[1], a[2], 1)
    BY <1>2 DEF ClientSends
  <1>4. \A s \in PaymentToken : Held(bal', s) = Held(bal, s)
    BY <1>1, <1>3, TransferHeld
  <1> QED  BY <1>3, <1>4, SupplyMoved DEF SupplyKept

----------------------------------------------------------------------------
(* All instructions *)

LEMMA TitleSupply == ASSUME IndieInv, TitleStep PROVE SupplyKept
  <1>1. ASSUME NEW w \in Wallets, NEW g \in Games, NEW offer \in Offers,
               CreateGame(w, g, offer)
        PROVE  SupplyKept
    BY <1>1, CreateGameSupply
  <1>2. ASSUME NEW w \in Wallets, NEW g \in Games,
               \/ \E fees \in FeeShares : UpdateFeeShare(w, g, fees)
               \/ \E cost \in GameCosts : UpdateGameCost(w, g, cost)
               \/ \E new_owner \in Wallets : TransferGameOwnership(w, g, new_owner)
        PROVE  SupplyKept
    BY <1>2 DEF UpdateFeeShare, UpdateGameCost, TransferGameOwnership, SupplyKept
  <1>3. ASSUME NEW w \in Wallets, NEW g \in Games, NEW dst \in [Mints -> Destinations],
               DeveloperWithdraw(w, g, dst)
        PROVE  SupplyKept
    <2>1. /\ GamePda(g) \in VaultHolder /\ RENT_GAME \in Nat
          /\ CanDrainTo(GamePda(g), dst) /\ UNCHANGED ata
          /\ bal' = Drained(GamePda(g), RENT_GAME, Directed(w, dst))
      BY <1>3, VaultAddresses, RentAssumption DEF DeveloperWithdraw
    <2> QED  BY <2>1, WithdrawSupply
  <1>4. ASSUME NEW g \in Games, UpgradeGameVersion(g)
        PROVE  SupplyKept
    BY <1>4, UpgradeSupply
  <1>5. ASSUME NEW u \in UserAccounts, NEW bps \in PoolBps, RewardUserAccount(u, bps)
        PROVE  SupplyKept
    BY <1>5, RewardUserSupply
  <1> QED  BY <1>1, <1>2, <1>3, <1>4, <1>5 DEF TitleStep, TitleNext

LEMMA AccountSupply == ASSUME IndieInv, AccountStep PROVE SupplyKept
  <1>1. ASSUME NEW u \in UserAccounts, NEW t \in PaymentToken,
               NEW to \in Payees(UserSeed[u].game), CreateUserAccount(u, t, to)
        PROVE  SupplyKept
    BY <1>1, CreateUserSupply
  <1>2. ASSUME NEW u \in UserAccounts, NEW dst \in [Mints -> Destinations],
               WithdrawRewards(u, dst)
        PROVE  SupplyKept
    <2>1. user[u].owner \in Wallets
      BY <1>2, IndieFacts, SafeFacts DEF WithdrawRewards
    <2>2. /\ UserAccountPda(u) \in VaultHolder /\ RENT_USER \in Nat
          /\ CanDrainTo(UserAccountPda(u), dst) /\ UNCHANGED ata
          /\ bal' = Drained(UserAccountPda(u), RENT_USER, Directed(user[u].owner, dst))
      BY <1>2, VaultAddresses, RentAssumption DEF WithdrawRewards
    <2> QED  BY <2>1, <2>2, WithdrawSupply
  <1>3. ASSUME NEW w \in Wallets, NEW a \in ClientAtas, ClientOpensAta(w, a[1], a[2])
        PROVE  SupplyKept
    BY <1>3, AtaSupply
  <1>4. ASSUME NEW w \in Wallets, NEW a \in Gifts, ClientSends(w, a[1], a[2])
        PROVE  SupplyKept
    BY <1>4, GiftSupply
  <1> QED  BY <1>1, <1>2, <1>3, <1>4 DEF AccountStep, AccountNext

LEMMA IndieSupplyStep == ASSUME IndieInv, [IndieNext]_indieVars PROVE SupplyKept
  <1>1. CASE RankedStep \/ UNCHANGED indieVars
    <2>1. SafeInv /\ [Next]_vars
      BY <1>1 DEF RankedStep, indieVars, vars, IndieInv
    <2> QED  BY <2>1, SupplyStep
  <1>2. CASE TitleStep  BY <1>2, TitleSupply
  <1>3. CASE AccountStep  BY <1>3, AccountSupply
  <1> QED  BY <1>1, <1>2, <1>3 DEF IndieNext

\* Whatever instructions of whatever components run in whatever order, what
\* all wallets, vaults and escrows hold of a token, with the rent locked in
\* token accounts, is what they held at first.
THEOREM IndieSupplySound == IndieSpec => []Conservation
  <1>1. IndieInit => Conservation
    BY DEF IndieInit, Init, Conservation
  <1>2. IndieInv /\ Conservation /\ [IndieNext]_indieVars => Conservation'
    BY IndieSupplyStep DEF SupplyKept, Conservation
  <1> QED  BY <1>1, <1>2, IndieAlways, PTL DEF IndieSpec
=============================================================================
