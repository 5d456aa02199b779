-------------------------- MODULE RankedGameProofs --------------------------
(***************************************************************************)
(* Theorems about ranked games, for any titles, players, ids, balances,    *)
(* prices, fees and widths.                                                *)
(***************************************************************************)
EXTENDS RankedGameProps, IgpMathProofs, FiniteSetTheorems, TLAPS

Ledgers == [Holder -> [PaymentToken -> Nat]]

----------------------------------------------------------------------------
(* Addresses *)

\* Every address an instruction touches has a balance, and the escrow of a
\* ranked game is nobody else's account.
LEMMA Addresses ==
    /\ \A r \in RankedGames : Escrow(r) \in Holder
    /\ \A w \in Wallets : WalletOf(w) \in Holder
    /\ \A g \in Games : GamePda(g) \in Holder /\ GameProtocolPda(g) \in Holder
    /\ Treasury \in Holder /\ OraclePda \in Holder /\ OraclePda # Treasury
    /\ \A r, s \in RankedGames : Escrow(r) = Escrow(s) => r = s
    /\ \A r \in RankedGames, w \in Wallets : Escrow(r) # WalletOf(w)
    /\ \A r \in RankedGames : Escrow(r) # Treasury /\ Escrow(r) # OraclePda
    /\ \A r \in RankedGames, g \in Games :
          Escrow(r) # GamePda(g) /\ Escrow(r) # GameProtocolPda(g)
  BY KeyAssumption
     DEF Escrow, Treasury, OraclePda, WalletOf, GamePda, GameProtocolPda,
         RankedGamePda, Holder

----------------------------------------------------------------------------
(* What each instruction does to the ledger *)

\* Setting one balance to a natural keeps a ledger a ledger.
LEMMA OneBalance ==
    ASSUME NEW b \in Ledgers, NEW h \in Holder, NEW t \in PaymentToken, NEW n \in Nat
    PROVE  [b EXCEPT ![h][t] = n] \in Ledgers
  BY DEF Ledgers

\* The tokens due for an entry are naturals.
LEMMA TokensDue ==
    ASSUME NEW entry_fee \in Nat, NEW dev_bps \in Nat, dev_bps <= BPS_DENOMINATOR,
           NEW price \in Nat \ {0}, NEW base \in Nat
    PROVE  EntryTokens(entry_fee, dev_bps, price, base)
             \in [net : Nat, dev : Nat, protocol : Nat]
  <1>1. ASSUME NEW cents \in Nat
        PROVE  UsdCentsToBaseUnits(cents, price, base) \in Nat
    <2>1. cents * CENT_MICRO * base \in Nat
      BY ScaleAssumption
    <2> QED  BY <2>1, CeilCovers DEF UsdCentsToBaseUnits
  <1> QED  BY <1>1, EntryParts DEF EntryTokens

\* A paid entry adds to one pool of one escrow and to no other.
LEMMA EntryLedger ==
    ASSUME bal \in Ledgers, NEW payer \in Wallets, NEW r \in RankedGames,
           NEW g \in Games, NEW t \in PaymentToken,
           NEW due \in [net : Nat, dev : Nat, protocol : Nat],
           PaymentGoesThrough(payer, r, g, t, due)
    PROVE  /\ PaidEntry(payer, r, g, t, due) \in Ledgers
           /\ \A s \in RankedGames, x \in PaymentToken :
                 PaidEntry(payer, r, g, t, due)[Escrow(s)][x] =
                   bal[Escrow(s)][x] + IF s = r /\ x = t THEN due.net ELSE 0
  <1> DEFINE P == WalletOf(payer)
             E == Escrow(r)
             G == GamePda(g)
             H == GameProtocolPda(g)
  <1>1. /\ P \in Holder /\ E \in Holder /\ G \in Holder /\ H \in Holder
        /\ P # E /\ P # G /\ P # H /\ E # G /\ E # H /\ G # H
    BY Addresses DEF Escrow, WalletOf, GamePda, GameProtocolPda, RankedGamePda
  <1>2. bal[P][t] - (due.net + due.dev + due.protocol) \in Nat
    <2>1. bal[P][t] \in Nat  BY <1>1 DEF Ledgers
    <2>2. due.net \in Nat /\ due.dev \in Nat /\ due.protocol \in Nat  OBVIOUS
    <2>3. bal[P][t] >= due.net + due.dev + due.protocol
      BY DEF PaymentGoesThrough
    <2> QED  BY <2>1, <2>2, <2>3
  <1>3. PaidEntry(payer, r, g, t, due) =
          [bal EXCEPT ![P][t] = @ - (due.net + due.dev + due.protocol),
                      ![E][t] = @ + due.net, ![G][t] = @ + due.dev,
                      ![H][t] = @ + due.protocol]
    BY DEF PaidEntry, Escrow
  <1> HIDE DEF P, E, G, H
  <1>4. PaidEntry(payer, r, g, t, due) \in Ledgers
    <2> DEFINE b1 == [bal EXCEPT ![P][t] = @ - (due.net + due.dev + due.protocol)]
               b2 == [b1 EXCEPT ![E][t] = bal[E][t] + due.net]
               b3 == [b2 EXCEPT ![G][t] = bal[G][t] + due.dev]
    <2>1. /\ bal[E][t] + due.net \in Nat /\ bal[G][t] + due.dev \in Nat
          /\ bal[H][t] + due.protocol \in Nat
      BY <1>1 DEF Ledgers
    <2>2. b1 \in Ledgers  BY <1>1, <1>2, OneBalance
    <2>3. b2 \in Ledgers  BY <1>1, <2>1, <2>2, OneBalance
    <2>4. b3 \in Ledgers  BY <1>1, <2>1, <2>3, OneBalance
    <2>5. [b3 EXCEPT ![H][t] = bal[H][t] + due.protocol] \in Ledgers
      BY <1>1, <2>1, <2>4, OneBalance
    <2> QED  BY <2>5, <1>3
  <1>5. ASSUME NEW s \in RankedGames, NEW x \in PaymentToken
        PROVE  PaidEntry(payer, r, g, t, due)[Escrow(s)][x] =
                 bal[Escrow(s)][x] + IF s = r /\ x = t THEN due.net ELSE 0
    <2>1. /\ Escrow(s) \in Holder /\ bal[Escrow(s)][x] \in Nat
          /\ Escrow(s) # P /\ Escrow(s) # G /\ Escrow(s) # H
          /\ s # r => Escrow(s) # E
      BY Addresses DEF Ledgers, P, E, G, H
    <2>2. CASE s = r
      BY <1>1, <1>3, <2>1, <2>2 DEF Ledgers, E
    <2>3. CASE s # r
      BY <1>1, <1>3, <2>1, <2>3 DEF Ledgers
    <2> QED  BY <2>2, <2>3
  <1> QED  BY <1>4, <1>5

\* A payout takes no more than the pools, and leaves the rent.
LEMMA PayoutBound ==
    ASSUME bal \in Ledgers, NEW r \in RankedGames, NEW bps \in Nat,
           bps <= BPS_DENOMINATOR, bal[Escrow(r)][SOL] >= RENT_RANKED
    PROVE  /\ Payout(r, bps) \in [PaymentToken -> Nat]
           /\ \A t \in PaymentToken : Payout(r, bps)[t] <= bal[Escrow(r)][t]
           /\ bal[Escrow(r)][SOL] - Payout(r, bps)[SOL] >= RENT_RANKED
  <1>1. /\ SOL \in PaymentToken
        /\ \A t \in PaymentToken : bal[Escrow(r)][t] \in Nat
    BY Addresses DEF Ledgers, PaymentToken
  <1>2. SolPool(r) \in Nat /\ bal[Escrow(r)][SOL] - SolPool(r) >= RENT_RANKED
    BY <1>1, RentAssumption DEF SolPool
  <1>3. \A t \in PaymentToken : SplPool(r, t) \in 0..bal[Escrow(r)][t]
    BY <1>1 DEF SplPool
  <1> DEFINE pool(t) == IF t = SOL THEN SolPool(r) ELSE SplPool(r, t)
  <1>4. \A t \in PaymentToken : pool(t) \in 0..bal[Escrow(r)][t]
    BY <1>1, <1>2, <1>3, RentAssumption
  <1>5. \A t \in PaymentToken : BpsOf(pool(t), bps) \in 0..pool(t)
    <2> SUFFICES ASSUME NEW t \in PaymentToken
                 PROVE  BpsOf(pool(t), bps) \in 0..pool(t)
      OBVIOUS
    <2>1. pool(t) \in Nat  BY <1>1, <1>4
    <2> HIDE DEF pool
    <2> QED  BY <2>1, BpsBound
  <1>6. \A t \in PaymentToken : Payout(r, bps)[t] = BpsOf(pool(t), bps)
    BY DEF Payout
  <1>7. pool(SOL) = SolPool(r)
    OBVIOUS
  <1>8. Payout(r, bps) = [t \in PaymentToken |-> Payout(r, bps)[t]]
    BY DEF Payout
  <1> HIDE DEF pool
  <1> QED  BY <1>1, <1>2, <1>4, <1>5, <1>6, <1>7, <1>8, RentAssumption

\* Opening accounts for some of the mints costs a natural number of rents.
LEMMA RentIsNat == \A M \in SUBSET Mints : RENT_ATA * Cardinality(M) \in Nat
  <1>1. IsFiniteSet(Mints)
    <2>1. IsFiniteSet({SKR})  BY FS_Singleton
    <2>2. IsFiniteSet({SKR} \cup {SLICE})  BY <2>1, FS_AddElement
    <2>3. IsFiniteSet(({SKR} \cup {SLICE}) \cup {USDC})  BY <2>2, FS_AddElement
    <2>4. Mints = ({SKR} \cup {SLICE}) \cup {USDC}  BY DEF Mints
    <2> QED  BY <2>3, <2>4
  <1>2. \A M \in SUBSET Mints : Cardinality(M) \in Nat
    BY <1>1, FS_Subset, FS_CardinalityType
  <1> QED  BY <1>2, RentAssumption

\* The oracle's instructions leave the accounts of players and matches alone,
\* and every escrow; creating the oracle moves its rent.
LEMMA OracleLedger ==
    ASSUME bal \in Ledgers, OracleStep
    PROVE  /\ bal' \in Ledgers
           /\ \A s \in RankedGames : bal'[Escrow(s)] = bal[Escrow(s)]
           /\ UNCHANGED <<game, user, ranked, ata, usedIds, entered>>
  <1>1. PICK price \in PriceInputs : InitOracle(price) \/ UpdateOraclePrices(price)
    BY DEF OracleStep, OracleNext
  <1>2. UNCHANGED <<game, user, ranked, ata, usedIds, entered>>
    BY <1>1 DEF InitOracle, UpdateOraclePrices, OracleStep
  <1>3. CASE InitOracle(price)
    <2>1. SOL \in PaymentToken
      BY DEF PaymentToken
    <2>2. /\ bal[Treasury][SOL] \in Nat /\ bal[OraclePda][SOL] \in Nat
          /\ bal[Treasury][SOL] >= RENT_ORACLE
      BY <1>3, <2>1, Addresses DEF InitOracle, Ledgers, Treasury
    <2> DEFINE b1 == [bal EXCEPT ![Treasury][SOL] = bal[Treasury][SOL] - RENT_ORACLE]
    <2>3. bal' = [b1 EXCEPT ![OraclePda][SOL] = bal[OraclePda][SOL] + RENT_ORACLE]
      BY <1>3, Addresses DEF InitOracle, Treasury
    <2>4. b1 \in Ledgers
      BY <2>1, <2>2, Addresses, RentAssumption, OneBalance
    <2>5. bal' \in Ledgers
      <3>1. bal[OraclePda][SOL] + RENT_ORACLE \in Nat
        BY <2>2, RentAssumption
      <3>2. ASSUME NEW n \in Nat PROVE [b1 EXCEPT ![OraclePda][SOL] = n] \in Ledgers
        BY <2>1, <2>4, Addresses, OneBalance
      <3> QED  BY <2>3, <3>1, <3>2
    <2>6. \A s \in RankedGames : bal'[Escrow(s)] = bal[Escrow(s)]
      BY <2>3, Addresses DEF Ledgers
    <2> QED  BY <1>2, <2>5, <2>6
  <1>4. CASE UpdateOraclePrices(price)
    BY <1>2, <1>4 DEF UpdateOraclePrices
  <1> QED  BY <1>1, <1>3, <1>4

\* Creating a game moves the rent into its escrow and touches no other one.
LEMMA CreateLedger ==
    ASSUME bal \in Ledgers, NEW r \in RankedGames,
           bal[Treasury][SOL] >= EscrowRent(r)
    PROVE  LET b == [bal EXCEPT ![Treasury][SOL] = @ - EscrowRent(r),
                                ![Escrow(r)][SOL] = @ + RENT_RANKED]
           IN  /\ b \in Ledgers
               /\ \A s \in RankedGames, x \in PaymentToken :
                     b[Escrow(s)][x] = bal[Escrow(s)][x]
                       + IF s = r /\ x = SOL THEN RENT_RANKED ELSE 0
  <1>1. EscrowRent(r) \in Nat
    <2>1. MissingAtas(Escrow(r), Mints) \in SUBSET Mints  BY DEF MissingAtas
    <2>2. RENT_ATA * Cardinality(MissingAtas(Escrow(r), Mints)) \in Nat
      BY <2>1, RentIsNat
    <2> QED  BY <2>2, RentAssumption DEF EscrowRent
  <1>2. SOL \in PaymentToken
    BY DEF PaymentToken
  <1> DEFINE b1 == [bal EXCEPT ![Treasury][SOL] = bal[Treasury][SOL] - EscrowRent(r)]
             b == [b1 EXCEPT ![Escrow(r)][SOL] = bal[Escrow(r)][SOL] + RENT_RANKED]
  <1>3. b \in Ledgers
    <2>1. /\ bal[Treasury][SOL] - EscrowRent(r) \in Nat
          /\ bal[Escrow(r)][SOL] + RENT_RANKED \in Nat
      BY <1>1, <1>2, Addresses, RentAssumption DEF Ledgers
    <2>2. b1 \in Ledgers  BY <1>2, <2>1, Addresses, OneBalance
    <2> QED  BY <1>2, <2>1, <2>2, Addresses, OneBalance
  <1>4. ASSUME NEW s \in RankedGames, NEW x \in PaymentToken
        PROVE  b[Escrow(s)][x] = bal[Escrow(s)][x]
                 + IF s = r /\ x = SOL THEN RENT_RANKED ELSE 0
    <2>1. /\ Escrow(s) \in Holder /\ Treasury \in Holder /\ Escrow(r) \in Holder
          /\ bal[Escrow(s)][x] \in Nat /\ Escrow(s) # Treasury
          /\ s # r => Escrow(s) # Escrow(r)
      BY Addresses DEF Ledgers
    <2>2. CASE s = r
      BY <1>2, <2>1, <2>2, Addresses DEF Ledgers
    <2>3. CASE s # r
      BY <1>2, <2>1, <2>3 DEF Ledgers
    <2> QED  BY <2>2, <2>3
  <1> QED  BY <1>3, <1>4

\* A payout takes `paid` from one escrow and nothing from the others.
LEMMA RewardLedger ==
    ASSUME bal \in Ledgers, NEW r \in RankedGames, NEW w \in Wallets,
           NEW paid \in [PaymentToken -> Nat], NEW rent \in Nat,
           \A t \in PaymentToken : paid[t] <= bal[Escrow(r)][t],
           PaidOut(r, w, paid)[Treasury][SOL] >= rent
    PROVE  /\ RewardSettled(r, w, paid, rent) \in Ledgers
           /\ \A s \in RankedGames, x \in PaymentToken :
                 RewardSettled(r, w, paid, rent)[Escrow(s)][x] =
                   bal[Escrow(s)][x] - IF s = r THEN paid[x] ELSE 0
  <1> DEFINE E == Escrow(r)
             W == WalletOf(w)
             p == PaidOut(r, w, paid)
             b == [p EXCEPT ![Treasury][SOL] = @ - rent]
  <1>1. /\ E \in Holder /\ W \in Holder /\ Treasury \in Holder
        /\ E # W /\ SOL \in PaymentToken
    BY Addresses DEF PaymentToken
  <1>2. p = [bal EXCEPT ![E] = [t \in PaymentToken |-> bal[E][t] - paid[t]],
                        ![W] = [t \in PaymentToken |-> bal[W][t] + paid[t]]]
    BY DEF PaidOut
  <1>3. /\ [t \in PaymentToken |-> bal[E][t] - paid[t]] \in [PaymentToken -> Nat]
        /\ [t \in PaymentToken |-> bal[W][t] + paid[t]] \in [PaymentToken -> Nat]
    <2> SUFFICES ASSUME NEW t \in PaymentToken
                 PROVE  bal[E][t] - paid[t] \in Nat /\ bal[W][t] + paid[t] \in Nat
      OBVIOUS
    <2>1. bal[E][t] \in Nat /\ bal[W][t] \in Nat /\ paid[t] \in Nat
      BY <1>1 DEF Ledgers
    <2> QED  BY <2>1
  <1>4. p \in Ledgers
    BY <1>1, <1>2, <1>3 DEF Ledgers
  <1>5. b \in Ledgers
    <2>1. p[Treasury][SOL] - rent \in Nat
      BY <1>1, <1>4 DEF Ledgers
    <2> QED  BY <1>1, <1>4, <2>1, OneBalance
  <1>6. ASSUME NEW s \in RankedGames, NEW x \in PaymentToken
        PROVE  b[Escrow(s)][x] = bal[Escrow(s)][x] - IF s = r THEN paid[x] ELSE 0
    <2>1. /\ Escrow(s) \in Holder /\ bal[Escrow(s)][x] \in Nat
          /\ Escrow(s) # W /\ Escrow(s) # Treasury
          /\ s # r => Escrow(s) # E
      BY Addresses DEF Ledgers
    <2>2. b[Escrow(s)] = p[Escrow(s)]
      BY <1>1, <1>4, <2>1 DEF Ledgers
    <2>3. CASE s = r
      BY <1>1, <1>2, <2>1, <2>2, <2>3 DEF Ledgers
    <2>4. CASE s # r
      <3>1. p[Escrow(s)] = bal[Escrow(s)]
        BY <1>1, <1>2, <2>1, <2>4 DEF Ledgers
      <3> QED  BY <2>1, <2>2, <2>4, <3>1
    <2> QED  BY <2>3, <2>4
  <1>7. RewardSettled(r, w, paid, rent) = b
    BY DEF RewardSettled
  <1> QED  BY <1>5, <1>6, <1>7

\* Closing empties one escrow and leaves the others as they were.
LEMMA CloseLedger ==
    ASSUME bal \in Ledgers, NEW r \in RankedGames
    PROVE  /\ Swept(r) \in Ledgers
           /\ \A s \in RankedGames :
                 Swept(r)[Escrow(s)] = IF s = r THEN NoTokens ELSE bal[Escrow(s)]
  <1> DEFINE rent == RENT_ATA * Cardinality(OpenAtas(Escrow(r)))
             gain == [t \in PaymentToken |-> bal[Treasury][t]
                        + bal[Escrow(r)][t] + IF t = SOL THEN rent ELSE 0]
  <1>1. rent \in Nat
    BY RentIsNat DEF OpenAtas
  <1>2. /\ Treasury \in Holder /\ Escrow(r) \in Holder /\ Escrow(r) # Treasury
    BY Addresses
  <1>3. gain \in [PaymentToken -> Nat]
    BY <1>1, <1>2 DEF Ledgers
  <1>4. NoTokens \in [PaymentToken -> Nat]
    BY DEF NoTokens
  <1>5. Swept(r) = [bal EXCEPT ![Treasury] = gain, ![Escrow(r)] = NoTokens]
    BY Zenon DEF Swept
  <1> HIDE DEF gain
  <1>6. Swept(r) \in Ledgers
    BY <1>2, <1>3, <1>4, <1>5 DEF Ledgers
  <1>7. ASSUME NEW s \in RankedGames
        PROVE  Swept(r)[Escrow(s)] = IF s = r THEN NoTokens ELSE bal[Escrow(s)]
    <2>1. Escrow(s) \in Holder /\ Escrow(s) # Treasury /\ (s # r => Escrow(s) # Escrow(r))
      BY Addresses
    <2> QED  BY <1>2, <1>5, <2>1 DEF Ledgers
  <1> QED  BY <1>6, <1>7

----------------------------------------------------------------------------
(* Types and the escrow: an inductive invariant, action by action *)

\* Neither half is inductive alone: a payout is typed because the escrow holds
\* its rent, and holds its rent because the payout is typed.
SafeInv == TypeOK /\ EscrowAccounted

\* What the other lemmas use of SafeInv.
LEMMA SafeFacts ==
    ASSUME SafeInv
    PROVE  /\ bal \in Ledgers
           /\ ata \in SUBSET (Holder \X Mints)
           /\ \A t \in PaymentToken : PriceFor(t) \in Nat /\ TokenBase(t) \in Nat
           /\ \A r \in RankedGames : Exists(r) =>
                 /\ ranked[r].game \in GameKeys /\ ranked[r].entry_fee \in Nat
                 /\ bal[Escrow(r)][SOL] >= RENT_RANKED
           /\ \A u \in UserAccounts : user[u].is_initialized => user[u].owner \in Wallets
  <1>1. bal \in Ledgers /\ ata \in SUBSET (Holder \X Mints)
    BY DEF SafeInv, TypeOK, AccountsTypeOK, Ledgers
  <1>2. ASSUME NEW t \in PaymentToken
        PROVE  PriceFor(t) \in Nat /\ TokenBase(t) \in Nat
    <2>1. oracle.price \in [OraclePriced -> Nat]
      BY WidthAssumption DEF SafeInv, TypeOK, AccountsTypeOK, OraclePriceState
    <2>2. t = USDC \/ t \in OraclePriced
      BY DEF PaymentToken, OraclePriced, Mints
    <2> QED  BY <2>1, <2>2, ScaleAssumption DEF PriceFor, TokenBase
  <1>3. ASSUME NEW r \in RankedGames, Exists(r)
        PROVE  /\ ranked[r].game \in GameKeys /\ ranked[r].entry_fee \in Nat
               /\ bal[Escrow(r)][SOL] >= RENT_RANKED
    <2>1. ranked[r] \in RankedGameState
      BY DEF SafeInv, TypeOK, AccountsTypeOK
    <2> QED  BY <1>3, <2>1, WidthAssumption
             DEF SafeInv, TypeOK, EscrowAccounted, RankedGameState
  <1>4. \A u \in UserAccounts : user[u].is_initialized => user[u].owner \in Wallets
    BY DEF SafeInv, TypeOK
  <1> QED  BY <1>1, <1>2, <1>3, <1>4

LEMMA CreateSafe ==
    ASSUME SafeInv, NEW r \in RankedGames, NEW g \in ParentGames, NEW fee \in EntryFees,
           CreateRankedGame(r, g, fee)
    PROVE  SafeInv'
  <1>1. /\ bal' \in Ledgers
        /\ \A s \in RankedGames, x \in PaymentToken :
              bal'[Escrow(s)][x] = bal[Escrow(s)][x]
                + IF s = r /\ x = SOL THEN RENT_RANKED ELSE 0
    BY SafeFacts, CreateLedger DEF CreateRankedGame
  <1>2. ranked' \in [RankedGames -> RankedGameState]
    BY InputAssumption, WidthAssumption
       DEF CreateRankedGame, SafeInv, TypeOK, AccountsTypeOK, RankedGameState,
           RankedGameStatus
  <1>3. ata' \in SUBSET (Holder \X Mints)
    BY SafeFacts, Addresses DEF CreateRankedGame, OpenedAtas
  <1>4. /\ usedIds' \in SUBSET RankedGames
        /\ entered' \in [RankedGames -> SUBSET UserAccounts]
    BY DEF CreateRankedGame, SafeInv, TypeOK
  <1>5. TypeOK'
    <2>1. /\ UNCHANGED <<oracle, game, user>>
          /\ \A s \in RankedGames : s # r => ranked'[s] = ranked[s]
          /\ ranked'[r].game \in GameKeys
      BY InputAssumption DEF CreateRankedGame, SafeInv, TypeOK, AccountsTypeOK
    <2> QED  BY <1>1, <1>2, <1>3, <1>4, <2>1
             DEF SafeInv, TypeOK, AccountsTypeOK, Ledgers, Exists
  <1>6. ASSUME NEW s \in RankedGames
        PROVE  IF Exists(s)'
               THEN /\ bal'[Escrow(s)][SOL] >= RENT_RANKED
                    /\ \A m \in Mints : <<Escrow(s), m>> \in ata'
               ELSE \A m \in Mints :
                            bal'[Escrow(s)][m] = 0 /\ <<Escrow(s), m>> \notin ata'
    <2>0. SOL \in PaymentToken
      BY DEF PaymentToken
    <2>1. CASE s = r
      <3>1. Exists(s)' /\ bal[Escrow(s)][SOL] = 0
        BY <2>1 DEF CreateRankedGame, Exists, SafeInv, TypeOK, AccountsTypeOK
      <3>2. bal'[Escrow(s)][SOL] = 0 + RENT_RANKED
        BY <1>1, <2>0, <2>1, <3>1
      <3>3. \A m \in Mints : <<Escrow(s), m>> \in ata'
        BY <2>1 DEF CreateRankedGame, OpenedAtas
      <3> QED  BY <3>1, <3>2, <3>3, RentAssumption
    <2>2. CASE s # r
      <3>1. bal'[Escrow(s)] = bal[Escrow(s)]
        <4>1. \A x \in PaymentToken : bal'[Escrow(s)][x] = bal[Escrow(s)][x]
          BY <1>1, <2>2, SafeFacts, Addresses DEF Ledgers
        <4>2. /\ bal[Escrow(s)] \in [PaymentToken -> Nat]
              /\ bal'[Escrow(s)] \in [PaymentToken -> Nat]
          BY <1>1, SafeFacts, Addresses DEF Ledgers
        <4> QED  BY <4>1, <4>2
      <3>2. Exists(s)' <=> Exists(s)
        BY <2>2 DEF CreateRankedGame, Exists, SafeInv, TypeOK, AccountsTypeOK
      <3>3. \A m \in Mints : <<Escrow(s), m>> \in ata' <=> <<Escrow(s), m>> \in ata
        BY <2>2, Addresses DEF CreateRankedGame, OpenedAtas
      <3> QED  BY <3>1, <3>2, <3>3 DEF SafeInv, EscrowAccounted
    <2> QED  BY <2>1, <2>2
  <1>7. EscrowAccounted'
    BY <1>6 DEF EscrowAccounted, Exists, Escrow, RankedGamePda
  <1> QED  BY <1>5, <1>7 DEF SafeInv

\* What an entry pays, spelled out from the guards of JoinRankedGame.
LEMMA JoinLedger ==
    ASSUME SafeInv, NEW u \in UserAccounts, NEW r \in RankedGames,
           NEW t \in PaymentToken, JoinRankedGame(u, r, t)
    PROVE  /\ bal' \in Ledgers
           /\ ata' = ata
           /\ \A s \in RankedGames, x \in PaymentToken :
                 s # r \/ x # t => bal'[Escrow(s)][x] = bal[Escrow(s)][x]
           /\ bal'[Escrow(r)][t] >= bal[Escrow(r)][t]
  <1> DEFINE g == ranked[r].game
             share == game[g].game_to_protocol_share_bps
             dev == BPS_DENOMINATOR - share
             due == EntryTokens(ranked[r].entry_fee, dev, PriceFor(t), TokenBase(t))
             payer == user[u].owner
  <1>1. /\ Exists(r) /\ payer \in Wallets /\ g \in Games
        /\ ranked[r].entry_fee \in Nat
    BY SafeFacts DEF JoinRankedGame, Joinable, GameLoads, Exists
  <1>2. /\ PriceFor(t) \in Nat \ {0} /\ TokenBase(t) \in Nat
        /\ PaymentGoesThrough(payer, r, g, t, due)
        /\ bal' = PaidEntry(payer, r, g, t, due)
        /\ ata' = ata
    BY SafeFacts DEF JoinRankedGame, ProcessRankedEntryPayment
  <1>3. dev \in Nat /\ dev <= BPS_DENOMINATOR
    <2>1. share \in Nat
      BY <1>1, WidthAssumption DEF SafeInv, TypeOK, AccountsTypeOK, GameAccount
    <2>2. share <= BPS_DENOMINATOR
      BY DEF JoinRankedGame
    <2> QED  BY <2>1, <2>2, ScaleAssumption
  <1> HIDE DEF g, dev, payer
  <1>4. due \in [net : Nat, dev : Nat, protocol : Nat]
    BY <1>1, <1>2, <1>3, TokensDue
  <1> HIDE DEF due
  <1>5. /\ bal' \in Ledgers
        /\ \A s \in RankedGames, x \in PaymentToken :
              bal'[Escrow(s)][x] =
                bal[Escrow(s)][x] + IF s = r /\ x = t THEN due.net ELSE 0
    BY <1>1, <1>2, <1>4, SafeFacts, EntryLedger
  <1>6. \A s \in RankedGames, x \in PaymentToken : bal[Escrow(s)][x] \in Nat
    BY SafeFacts, Addresses DEF Ledgers
  <1>7. due.net \in Nat
    BY <1>4
  <1> QED  BY <1>2, <1>5, <1>6, <1>7

LEMMA JoinSafe ==
    ASSUME SafeInv, NEW u \in UserAccounts, NEW r \in RankedGames,
           NEW t \in PaymentToken, JoinRankedGame(u, r, t)
    PROVE  SafeInv'
  <1>1. /\ ranked[r] \in RankedGameState /\ user[u] \in UserAccount
        /\ ranked \in [RankedGames -> RankedGameState]
        /\ user \in [UserAccounts -> UserAccount]
    BY DEF SafeInv, TypeOK, AccountsTypeOK
  <1>2. ranked' = [ranked EXCEPT ![r].participant_count = ranked[r].participant_count + 1]
    BY DEF JoinRankedGame, Counted
  <1>3. user' = [user EXCEPT ![u].current_ranked_game = r,
                             ![u].total_ranked_games_played =
                                user[u].total_ranked_games_played + 1]
    BY DEF JoinRankedGame, Enrolled
  <1>4. /\ ranked[r].participant_count + 1 \in 0..U32MAX
        /\ user[u].total_ranked_games_played + 1 \in 0..U32MAX
    BY <1>1, WidthAssumption DEF JoinRankedGame, RankedGameState, UserAccount
  <1>5. ranked' \in [RankedGames -> RankedGameState]
    BY <1>1, <1>2, <1>4 DEF RankedGameState
  <1>6. user' \in [UserAccounts -> UserAccount]
    BY <1>1, <1>3, <1>4 DEF UserAccount
  <1>7. \A s \in RankedGames : /\ ranked'[s].game = ranked[s].game
                               /\ ranked'[s].status = ranked[s].status
    BY <1>1, <1>2 DEF RankedGameState
  <1>8. \A v \in UserAccounts : /\ user'[v].is_initialized = user[v].is_initialized
                                /\ user'[v].owner = user[v].owner
                                /\ user'[v].game = user[v].game
    BY <1>1, <1>3 DEF UserAccount
  <1>9. TypeOK'
    <2>1. entered' \in [RankedGames -> SUBSET UserAccounts] /\ usedIds' = usedIds
      BY DEF JoinRankedGame, SafeInv, TypeOK
    <2>2. bal' \in [Holder -> [PaymentToken -> Nat]] /\ ata' = ata
      BY JoinLedger DEF Ledgers
    <2>3. oracle' = oracle /\ game' = game
      BY DEF JoinRankedGame
    <2> QED  BY <1>5, <1>6, <1>7, <1>8, <2>1, <2>2, <2>3
             DEF SafeInv, TypeOK, AccountsTypeOK, Exists
  <1>10. EscrowAccounted'
    <2> SUFFICES ASSUME NEW s \in RankedGames
                 PROVE  IF Exists(s)
                        THEN /\ bal'[Escrow(s)][SOL] >= RENT_RANKED
                             /\ \A m \in Mints : <<Escrow(s), m>> \in ata
                        ELSE \A m \in Mints :
                            bal'[Escrow(s)][m] = 0 /\ <<Escrow(s), m>> \notin ata
      BY <1>7, JoinLedger DEF EscrowAccounted, Exists, Escrow, RankedGamePda
    <2>1. /\ bal[Escrow(s)] \in [PaymentToken -> Nat]
          /\ bal'[Escrow(s)] \in [PaymentToken -> Nat]
          /\ SOL \in PaymentToken
      BY SafeFacts, JoinLedger, Addresses DEF Ledgers, PaymentToken
    <2>2. CASE Exists(s)
      <3>1. bal'[Escrow(s)][SOL] >= bal[Escrow(s)][SOL]
        BY <2>1, JoinLedger
      <3> QED  BY <2>1, <2>2, <3>1, RentAssumption DEF SafeInv, EscrowAccounted
    <2>3. CASE ~Exists(s)
      <3>1. s # r
        BY <2>3 DEF JoinRankedGame, Joinable, Exists
      <3>2. bal'[Escrow(s)] = bal[Escrow(s)]
        BY <2>1, <3>1, JoinLedger
      <3> QED  BY <2>3, <3>2 DEF SafeInv, EscrowAccounted
    <2> QED  BY <2>2, <2>3
  <1> QED  BY <1>9, <1>10 DEF SafeInv

LEMMA StatusSafe ==
    ASSUME SafeInv, NEW r \in RankedGames, NEW s \in RankedGameStatus,
           UpdateRankedGameStatus(r, s)
    PROVE  SafeInv'
  <1>1. ranked' = [ranked EXCEPT ![r].status = s] /\ Exists(r) /\ s # "Absent"
    BY DEF UpdateRankedGameStatus, RankedGameStatus
  <1>2. ranked \in [RankedGames -> RankedGameState]
    BY DEF SafeInv, TypeOK, AccountsTypeOK
  <1>3. ranked' \in [RankedGames -> RankedGameState]
    BY <1>1, <1>2 DEF RankedGameState
  <1>4. \A q \in RankedGames : /\ ranked'[q].game = ranked[q].game
                               /\ Exists(q)' <=> Exists(q)
    BY <1>1, <1>2 DEF RankedGameState, Exists
  <1>5. UNCHANGED <<oracle, game, user, bal, ata, usedIds, entered>>
    BY DEF UpdateRankedGameStatus
  <1>6. TypeOK'
    BY <1>3, <1>4, <1>5 DEF SafeInv, TypeOK, AccountsTypeOK
  <1>7. EscrowAccounted'
    BY <1>4, <1>5 DEF SafeInv, EscrowAccounted, Escrow, RankedGamePda
  <1> QED  BY <1>6, <1>7 DEF SafeInv

\* What a payout takes, spelled out from the guards of RewardWinner.
LEMMA PayoutLedger ==
    ASSUME SafeInv, NEW u \in UserAccounts, NEW r \in RankedGames,
           NEW bps \in PayoutBps, RewardWinner(u, r, bps)
    PROVE  /\ bal' \in Ledgers
           /\ Payout(r, bps) \in [PaymentToken -> Nat]
           /\ \A s \in RankedGames, x \in PaymentToken :
                 bal'[Escrow(s)][x] =
                   bal[Escrow(s)][x] - IF s = r THEN Payout(r, bps)[x] ELSE 0
           /\ \A x \in PaymentToken : Payout(r, bps)[x] <= bal[Escrow(r)][x]
           /\ bal'[Escrow(r)][SOL] >= RENT_RANKED
           /\ ata \subseteq ata'
           /\ ata' \in SUBSET (Holder \X Mints)
           /\ \A s \in RankedGames, m \in Mints :
                 <<Escrow(s), m>> \in ata' <=> <<Escrow(s), m>> \in ata
  <1> DEFINE w == user[u].owner
             paid == Payout(r, bps)
             opened == WinnerAtas(w, paid)
             rent == RENT_ATA * Cardinality(opened)
  <1>1. Exists(r) /\ w \in Wallets /\ bal[Escrow(r)][SOL] >= RENT_RANKED
    BY SafeFacts DEF RewardWinner, Payable, Rewardable, Exists
  <1>2. bps \in Nat /\ bps <= BPS_DENOMINATOR
    BY InputAssumption, WidthAssumption DEF RewardWinner, Payable
  <1>3. /\ paid \in [PaymentToken -> Nat]
        /\ \A t \in PaymentToken : paid[t] <= bal[Escrow(r)][t]
        /\ bal[Escrow(r)][SOL] - paid[SOL] >= RENT_RANKED
    BY <1>1, <1>2, SafeFacts, PayoutBound
  <1>4. opened \in SUBSET Mints
    BY DEF WinnerAtas, MissingAtas
  <1>5. rent \in Nat
    BY <1>4, RentIsNat
  <1>6. /\ PaidOut(r, w, paid)[Treasury][SOL] >= rent
        /\ bal' = RewardSettled(r, w, paid, rent)
        /\ ata' = ata \cup ({WalletOf(w)} \X opened)
    BY DEF RewardWinner, Payable, WinnerRent
  <1> HIDE DEF w, paid, opened, rent
  <1>7. /\ bal' \in Ledgers
        /\ \A s \in RankedGames, x \in PaymentToken :
              bal'[Escrow(s)][x] = bal[Escrow(s)][x] - IF s = r THEN paid[x] ELSE 0
    BY <1>1, <1>3, <1>5, <1>6, SafeFacts, RewardLedger
  <1>8. bal'[Escrow(r)][SOL] >= RENT_RANKED
    BY <1>3, <1>7 DEF PaymentToken
  <1>9. /\ ata' \in SUBSET (Holder \X Mints)
        /\ \A s \in RankedGames, m \in Mints :
              <<Escrow(s), m>> \in ata' <=> <<Escrow(s), m>> \in ata
    BY <1>1, <1>4, <1>6, SafeFacts, Addresses
  <1>10. paid = Payout(r, bps)
    BY DEF paid
  <1>11. ata \subseteq ata'
    BY <1>6
  <1> QED  BY <1>3, <1>7, <1>8, <1>9, <1>10, <1>11

LEMMA RewardSafe ==
    ASSUME SafeInv, NEW u \in UserAccounts, NEW r \in RankedGames,
           NEW bps \in PayoutBps, RewardWinner(u, r, bps)
    PROVE  SafeInv'
  <1> DEFINE usd == PayoutUsd(Payout(r, bps))
  <1>1. user[u] \in UserAccount /\ user \in [UserAccounts -> UserAccount]
    BY DEF SafeInv, TypeOK, AccountsTypeOK
  <1>2. usd \in Nat
    <2>1. \A t \in PaymentToken : PriceFor(t) \in Nat /\ Payout(r, bps)[t] \in Nat
      BY SafeFacts, PayoutLedger
    <2>2. \A n \in Nat : Saturate(n) \in Nat
      BY WidthAssumption DEF Saturate
    <2>3. ASSUME NEW t \in PaymentToken
          PROVE  SplUsd(Payout(r, bps)[t], PriceFor(t)) \in Nat
      <3>1. (Payout(r, bps)[t] * PriceFor(t)) \in Nat
        BY <2>1
      <3>2. \A n \in Nat : n \div SPL_BASE \in Nat
        BY ScaleAssumption, SMT
      <3> QED  BY <2>2, <3>1, <3>2 DEF SplUsd
    <2>4. SolUsdOfRankedPayout(Payout(r, bps)[SOL], PriceFor(SOL)) \in Nat
      <3>1. Payout(r, bps)[SOL] * PriceFor(SOL) \in Nat
        BY <2>1 DEF PaymentToken
      <3> QED  BY <2>2, <3>1 DEF SolUsdOfRankedPayout
    <2>5. SOL \in PaymentToken /\ SKR \in PaymentToken /\ SLICE \in PaymentToken
          /\ USDC \in PaymentToken
      BY DEF PaymentToken, Mints
    <2> QED  BY <2>2, <2>3, <2>4, <2>5 DEF PayoutUsd
  <1>3. user' = [user EXCEPT
                   ![u].total_usd_rewards_micro = user[u].total_usd_rewards_micro + usd,
                   ![u].total_wins = user[u].total_wins + 1,
                   ![u].current_ranked_game = DefaultKey]
    BY DEF RewardWinner, Payable, Rewarded
  <1>4. /\ user[u].total_usd_rewards_micro + usd \in 0..U64MAX
        /\ user[u].total_wins + 1 \in 0..U32MAX
    BY <1>1, <1>2, WidthAssumption DEF RewardWinner, Payable, FitsU64, UserAccount
  <1>5. user' \in [UserAccounts -> UserAccount]
    BY <1>1, <1>3, <1>4 DEF UserAccount
  <1>6. \A v \in UserAccounts : /\ user'[v].is_initialized = user[v].is_initialized
                                /\ user'[v].owner = user[v].owner
                                /\ user'[v].game = user[v].game
    BY <1>1, <1>3 DEF UserAccount
  <1>7. UNCHANGED <<oracle, game, ranked, usedIds, entered>>
    BY DEF RewardWinner, Payable
  <1>8. TypeOK'
    BY <1>5, <1>6, <1>7, PayoutLedger
       DEF SafeInv, TypeOK, AccountsTypeOK, Ledgers, Exists
  <1>9. EscrowAccounted'
    <2> SUFFICES ASSUME NEW s \in RankedGames
                 PROVE  IF Exists(s)
                        THEN /\ bal'[Escrow(s)][SOL] >= RENT_RANKED
                             /\ \A m \in Mints : <<Escrow(s), m>> \in ata
                        ELSE \A m \in Mints :
                            bal'[Escrow(s)][m] = 0 /\ <<Escrow(s), m>> \notin ata
      BY <1>7, PayoutLedger DEF EscrowAccounted, Exists, Escrow, RankedGamePda
    <2>1. CASE s = r
      <3>1. Exists(s)  BY <2>1 DEF RewardWinner, Payable, Rewardable, Exists
      <3> QED  BY <2>1, <3>1, PayoutLedger DEF SafeInv, EscrowAccounted
    <2>2. CASE s # r
      <3>1. bal'[Escrow(s)] = bal[Escrow(s)]
        <4>1. /\ bal[Escrow(s)] \in [PaymentToken -> Nat]
              /\ bal'[Escrow(s)] \in [PaymentToken -> Nat]
          BY SafeFacts, PayoutLedger, Addresses DEF Ledgers
        <4>2. \A x \in PaymentToken : bal'[Escrow(s)][x] = bal[Escrow(s)][x]
          BY <2>2, <4>1, PayoutLedger
        <4> QED  BY <4>1, <4>2
      <3> QED  BY <3>1 DEF SafeInv, EscrowAccounted
    <2> QED  BY <2>1, <2>2
  <1> QED  BY <1>8, <1>9 DEF SafeInv

LEMMA CloseSafe ==
    ASSUME SafeInv, NEW r \in RankedGames, CloseRankedGame(r)
    PROVE  SafeInv'
  <1>1. /\ bal' \in Ledgers
        /\ \A s \in RankedGames :
              bal'[Escrow(s)] = IF s = r THEN NoTokens ELSE bal[Escrow(s)]
    BY SafeFacts, CloseLedger DEF CloseRankedGame, Closable
  <1>2. ranked' = [ranked EXCEPT ![r] = NoRankedGame]
        /\ ranked \in [RankedGames -> RankedGameState]
    BY DEF CloseRankedGame, Closable, SafeInv, TypeOK, AccountsTypeOK
  <1>3. ranked' \in [RankedGames -> RankedGameState]
    <2>1. NoRankedGame \in RankedGameState
      BY WidthAssumption DEF NoRankedGame, RankedGameState
    <2> QED  BY <1>2, <2>1
  <1>4. \A s \in RankedGames : /\ s = r => ~Exists(s)'
                               /\ s # r => ranked'[s] = ranked[s]
    BY <1>2 DEF Exists, NoRankedGame
  <1>5. /\ UNCHANGED <<oracle, game, user, usedIds, entered>>
        /\ ata' = ata \ ({Escrow(r)} \X Mints)
    BY DEF CloseRankedGame, Closable
  <1>6. TypeOK'
    BY <1>1, <1>3, <1>4, <1>5
       DEF SafeInv, TypeOK, AccountsTypeOK, Ledgers, Exists
  <1>7. EscrowAccounted'
    <2> SUFFICES ASSUME NEW s \in RankedGames
                 PROVE  IF Exists(s)'
                        THEN /\ bal'[Escrow(s)][SOL] >= RENT_RANKED
                             /\ \A m \in Mints : <<Escrow(s), m>> \in ata'
                        ELSE \A m \in Mints :
                            bal'[Escrow(s)][m] = 0 /\ <<Escrow(s), m>> \notin ata'
      BY DEF EscrowAccounted, Exists, Escrow, RankedGamePda
    <2>1. CASE s = r
      BY <1>1, <1>4, <1>5, <2>1 DEF NoTokens, PaymentToken
    <2>2. CASE s # r
      <3>1. \A m \in Mints : <<Escrow(s), m>> \in ata' <=> <<Escrow(s), m>> \in ata
        BY <1>5, <2>2, Addresses
      <3>2. Exists(s)' <=> Exists(s)
        BY <1>4, <2>2 DEF Exists
      <3> QED  BY <1>1, <2>2, <3>1, <3>2 DEF SafeInv, EscrowAccounted
    <2> QED  BY <2>1, <2>2
  <1> QED  BY <1>6, <1>7 DEF SafeInv

LEMMA OracleSafe ==
    ASSUME SafeInv, OracleStep
    PROVE  SafeInv'
  <1>1. PICK price \in PriceInputs : InitOracle(price) \/ UpdateOraclePrices(price)
    BY DEF OracleStep, OracleNext
  <1>2. price \in [OraclePriced -> 0..U64MAX]
    BY PriceInputsAssumption
  <1>3. oracle' \in OraclePriceState
    <2>1. CASE InitOracle(price)
      BY <1>2, <2>1 DEF InitOracle, OraclePriceState
    <2>2. CASE UpdateOraclePrices(price)
      <3>1. oracle \in OraclePriceState /\ oracle' = [oracle EXCEPT !.price = price]
        BY <2>2 DEF UpdateOraclePrices, SafeInv, TypeOK, AccountsTypeOK
      <3> QED  BY <1>2, <3>1 DEF OraclePriceState
    <2> QED  BY <1>1, <2>1, <2>2
  <1>4. /\ bal' \in [Holder -> [PaymentToken -> Nat]]
        /\ \A r \in RankedGames : bal'[Escrow(r)] = bal[Escrow(r)]
        /\ UNCHANGED <<game, user, ranked, ata, usedIds, entered>>
    BY SafeFacts, OracleLedger DEF Ledgers
  <1>5. TypeOK'
    BY <1>3, <1>4 DEF SafeInv, TypeOK, AccountsTypeOK, Exists
  <1>6. EscrowAccounted'
    BY <1>4 DEF SafeInv, EscrowAccounted, Exists, Escrow, RankedGamePda
  <1> QED  BY <1>5, <1>6 DEF SafeInv

LEMMA SafeInit == Init => SafeInv
  <1> SUFFICES ASSUME Init PROVE SafeInv
    OBVIOUS
  <1>1. oracle \in OraclePriceState
    BY WidthAssumption DEF Init, OracleInit, OraclePriceState
  <1>2. ranked \in [RankedGames -> RankedGameState]
    BY WidthAssumption DEF Init, NoRankedGame, RankedGameState
  <1>3. \A r \in RankedGames : ~Exists(r)
    BY DEF Init, Exists, NoRankedGame
  <1>4. TypeOK
    BY <1>1, <1>2, <1>3, GenesisAssumption DEF Init, TypeOK, AccountsTypeOK
  <1>5. EscrowAccounted
    BY <1>3, GenesisAssumption DEF Init, EscrowAccounted, Escrow
  <1> QED  BY <1>4, <1>5 DEF SafeInv

LEMMA SafeStep == SafeInv /\ [Next]_vars => SafeInv'
  <1> SUFFICES ASSUME SafeInv, [Next]_vars PROVE SafeInv'
    OBVIOUS
  <1>1. CASE OracleStep
    BY <1>1, OracleSafe
  <1>2. ASSUME NEW r \in RankedGames, NEW g \in ParentGames, NEW fee \in EntryFees,
               CreateRankedGame(r, g, fee)
        PROVE  SafeInv'
    BY <1>2, CreateSafe
  <1>3. ASSUME NEW r \in RankedGames, NEW u \in UserAccounts, NEW t \in PaymentToken,
               JoinRankedGame(u, r, t)
        PROVE  SafeInv'
    BY <1>3, JoinSafe
  <1>4. ASSUME NEW r \in RankedGames, NEW s \in RankedGameStatus,
               UpdateRankedGameStatus(r, s)
        PROVE  SafeInv'
    BY <1>4, StatusSafe
  <1>5. ASSUME NEW r \in RankedGames, NEW u \in UserAccounts, NEW bps \in PayoutBps,
               RewardWinner(u, r, bps)
        PROVE  SafeInv'
    BY <1>5, RewardSafe
  <1>6. ASSUME NEW r \in RankedGames, CloseRankedGame(r)
        PROVE  SafeInv'
    BY <1>6, CloseSafe
  <1>7. CASE UNCHANGED vars
    BY <1>7 DEF vars, SafeInv, TypeOK, AccountsTypeOK, EscrowAccounted, Exists,
                Escrow, RankedGamePda
  <1> QED  BY <1>1, <1>2, <1>3, <1>4, <1>5, <1>6, <1>7 DEF Next

LEMMA SafeAlways == Spec => []SafeInv
  BY SafeInit, SafeStep, PTL DEF Spec

\* Every account keeps the layout the code gives it: no instruction, in any
\* order, takes a balance below zero, a counter beyond its width, or leaves
\* an account in use pointing at no game. (all handlers of ranked_game.rs)
THEOREM TypeCorrect == Spec => []TypeOK
  <1>1. SafeInv => TypeOK
    BY DEF SafeInv
  <1> QED  BY <1>1, SafeAlways, PTL

\* A live escrow always has its rent and its three token accounts, whatever
\* was paid into and out of it; a closed one leaves no tokens behind.
THEOREM EscrowSound == Spec => []EscrowAccounted
  <1>1. SafeInv => EscrowAccounted
    BY DEF SafeInv
  <1> QED  BY <1>1, SafeAlways, PTL

\* What a step may not do: take from the pool of a game that is not finished.
PoolsHeld ==
    \A r \in RankedGames, t \in PaymentToken :
        bal'[Escrow(r)][t] < bal[Escrow(r)][t] =>
            ranked[r].status = "Finished" \/ ranked'[r].status = "Absent"

LEMMA HeldStep == ASSUME SafeInv, [Next]_vars PROVE PoolsHeld
  <1> SUFFICES ASSUME NEW q \in RankedGames, NEW x \in PaymentToken,
                      bal'[Escrow(q)][x] < bal[Escrow(q)][x]
               PROVE  ranked[q].status = "Finished" \/ ranked'[q].status = "Absent"
    BY DEF PoolsHeld
  <1>1. bal[Escrow(q)][x] \in Nat /\ ~(bal[Escrow(q)][x] < bal[Escrow(q)][x])
    BY SafeFacts, Addresses DEF Ledgers
  <1>2. ASSUME OracleStep \/ UNCHANGED vars PROVE FALSE
    <2>1. bal'[Escrow(q)] = bal[Escrow(q)]
      BY <1>2, SafeFacts, OracleLedger DEF vars
    <2> QED  BY <1>1, <2>1
  <1>3. ASSUME NEW r \in RankedGames, NEW g \in ParentGames, NEW fee \in EntryFees,
               CreateRankedGame(r, g, fee)
        PROVE  FALSE
    <2>1. bal'[Escrow(q)][x] = bal[Escrow(q)][x]
            + IF q = r /\ x = SOL THEN RENT_RANKED ELSE 0
      BY <1>3, SafeFacts, CreateLedger DEF CreateRankedGame
    <2> QED  BY <1>1, <2>1, RentAssumption
  <1>4. ASSUME NEW r \in RankedGames, NEW u \in UserAccounts, NEW t \in PaymentToken,
               JoinRankedGame(u, r, t)
        PROVE  FALSE
    <2>1. bal'[Escrow(q)][x] \in Nat
      BY <1>4, JoinLedger, Addresses DEF Ledgers
    <2>2. bal'[Escrow(q)][x] >= bal[Escrow(q)][x]
      BY <1>1, <1>4, <2>1, JoinLedger
    <2> QED  BY <1>1, <2>1, <2>2
  <1>5. ASSUME NEW r \in RankedGames, NEW s \in RankedGameStatus,
               UpdateRankedGameStatus(r, s)
        PROVE  FALSE
    BY <1>1, <1>5 DEF UpdateRankedGameStatus
  <1>6. ASSUME NEW r \in RankedGames, NEW u \in UserAccounts, NEW bps \in PayoutBps,
               RewardWinner(u, r, bps)
        PROVE  ranked[q].status = "Finished"
    <2>1. q = r
      BY <1>1, <1>6, PayoutLedger
    <2> QED  BY <1>6, <2>1 DEF RewardWinner, Payable, Rewardable
  <1>7. ASSUME NEW r \in RankedGames, CloseRankedGame(r)
        PROVE  ranked'[q].status = "Absent"
    <2>1. q = r
      BY <1>1, <1>7, SafeFacts, CloseLedger DEF CloseRankedGame, Closable
    <2> QED  BY <1>7, <2>1
             DEF CloseRankedGame, Closable, NoRankedGame, SafeInv, TypeOK, AccountsTypeOK
  <1> QED  BY <1>2, <1>3, <1>4, <1>5, <1>6, <1>7 DEF Next

\* Before the match is over nothing leaves a pool, other than by a close: a
\* join only adds to it and no other instruction moves its tokens.
THEOREM EscrowHeld == Spec => EscrowHeldUntilFinished
  <1>1. SafeInv /\ [Next]_vars => [PoolsHeld]_vars
    BY HeldStep
  <1>2. Spec => [][PoolsHeld]_vars
    BY <1>1, SafeAlways, PTL DEF Spec
  <1> QED  BY <1>2 DEF PoolsHeld, EscrowHeldUntilFinished

----------------------------------------------------------------------------
(* Players *)

\* How an instruction can change a user account: not at all, by an entry,
\* which enrols and counts, or by a payout, which counts a win and releases.
LEMMA UserSteps ==
    ASSUME SafeInv, [Next]_vars, NEW v \in UserAccounts
    PROVE  \/ user'[v] = user[v]
           \/ \E r \in RankedGames :
                 /\ user'[v].current_ranked_game = r
                 /\ user'[v].total_ranked_games_played = user[v].total_ranked_games_played + 1
                 /\ user'[v].total_wins = user[v].total_wins
           \/ /\ user[v].current_ranked_game \in RankedGames
              /\ user'[v].current_ranked_game = DefaultKey
              /\ user'[v].total_ranked_games_played = user[v].total_ranked_games_played
              /\ user'[v].total_wins = user[v].total_wins + 1
  <1>0. user \in [UserAccounts -> UserAccount]
    BY DEF SafeInv, TypeOK, AccountsTypeOK
  <1>1. CASE user' = user
    BY <1>1
  <1>2. ASSUME NEW r \in RankedGames, NEW u \in UserAccounts, NEW t \in PaymentToken,
               JoinRankedGame(u, r, t)
        PROVE  \/ user'[v] = user[v]
               \/ /\ user'[v].current_ranked_game = r
                  /\ user'[v].total_ranked_games_played =
                        user[v].total_ranked_games_played + 1
                  /\ user'[v].total_wins = user[v].total_wins
    <2>1. user' = [user EXCEPT ![u].current_ranked_game = r,
                               ![u].total_ranked_games_played =
                                  user[u].total_ranked_games_played + 1]
      BY <1>2 DEF JoinRankedGame, Enrolled
    <2> QED  BY <1>0, <2>1 DEF UserAccount
  <1>3. ASSUME NEW r \in RankedGames, NEW u \in UserAccounts, NEW bps \in PayoutBps,
               RewardWinner(u, r, bps)
        PROVE  \/ user'[v] = user[v]
               \/ /\ user[v].current_ranked_game \in RankedGames
                  /\ user'[v].current_ranked_game = DefaultKey
                  /\ user'[v].total_ranked_games_played = user[v].total_ranked_games_played
                  /\ user'[v].total_wins = user[v].total_wins + 1
    <2> DEFINE usd == PayoutUsd(Payout(r, bps))
    <2>1. /\ user[u].current_ranked_game = r
          /\ user' = [user EXCEPT
                        ![u].total_usd_rewards_micro = user[u].total_usd_rewards_micro + usd,
                        ![u].total_wins = user[u].total_wins + 1,
                        ![u].current_ranked_game = DefaultKey]
      BY <1>3 DEF RewardWinner, Payable, Rewardable, Rewarded
    <2> HIDE DEF usd
    <2> QED  BY <1>0, <2>1 DEF UserAccount
  <1>4. CASE OracleStep \/ UNCHANGED vars
    BY <1>1, <1>4 DEF OracleStep, OracleNext, InitOracle, UpdateOraclePrices, vars
  <1>5. ASSUME NEW r \in RankedGames,
               \/ \E g \in ParentGames, fee \in EntryFees : CreateRankedGame(r, g, fee)
               \/ \E s \in RankedGameStatus : UpdateRankedGameStatus(r, s)
               \/ CloseRankedGame(r)
        PROVE  user' = user
    BY <1>5 DEF CreateRankedGame, UpdateRankedGameStatus, CloseRankedGame, Closable
  <1> QED  BY <1>1, <1>2, <1>3, <1>4, <1>5 DEF Next

LEMMA WinsInit == Init => WinsBounded
  <1> SUFFICES ASSUME Init, NEW u \in UserAccounts
               PROVE  /\ user[u].current_ranked_game = DefaultKey
                      /\ user[u].total_wins = 0
                      /\ user[u].total_ranked_games_played \in Nat
    BY DEF WinsBounded
  <1> QED  BY GenesisAssumption, WidthAssumption DEF Init, UserAccount

LEMMA WinsStep == SafeInv /\ WinsBounded /\ [Next]_vars => WinsBounded'
  <1> SUFFICES ASSUME SafeInv, WinsBounded, [Next]_vars, NEW v \in UserAccounts
               PROVE  user'[v].total_wins
                        + (IF user'[v].current_ranked_game = DefaultKey THEN 0 ELSE 1)
                        <= user'[v].total_ranked_games_played
    BY DEF WinsBounded
  <1>1. user[v].total_wins \in Nat /\ user[v].total_ranked_games_played \in Nat
    BY WidthAssumption DEF SafeInv, TypeOK, AccountsTypeOK, UserAccount
  <1>2. user[v].total_wins
          + (IF user[v].current_ranked_game = DefaultKey THEN 0 ELSE 1)
          <= user[v].total_ranked_games_played
    BY DEF WinsBounded
  <1> QED  BY <1>1, <1>2, UserSteps, KeyAssumption

\* No sequence of entries, re-entries, id reuses and payouts makes a player
\* win more ranked games than entries were paid for.
THEOREM WinsSound == Spec => []WinsBounded
  BY WinsInit, WinsStep, SafeAlways, PTL DEF Spec

\* What unique ids add: whoever points at a game points at one that was
\* created, so that a game about to be created finds nobody enrolled.
EnrolInv ==
    /\ EnrolledArePayers
    /\ \A u \in UserAccounts, r \in RankedGames :
          user[u].current_ranked_game = r => r \in usedIds
    /\ \A r \in RankedGames : Exists(r) => r \in usedIds

LEMMA EnrolInit == Init => EnrolInv
  <1> SUFFICES ASSUME Init PROVE EnrolInv
    OBVIOUS
  <1>1. \A u \in UserAccounts : user[u].current_ranked_game = DefaultKey
    BY GenesisAssumption DEF Init
  <1>2. \A r \in RankedGames : ~Exists(r) /\ DefaultKey # r
    BY KeyAssumption DEF Init, Exists, NoRankedGame
  <1> QED  BY <1>1, <1>2 DEF EnrolInv, EnrolledArePayers

LEMMA EnrolStep == UniqueIds /\ SafeInv /\ EnrolInv /\ [Next]_vars => EnrolInv'
  <1> SUFFICES ASSUME UniqueIds, SafeInv, EnrolInv, [Next]_vars PROVE EnrolInv'
    OBVIOUS
  <1>0. /\ user \in [UserAccounts -> UserAccount]
        /\ ranked \in [RankedGames -> RankedGameState]
        /\ entered \in [RankedGames -> SUBSET UserAccounts]
    BY DEF SafeInv, TypeOK, AccountsTypeOK
  <1>1. ASSUME NEW r \in RankedGames, NEW g \in ParentGames, NEW fee \in EntryFees,
               CreateRankedGame(r, g, fee)
        PROVE  EnrolInv'
    <2>1. /\ r \notin usedIds /\ user' = user /\ usedIds' = usedIds \cup {r}
          /\ \A s \in RankedGames : s # r =>
                ranked'[s] = ranked[s] /\ entered'[s] = entered[s]
      BY <1>1, <1>0 DEF CreateRankedGame
    <2>2. \A u \in UserAccounts : user[u].current_ranked_game # r
      BY <2>1 DEF EnrolInv
    <2> QED  BY <2>1, <2>2 DEF EnrolInv, EnrolledArePayers, Exists
  <1>2. ASSUME NEW r \in RankedGames, NEW u \in UserAccounts, NEW t \in PaymentToken,
               JoinRankedGame(u, r, t)
        PROVE  EnrolInv'
    <2>1. /\ ranked[r].status = "Open" /\ user[u].game = ranked[r].game
          /\ usedIds' = usedIds /\ entered' = [entered EXCEPT ![r] = entered[r] \cup {u}]
          /\ ranked' = [ranked EXCEPT ![r].participant_count =
                           ranked[r].participant_count + 1]
          /\ user' = [user EXCEPT ![u].current_ranked_game = r,
                                  ![u].total_ranked_games_played =
                                     user[u].total_ranked_games_played + 1]
      BY <1>2 DEF JoinRankedGame, Joinable, Counted, Enrolled
    <2>2. Exists(r) /\ r \in usedIds
      BY <2>1 DEF Exists, EnrolInv
    <2>3. \A s \in RankedGames : ranked'[s].game = ranked[s].game
                                 /\ ranked'[s].status = ranked[s].status
      BY <1>0, <2>1 DEF RankedGameState
    <2>4. \A v \in UserAccounts : /\ user'[v].game = user[v].game
                                  /\ v # u => user'[v] = user[v]
      BY <1>0, <2>1 DEF UserAccount
    <2>5. user'[u].current_ranked_game = r
      BY <1>0, <2>1 DEF UserAccount
    <2>6. u \in entered'[r] /\ \A s \in RankedGames : entered[s] \subseteq entered'[s]
      BY <1>0, <2>1
    <2>7. EnrolledArePayers'
      <3> SUFFICES ASSUME NEW v \in UserAccounts, NEW s \in RankedGames,
                          Exists(s), user'[v].current_ranked_game = s
                   PROVE  v \in entered'[s] /\ user[v].game = ranked[s].game
        BY <2>3, <2>4 DEF EnrolledArePayers, Exists
      <3>1. CASE v = u
        BY <2>1, <2>5, <2>6, <3>1
      <3>2. CASE v # u
        BY <2>4, <2>6, <3>2 DEF EnrolInv, EnrolledArePayers
      <3> QED  BY <3>1, <3>2
    <2>8. \A v \in UserAccounts, s \in RankedGames :
             user'[v].current_ranked_game = s => s \in usedIds'
      BY <2>1, <2>2, <2>4, <2>5 DEF EnrolInv
    <2>9. \A s \in RankedGames : Exists(s)' => s \in usedIds'
      BY <2>1, <2>3 DEF EnrolInv, Exists
    <2> QED  BY <2>7, <2>8, <2>9 DEF EnrolInv
  <1>3. ASSUME NEW r \in RankedGames, NEW s \in RankedGameStatus,
               UpdateRankedGameStatus(r, s)
        PROVE  EnrolInv'
    <2>1. /\ Exists(r) /\ ranked' = [ranked EXCEPT ![r].status = s]
          /\ UNCHANGED <<user, usedIds, entered>>
      BY <1>3 DEF UpdateRankedGameStatus
    <2>2. \A q \in RankedGames : ranked'[q].game = ranked[q].game
                                 /\ (Exists(q)' => Exists(q))
      BY <1>0, <2>1 DEF RankedGameState, Exists
    <2> QED  BY <2>1, <2>2 DEF EnrolInv, EnrolledArePayers
  <1>4. ASSUME NEW r \in RankedGames, NEW u \in UserAccounts, NEW bps \in PayoutBps,
               RewardWinner(u, r, bps)
        PROVE  EnrolInv'
    <2> DEFINE usd == PayoutUsd(Payout(r, bps))
    <2>1. /\ UNCHANGED <<ranked, usedIds, entered>>
          /\ user' = [user EXCEPT
                        ![u].total_usd_rewards_micro = user[u].total_usd_rewards_micro + usd,
                        ![u].total_wins = user[u].total_wins + 1,
                        ![u].current_ranked_game = DefaultKey]
      BY <1>4 DEF RewardWinner, Payable, Rewarded
    <2> HIDE DEF usd
    <2>2. \A v \in UserAccounts : /\ user'[v].game = user[v].game
                                  /\ v # u => user'[v] = user[v]
      BY <1>0, <2>1 DEF UserAccount
    <2>3. user'[u].current_ranked_game \notin RankedGames
      BY <1>0, <2>1, KeyAssumption DEF UserAccount
    <2>4. \A v \in UserAccounts, s \in RankedGames :
             user'[v].current_ranked_game = s => user[v].current_ranked_game = s
      BY <2>2, <2>3
    <2>5. EnrolledArePayers'
      BY <2>1, <2>2, <2>4 DEF EnrolInv, EnrolledArePayers, Exists
    <2>6. \A v \in UserAccounts, s \in RankedGames :
             user'[v].current_ranked_game = s => s \in usedIds'
      BY <2>1, <2>4 DEF EnrolInv
    <2>7. \A s \in RankedGames : Exists(s)' => s \in usedIds'
      BY <2>1 DEF EnrolInv, Exists
    <2> QED  BY <2>5, <2>6, <2>7 DEF EnrolInv
  <1>5. ASSUME NEW r \in RankedGames, CloseRankedGame(r)
        PROVE  EnrolInv'
    <2>1. /\ UNCHANGED <<user, usedIds, entered>>
          /\ ranked' = [ranked EXCEPT ![r] = NoRankedGame]
      BY <1>5 DEF CloseRankedGame, Closable
    <2>2. \A s \in RankedGames : Exists(s)' => ranked'[s] = ranked[s] /\ Exists(s)
      BY <1>0, <2>1 DEF Exists, NoRankedGame
    <2> QED  BY <2>1, <2>2 DEF EnrolInv, EnrolledArePayers
  <1>6. CASE OracleStep \/ UNCHANGED vars
    <2>1. UNCHANGED <<user, ranked, usedIds, entered>>
      BY <1>6 DEF OracleStep, OracleNext, InitOracle, UpdateOraclePrices, vars
    <2> QED  BY <2>1 DEF EnrolInv, EnrolledArePayers, Exists
  <1> QED  BY <1>1, <1>2, <1>3, <1>4, <1>5, <1>6 DEF Next

LEMMA EnrolAlways == ASSUME UniqueIds PROVE Spec => []EnrolInv
  <1>1. SafeInv /\ EnrolInv /\ [Next]_vars => EnrolInv'
    BY EnrolStep
  <1> QED  BY <1>1, EnrolInit, SafeAlways, PTL DEF Spec

\* When the authority never reuses an id, the only test reward_winner makes of
\* a winner, that the account points at this game, admits exactly who paid.
THEOREM EnrolmentSound == ASSUME UniqueIds PROVE Spec => []EnrolledArePayers
  <1>1. EnrolInv => EnrolledArePayers
    BY DEF EnrolInv
  <1> QED  BY <1>1, EnrolAlways, PTL

LEMMA EntrantsInit == Init => EntrantsCounted
  BY DEF Init, EntrantsCounted, Exists, NoRankedGame

LEMMA EntrantsStep ==
    ASSUME SafeInv, EntrantsCounted, [Next]_vars
    PROVE  EntrantsCounted'
  <1> SUFFICES ASSUME NEW q \in RankedGames, Exists(q)'
               PROVE  Cardinality(entered'[q]) <= ranked'[q].participant_count
    BY DEF EntrantsCounted
  <1>0. /\ ranked \in [RankedGames -> RankedGameState]
        /\ entered \in [RankedGames -> SUBSET UserAccounts]
        /\ Exists(q) => Cardinality(entered[q]) <= ranked[q].participant_count
    BY DEF SafeInv, TypeOK, AccountsTypeOK, EntrantsCounted
  <1>1. CASE entered'[q] = entered[q] /\ Exists(q)
             /\ ranked'[q].participant_count = ranked[q].participant_count
    BY <1>0, <1>1
  <1>2. ASSUME NEW g \in ParentGames, NEW fee \in EntryFees, CreateRankedGame(q, g, fee)
        PROVE  Cardinality(entered'[q]) <= ranked'[q].participant_count
    <2>1. entered'[q] = {} /\ ranked'[q].participant_count = 0
      BY <1>0, <1>2 DEF CreateRankedGame
    <2> QED  BY <2>1, FS_EmptySet
  <1>3. ASSUME NEW u \in UserAccounts, NEW t \in PaymentToken, JoinRankedGame(u, q, t)
        PROVE  Cardinality(entered'[q]) <= ranked'[q].participant_count
    <2>1. /\ entered'[q] = entered[q] \cup {u}
          /\ ranked'[q].participant_count = ranked[q].participant_count + 1
          /\ Exists(q)
      BY <1>0, <1>3 DEF JoinRankedGame, Joinable, Counted, RankedGameState, Exists
    <2>2. IsFiniteSet(entered[q])
      BY <1>0, KeyAssumption, FS_Subset
    <2>3. Cardinality(entered[q]) \in Nat
      BY <2>2, FS_CardinalityType
    <2>4. Cardinality(entered[q] \cup {u}) \in Nat
          /\ Cardinality(entered[q] \cup {u}) <= Cardinality(entered[q]) + 1
      <3>1. IsFiniteSet(entered[q] \cup {u})
        BY <2>2, FS_AddElement
      <3>2. \/ Cardinality(entered[q] \cup {u}) = Cardinality(entered[q])
            \/ Cardinality(entered[q] \cup {u}) = Cardinality(entered[q]) + 1
        BY <2>2, FS_AddElement
      <3> QED  BY <2>3, <3>1, <3>2, FS_CardinalityType
    <2>5. Cardinality(entered'[q]) = Cardinality(entered[q] \cup {u})
      BY <2>1
    <2>6. ranked[q].participant_count \in Nat
      BY <1>0, WidthAssumption DEF RankedGameState
    <2> QED  BY <1>0, <2>1, <2>3, <2>4, <2>5, <2>6
  <1>4. ASSUME NEW r \in RankedGames, r # q,
               \/ \E g \in ParentGames, fee \in EntryFees : CreateRankedGame(r, g, fee)
               \/ \E u \in UserAccounts, t \in PaymentToken : JoinRankedGame(u, r, t)
        PROVE  entered'[q] = entered[q] /\ ranked'[q] = ranked[q]
    BY <1>0, <1>4 DEF CreateRankedGame, JoinRankedGame, Counted
  <1>5. ASSUME NEW r \in RankedGames,
               \/ \E s \in RankedGameStatus : UpdateRankedGameStatus(r, s)
               \/ \E u \in UserAccounts, bps \in PayoutBps : RewardWinner(u, r, bps)
               \/ CloseRankedGame(r)
        PROVE  /\ entered' = entered /\ Exists(q)
               /\ ranked'[q].participant_count = ranked[q].participant_count
    <2>1. CASE \E s \in RankedGameStatus : UpdateRankedGameStatus(r, s)
      BY <1>0, <2>1 DEF UpdateRankedGameStatus, RankedGameState, Exists
    <2>2. CASE \E u \in UserAccounts, bps \in PayoutBps : RewardWinner(u, r, bps)
      BY <1>0, <2>2 DEF RewardWinner, Payable, Exists
    <2>3. CASE CloseRankedGame(r)
      BY <1>0, <2>3 DEF CloseRankedGame, Closable, NoRankedGame, Exists
    <2> QED  BY <1>5, <2>1, <2>2, <2>3
  <1>6. CASE OracleStep \/ UNCHANGED vars
    <2>1. UNCHANGED <<ranked, entered>>
      BY <1>6 DEF OracleStep, OracleNext, InitOracle, UpdateOraclePrices, vars
    <2> QED  BY <1>1, <2>1 DEF Exists
  <1> QED  BY <1>1, <1>2, <1>3, <1>4, <1>5, <1>6 DEF Next, Exists

\* Nobody takes part uncounted, for any number of players and games and with
\* or without reused ids.
THEOREM EntrantsSound == Spec => []EntrantsCounted
  BY EntrantsInit, EntrantsStep, SafeAlways, PTL DEF Spec

----------------------------------------------------------------------------
(* Ranked games implement PrizePot *)

phases == [r \in RankedGames |-> ranked[r].status]
pots == [r \in RankedGames |-> PotOf(r)]
entrantSets == [r \in RankedGames |-> EntrantsOf(r)]

LEMMA PotInitial == Init => Pot!PotInit
  <1> SUFFICES ASSUME Init PROVE Pot!PotInit
    OBVIOUS
  <1>1. \A r \in RankedGames : ranked[r].status = "Absent" /\ ~Exists(r)
    BY DEF Init, Exists, NoRankedGame
  <1>2. \A r \in RankedGames : PotOf(r) = [t \in PaymentToken |-> 0]
    BY <1>1 DEF PotOf
  <1>3. \A r \in RankedGames : EntrantsOf(r) = {}
    BY <1>1 DEF EntrantsOf
  <1> QED  BY <1>1, <1>2, <1>3 DEF Pot!PotInit, Pot!Empty

LEMMA PotCreate ==
    ASSUME UniqueIds, SafeInv, EnrolInv, NEW r \in RankedGames, NEW g \in ParentGames,
           NEW fee \in EntryFees, CreateRankedGame(r, g, fee)
    PROVE  Pot!Open(r)
  <1>0. ranked \in [RankedGames -> RankedGameState] /\ SOL \in PaymentToken
    BY DEF SafeInv, TypeOK, AccountsTypeOK, PaymentToken
  <1>1. /\ ~Exists(r) /\ r \notin usedIds /\ user' = user
        /\ ranked'[r].status = "Open"
        /\ \A s \in RankedGames : s # r => ranked'[s] = ranked[s]
    BY <1>0 DEF CreateRankedGame
  <1>2. \A s \in RankedGames, x \in PaymentToken :
           bal'[Escrow(s)][x] = bal[Escrow(s)][x]
             + IF s = r /\ x = SOL THEN RENT_RANKED ELSE 0
    BY SafeFacts, CreateLedger DEF CreateRankedGame
  <1>3. ASSUME NEW s \in RankedGames PROVE PotOf(s)' = PotOf(s)
    <2>1. \A x \in PaymentToken : bal[Escrow(s)][x] \in Nat
      BY SafeFacts, Addresses DEF Ledgers
    <2>2. CASE s = r
      <3>1. \A x \in PaymentToken : bal[Escrow(r)][x] = 0
        BY <1>1 DEF SafeInv, EscrowAccounted, CreateRankedGame, PaymentToken
      <3>2. \A x \in PaymentToken : PotOf(r)'[x] = 0
        BY <1>0, <1>1, <1>2, <3>1, RentAssumption DEF PotOf, Exists, Escrow, RankedGamePda
      <3>3. \A x \in PaymentToken : PotOf(r)[x] = 0
        BY <1>1 DEF PotOf
      <3> QED  BY <2>2, <3>2, <3>3 DEF PotOf
    <2>3. CASE s # r
      <3>1. \A x \in PaymentToken : bal'[Escrow(s)][x] = bal[Escrow(s)][x]
        BY <1>2, <2>1, <2>3
      <3>2. Exists(s)' <=> Exists(s)
        BY <1>1, <2>3 DEF Exists
      <3> QED  BY <3>1, <3>2 DEF PotOf, Escrow, RankedGamePda
    <2> QED  BY <2>2, <2>3
  <1>4. ASSUME NEW s \in RankedGames PROVE EntrantsOf(s)' = EntrantsOf(s)
    <2>1. CASE s = r
      <3>1. \A u \in UserAccounts : user[u].current_ranked_game # r
        BY <1>1 DEF EnrolInv
      <3> QED  BY <1>1, <2>1, <3>1 DEF EntrantsOf
    <2>2. CASE s # r
      BY <1>1, <2>2 DEF EntrantsOf, Exists
    <2> QED  BY <2>1, <2>2
  <1>5. phases' = [phases EXCEPT ![r] = "Open"] /\ phases[r] = "Absent"
    BY <1>1 DEF phases, Exists
  <1>6. pots' = pots /\ entrantSets' = entrantSets
    BY <1>3, <1>4 DEF pots, entrantSets
  <1> QED  BY <1>5, <1>6 DEF Pot!Open, phases, pots, entrantSets

LEMMA PotJoin ==
    ASSUME SafeInv, NEW u \in UserAccounts, NEW r \in RankedGames,
           NEW t \in PaymentToken, JoinRankedGame(u, r, t)
    PROVE  Pot!Enter(u, r, t)
  <1>0. /\ ranked \in [RankedGames -> RankedGameState]
        /\ user \in [UserAccounts -> UserAccount]
    BY DEF SafeInv, TypeOK, AccountsTypeOK
  <1>1. \A s \in RankedGames : ranked'[s].status = ranked[s].status
    BY <1>0 DEF JoinRankedGame, Counted, RankedGameState
  <1>2. /\ ranked[r].status = "Open" /\ Exists(r)
        /\ user[u].current_ranked_game # r
    BY DEF JoinRankedGame, Joinable, Exists
  <1>3. /\ user'[u].current_ranked_game = r
        /\ \A v \in UserAccounts : v # u => user'[v] = user[v]
    BY <1>0 DEF JoinRankedGame, Enrolled, UserAccount
  <1>4. \A s \in RankedGames : EntrantsOf(s)' =
            IF s = r THEN EntrantsOf(s) \cup {u} ELSE EntrantsOf(s) \ {u}
    BY <1>1, <1>2, <1>3 DEF EntrantsOf, Exists
  <1>5. ASSUME NEW s \in RankedGames, NEW x \in PaymentToken, s # r \/ x # t
        PROVE  PotOf(s)'[x] = PotOf(s)[x]
    <2>1. bal'[Escrow(s)][x] = bal[Escrow(s)][x]
      BY <1>5, JoinLedger
    <2>2. Exists(s)' <=> Exists(s)
      BY <1>1 DEF Exists
    <2> QED  BY <2>1, <2>2 DEF PotOf, Escrow, RankedGamePda
  <1>6. PotOf(r)'[t] >= PotOf(r)[t]
    <2>1. /\ bal'[Escrow(r)][t] >= bal[Escrow(r)][t]
          /\ bal'[Escrow(r)][t] \in Nat /\ bal[Escrow(r)][t] \in Nat
      BY SafeFacts, JoinLedger, Addresses DEF Ledgers
    <2>2. Exists(r)'
      BY <1>1, <1>2 DEF Exists
    <2> QED  BY <1>2, <2>1, <2>2, RentAssumption DEF PotOf, Escrow, RankedGamePda
  <1>7. pots' = [pots EXCEPT ![r][t] = pots'[r][t]]
    <2>1. ASSUME NEW s \in RankedGames, s # r PROVE PotOf(s)' = PotOf(s)
      BY <1>5, <2>1 DEF PotOf
    <2>2. PotOf(r)' = [PotOf(r) EXCEPT ![t] = PotOf(r)'[t]]
      BY <1>5 DEF PotOf
    <2> QED  BY <2>1, <2>2 DEF pots
  <1>8. phases' = phases /\ phases[r] = "Open"
    BY <1>1, <1>2 DEF phases
  <1>9. u \notin entrantSets[r] /\ pots'[r][t] >= pots[r][t]
    BY <1>2, <1>6 DEF entrantSets, EntrantsOf, pots
  <1>10. entrantSets' = [s \in RankedGames |->
            IF s = r THEN entrantSets[s] \cup {u} ELSE entrantSets[s] \ {u}]
    BY <1>4 DEF entrantSets
  <1> QED  BY <1>7, <1>8, <1>9, <1>10 DEF Pot!Enter, phases, pots, entrantSets

LEMMA PotStatus ==
    ASSUME SafeInv, NEW r \in RankedGames, NEW s \in RankedGameStatus,
           UpdateRankedGameStatus(r, s)
    PROVE  Pot!SetPhase(r, s)
  <1>0. ranked \in [RankedGames -> RankedGameState] /\ s # "Absent"
    BY DEF SafeInv, TypeOK, AccountsTypeOK, RankedGameStatus
  <1>1. /\ ranked' = [ranked EXCEPT ![r].status = s] /\ Exists(r)
        /\ UNCHANGED <<user, bal>>
    BY DEF UpdateRankedGameStatus
  <1>2. \A q \in RankedGames : ranked'[q].status = IF q = r THEN s ELSE ranked[q].status
    BY <1>0, <1>1 DEF RankedGameState
  <1>3. \A q \in RankedGames : Exists(q)' <=> Exists(q)
    BY <1>0, <1>1, <1>2 DEF Exists
  <1>4. \A q \in RankedGames : PotOf(q)' = PotOf(q) /\ EntrantsOf(q)' = EntrantsOf(q)
    BY <1>1, <1>3 DEF PotOf, EntrantsOf, Escrow, RankedGamePda
  <1>5. phases' = [phases EXCEPT ![r] = s] /\ phases[r] # "Absent"
    BY <1>1, <1>2 DEF phases, Exists
  <1>6. pots' = pots /\ entrantSets' = entrantSets
    BY <1>4 DEF pots, entrantSets
  <1> QED  BY <1>5, <1>6 DEF Pot!SetPhase, phases, pots, entrantSets

LEMMA PotReward ==
    ASSUME SafeInv, NEW u \in UserAccounts, NEW r \in RankedGames,
           NEW bps \in PayoutBps, RewardWinner(u, r, bps)
    PROVE  Pot!PayOut(u, r)
  <1>0. /\ user \in [UserAccounts -> UserAccount] /\ SOL \in PaymentToken
        /\ ranked' = ranked
    BY DEF SafeInv, TypeOK, AccountsTypeOK, RewardWinner, Payable, PaymentToken
  <1>1. /\ ranked[r].status = "Finished" /\ Exists(r)
        /\ user[u].current_ranked_game = r
    BY DEF RewardWinner, Payable, Rewardable, Exists
  <1> DEFINE usd == PayoutUsd(Payout(r, bps))
  <1>2. user' = [user EXCEPT
                   ![u].total_usd_rewards_micro = user[u].total_usd_rewards_micro + usd,
                   ![u].total_wins = user[u].total_wins + 1,
                   ![u].current_ranked_game = DefaultKey]
    BY DEF RewardWinner, Payable, Rewarded
  <1> HIDE DEF usd
  <1>3. /\ user'[u].current_ranked_game \notin RankedGames
        /\ \A v \in UserAccounts : v # u => user'[v] = user[v]
    BY <1>0, <1>2, KeyAssumption DEF UserAccount
  <1>4. \A s \in RankedGames : EntrantsOf(s)' =
            IF s = r THEN EntrantsOf(s) \ {u} ELSE EntrantsOf(s)
    BY <1>0, <1>1, <1>3 DEF EntrantsOf, Exists
  <1>5. ASSUME NEW s \in RankedGames, s # r
        PROVE  PotOf(s)' = PotOf(s)
    <2>1. \A x \in PaymentToken : bal[Escrow(s)][x] \in Nat
      BY SafeFacts, Addresses DEF Ledgers
    <2>2. \A x \in PaymentToken : bal'[Escrow(s)][x] = bal[Escrow(s)][x]
      BY <1>5, <2>1, PayoutLedger
    <2> QED  BY <1>0, <2>2 DEF PotOf, Exists, Escrow, RankedGamePda
  <1>6. ASSUME NEW x \in PaymentToken
        PROVE  PotOf(r)'[x] \in 0..PotOf(r)[x]
    <2>1. /\ bal[Escrow(r)][x] \in Nat /\ bal'[Escrow(r)][x] \in Nat
          /\ bal'[Escrow(r)][x] <= bal[Escrow(r)][x]
      BY SafeFacts, PayoutLedger, Addresses DEF Ledgers
    <2>2. bal'[Escrow(r)][SOL] >= RENT_RANKED
      BY PayoutLedger
    <2> QED  BY <1>0, <1>1, <2>1, <2>2, RentAssumption DEF PotOf, Exists, Escrow, RankedGamePda
  <1>7. pots' = [pots EXCEPT ![r] = pots'[r]]
    BY <1>5 DEF pots
  <1>8. \A x \in PaymentToken : pots'[r][x] \in 0..pots[r][x]
    BY <1>6 DEF pots
  <1>9. entrantSets' = [entrantSets EXCEPT ![r] = entrantSets[r] \ {u}]
    BY <1>4 DEF entrantSets
  <1>11. u \in entrantSets[r]
    BY <1>1 DEF entrantSets, EntrantsOf
  <1>10. phases' = phases /\ phases[r] = "Finished"
    BY <1>0, <1>1 DEF phases
  <1> QED  BY <1>7, <1>8, <1>9, <1>10, <1>11 DEF Pot!PayOut, phases, pots, entrantSets

LEMMA PotClose ==
    ASSUME SafeInv, NEW r \in RankedGames, CloseRankedGame(r)
    PROVE  Pot!Sweep(r)
  <1>0. ranked \in [RankedGames -> RankedGameState]
    BY DEF SafeInv, TypeOK, AccountsTypeOK
  <1>1. /\ Exists(r) /\ ranked' = [ranked EXCEPT ![r] = NoRankedGame] /\ user' = user
    BY DEF CloseRankedGame, Closable
  <1>2. ranked'[r].status = "Absent" /\ ~Exists(r)'
        /\ \A s \in RankedGames : s # r => ranked'[s] = ranked[s]
    BY <1>0, <1>1 DEF NoRankedGame, Exists
  <1>3. \A s \in RankedGames : s # r => bal'[Escrow(s)] = bal[Escrow(s)]
    BY SafeFacts, CloseLedger DEF CloseRankedGame, Closable
  <1>4. \A s \in RankedGames : s # r =>
            PotOf(s)' = PotOf(s) /\ EntrantsOf(s)' = EntrantsOf(s)
    BY <1>1, <1>2, <1>3 DEF PotOf, EntrantsOf, Exists, Escrow, RankedGamePda
  <1>5. PotOf(r)' = [t \in PaymentToken |-> 0] /\ EntrantsOf(r)' = {}
    BY <1>2 DEF PotOf, EntrantsOf
  <1>6. phases' = [phases EXCEPT ![r] = "Absent"]
    BY <1>2 DEF phases
  <1>9. phases[r] # "Absent"
    BY <1>1 DEF phases, Exists
  <1>7. pots' = [pots EXCEPT ![r] = [t \in PaymentToken |-> 0]]
    BY <1>4, <1>5 DEF pots
  <1>8. entrantSets' = [entrantSets EXCEPT ![r] = {}]
    BY <1>4, <1>5 DEF entrantSets
  <1> QED  BY <1>6, <1>7, <1>8, <1>9 DEF Pot!Sweep, Pot!Empty, phases, pots, entrantSets

LEMMA PotStep ==
    ASSUME UniqueIds
    PROVE  SafeInv /\ EnrolInv /\ [Next]_vars => [Pot!PotNext]_(Pot!potVars)
  <1> SUFFICES ASSUME SafeInv, EnrolInv, [Next]_vars
               PROVE  Pot!PotNext \/ UNCHANGED Pot!potVars
    OBVIOUS
  <1>1. CASE OracleStep \/ UNCHANGED vars
    <2>1. /\ UNCHANGED <<ranked, user>>
          /\ \A r \in RankedGames : bal'[Escrow(r)] = bal[Escrow(r)]
      BY <1>1, SafeFacts, OracleLedger DEF vars
    <2>2. \A r \in RankedGames : PotOf(r)' = PotOf(r) /\ EntrantsOf(r)' = EntrantsOf(r)
      BY <2>1 DEF PotOf, EntrantsOf, Exists, Escrow, RankedGamePda
    <2> QED  BY <2>1, <2>2 DEF Pot!potVars
  <1>2. ASSUME NEW r \in RankedGames,
               \E g \in ParentGames, fee \in EntryFees : CreateRankedGame(r, g, fee)
        PROVE  Pot!PotNext
    BY <1>2, PotCreate DEF Pot!PotNext
  <1>3. ASSUME NEW r \in RankedGames,
               \E u \in UserAccounts, t \in PaymentToken : JoinRankedGame(u, r, t)
        PROVE  Pot!PotNext
    BY <1>3, PotJoin DEF Pot!PotNext
  <1>4. ASSUME NEW r \in RankedGames,
               \E s \in RankedGameStatus : UpdateRankedGameStatus(r, s)
        PROVE  Pot!PotNext
    BY <1>4, PotStatus DEF Pot!PotNext, RankedGameStatus
  <1>5. ASSUME NEW r \in RankedGames,
               \E u \in UserAccounts, bps \in PayoutBps : RewardWinner(u, r, bps)
        PROVE  Pot!PotNext
    BY <1>5, PotReward DEF Pot!PotNext
  <1>6. ASSUME NEW r \in RankedGames, CloseRankedGame(r)
        PROVE  Pot!PotNext
    BY <1>6, PotClose DEF Pot!PotNext
  <1> QED  BY <1>1, <1>2, <1>3, <1>4, <1>5, <1>6 DEF Next

\* As long as ids are not reused, a ranked game is a PrizePot: whatever the
\* prices, fees, rents and token accounts do, stakes go into one pot while it
\* is open, and only an entrant who has not moved on is paid, once, after it.
THEOREM Refinement == ASSUME UniqueIds PROVE Spec => ImplementsPrizePot
  BY PotInitial, PotStep, SafeAlways, EnrolAlways, PTL
     DEF Spec, ImplementsPrizePot, Pot!PotSpec
=============================================================================
