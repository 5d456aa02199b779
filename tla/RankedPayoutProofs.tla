------------------------- MODULE RankedPayoutProofs -------------------------
(***************************************************************************)
(* What the authority can always do with the pools of a ranked game: sweep *)
(* them, or pay all of them to an entrant; and what such a payout is       *)
(* credited as. For any players, tokens, prices, rents and widths.         *)
(***************************************************************************)
EXTENDS RankedGameProofs

----------------------------------------------------------------------------
(* Closing *)

\* The authority has a token account of every mint when the program starts to
\* be used, as its clients set it up.
AuthorityReceives == \A m \in Mints : <<Treasury, m>> \in GenesisAta

TreasuryOpen == \A m \in Mints : <<Treasury, m>> \in ata

\* The program closes token accounts of escrows only.
LEMMA WalletAtasKept ==
    ASSUME [Next]_vars, NEW w \in Wallets, NEW m \in Mints, <<WalletOf(w), m>> \in ata
    PROVE  <<WalletOf(w), m>> \in ata'
  <1>1. CASE ata \subseteq ata'
    BY <1>1
  <1>2. CASE UNCHANGED ata
    BY <1>2
  <1>3. CASE OracleStep \/ UNCHANGED vars
    BY <1>2, <1>3 DEF OracleStep, OracleNext, InitOracle, UpdateOraclePrices, vars
  <1>4. ASSUME NEW r \in RankedGames, NEW g \in ParentGames, NEW fee \in EntryFees,
               CreateRankedGame(r, g, fee)
        PROVE  ata \subseteq ata'
    BY <1>4 DEF CreateRankedGame, OpenedAtas
  <1>5. ASSUME NEW r \in RankedGames, NEW u \in UserAccounts, NEW t \in PaymentToken,
               JoinRankedGame(u, r, t)
        PROVE  UNCHANGED ata
    BY <1>5 DEF JoinRankedGame, ProcessRankedEntryPayment
  <1>6. ASSUME NEW r \in RankedGames, NEW s \in RankedGameStatus,
               UpdateRankedGameStatus(r, s)
        PROVE  UNCHANGED ata
    BY <1>6 DEF UpdateRankedGameStatus
  <1>7. ASSUME NEW r \in RankedGames, NEW u \in UserAccounts, NEW bps \in PayoutBps,
               RewardWinner(u, r, bps)
        PROVE  ata \subseteq ata'
    BY <1>7 DEF RewardWinner
  <1>8. ASSUME NEW r \in RankedGames, CloseRankedGame(r)
        PROVE  <<WalletOf(w), m>> \in ata'
    <2>1. ata' = ata \ ({Escrow(r)} \X Mints)
      BY <1>8 DEF CloseRankedGame
    <2> QED  BY <2>1, Addresses
  <1> QED  BY <1>1, <1>2, <1>3, <1>4, <1>5, <1>6, <1>7, <1>8 DEF Next

LEMMA TreasuryStep == ASSUME TreasuryOpen, [Next]_vars PROVE TreasuryOpen'
  <1>1. \A m \in Mints : <<Treasury, m>> \in ata'
    BY WalletAtasKept, KeyAssumption DEF TreasuryOpen, Treasury
  <1> QED  BY <1>1 DEF TreasuryOpen, Treasury, WalletOf

LEMMA OpenRecovers == TreasuryOpen => FundsRecoverable
  BY DEF TreasuryOpen, FundsRecoverable, Closable, Sweepable, CanHold, OpenAtas

\* However a ranked game got stuck, in whatever status and with whatever in
\* its pools, the authority that had its token accounts at first can close it:
\* no instruction takes them away.
THEOREM RecoverySound == ASSUME AuthorityReceives PROVE Spec => []FundsRecoverable
  <1>1. Init => TreasuryOpen
    BY DEF Init, TreasuryOpen, AuthorityReceives
  <1> QED  BY <1>1, TreasuryStep, OpenRecovers, PTL DEF Spec

----------------------------------------------------------------------------
(* Paying all of it *)

\* Nobody enters a game before there are prices, and they never go away.
PricedBeforeEntry ==
    \A u \in UserAccounts : user[u].current_ranked_game # DefaultKey => OracleLoads

LEMMA PricedInit == Init => PricedBeforeEntry
  BY GenesisAssumption DEF Init, PricedBeforeEntry

LEMMA PricedStep ==
    ASSUME SafeInv, PricedBeforeEntry, [Next]_vars
    PROVE  PricedBeforeEntry'
  <1>0. /\ user \in [UserAccounts -> UserAccount] /\ oracle \in OraclePriceState
    BY DEF SafeInv, TypeOK, AccountsTypeOK
  <1> SUFFICES ASSUME NEW v \in UserAccounts, user'[v].current_ranked_game # DefaultKey
               PROVE  oracle'.initialized
    BY DEF PricedBeforeEntry, OracleLoads
  <1>1. user[v].current_ranked_game # DefaultKey => oracle.initialized
    BY DEF PricedBeforeEntry, OracleLoads
  <1>2. CASE OracleStep
    <2>1. PICK price \in PriceInputs : InitOracle(price) \/ UpdateOraclePrices(price)
      BY <1>2 DEF OracleStep, OracleNext
    <2>2. CASE InitOracle(price)
      BY <2>2 DEF InitOracle
    <2>3. CASE UpdateOraclePrices(price)
      <3>1. oracle' = [oracle EXCEPT !.price = price] /\ oracle.initialized
        BY <2>3 DEF UpdateOraclePrices, OracleLoads
      <3> QED  BY <1>0, <3>1 DEF OraclePriceState
    <2> QED  BY <2>1, <2>2, <2>3
  <1>3. ASSUME NEW r \in RankedGames, NEW u \in UserAccounts, NEW t \in PaymentToken,
               JoinRankedGame(u, r, t)
        PROVE  oracle'.initialized
    BY <1>3 DEF JoinRankedGame, ProcessRankedEntryPayment, OracleLoads
  <1>4. ASSUME NEW r \in RankedGames, NEW u \in UserAccounts, NEW bps \in PayoutBps,
               RewardWinner(u, r, bps)
        PROVE  oracle'.initialized
    BY <1>4 DEF RewardWinner, Payable, OracleLoads
  <1>5. ASSUME NEW r \in RankedGames,
               \/ \E g \in ParentGames, fee \in EntryFees : CreateRankedGame(r, g, fee)
               \/ \E s \in RankedGameStatus : UpdateRankedGameStatus(r, s)
               \/ CloseRankedGame(r)
        PROVE  user' = user /\ oracle' = oracle
    BY <1>5 DEF CreateRankedGame, UpdateRankedGameStatus, CloseRankedGame
  <1>6. CASE UNCHANGED vars
    BY <1>1, <1>6 DEF vars
  <1> QED  BY <1>1, <1>2, <1>3, <1>4, <1>5, <1>6 DEF Next

\* A winner is short of three token accounts at most.
LEMMA ThreeRents == \A M \in SUBSET Mints : RENT_ATA * Cardinality(M) <= 3 * RENT_ATA
  <1>1. IsFiniteSet({SKR}) /\ Cardinality({SKR}) = 1
    BY FS_Singleton
  <1>2. /\ IsFiniteSet({SKR} \cup {SLICE})
        /\ Cardinality({SKR} \cup {SLICE}) <= 2 /\ Cardinality({SKR} \cup {SLICE}) \in Nat
    BY <1>1, FS_AddElement
  <1>3. /\ IsFiniteSet(({SKR} \cup {SLICE}) \cup {USDC})
        /\ Cardinality(({SKR} \cup {SLICE}) \cup {USDC}) <= 3
        /\ Cardinality(({SKR} \cup {SLICE}) \cup {USDC}) \in Nat
    BY <1>2, FS_AddElement
  <1>4. Mints = ({SKR} \cup {SLICE}) \cup {USDC}
    BY DEF Mints
  <1>5. IsFiniteSet(Mints) /\ Cardinality(Mints) <= 3 /\ Cardinality(Mints) \in Nat
    BY <1>3, <1>4
  <1>6. ASSUME NEW M \in SUBSET Mints
        PROVE  RENT_ATA * Cardinality(M) <= 3 * RENT_ATA
    <2>1. Cardinality(M) \in Nat /\ Cardinality(M) <= Cardinality(Mints)
      BY <1>5, FS_Subset, FS_CardinalityType
    <2>2. Cardinality(M) \in {0, 1, 2, 3}
      BY <1>5, <2>1
    <2> QED  BY <2>2, RentAssumption
  <1> QED  BY <1>6

\* Only the comparison before a CPI can refuse what an entrant is owed.
LEMMA OwedPayable ==
    ASSUME SafeInv, WinsBounded, PricedBeforeEntry,
           NEW u \in UserAccounts, NEW r \in RankedGames, Owed(u, r),
           LamportsSettledBeforeCpi(Payout(r, BPS_DENOMINATOR))
    PROVE  Payable(u, r, BPS_DENOMINATOR)
  <1> DEFINE w == user[u].owner
             paid == Payout(r, BPS_DENOMINATOR)
  <1>1. /\ Rewardable(u, r) /\ Exists(r) /\ user[u].is_initialized
        /\ user[u].current_ranked_game = r
    BY DEF Owed, Rewardable, Exists
  <1>2. OracleLoads /\ r # DefaultKey
    BY <1>1, KeyAssumption DEF PricedBeforeEntry
  <1>3. w \in Wallets /\ bal \in Ledgers /\ bal[Escrow(r)][SOL] >= RENT_RANKED
    BY <1>1, SafeFacts
  <1>4. paid \in [PaymentToken -> Nat]
    BY <1>3, PayoutBound, ScaleAssumption
  <1>5. WinnerRent(w, paid) <= 3 * RENT_ATA /\ WinnerRent(w, paid) \in Nat
    <2>1. WinnerAtas(w, paid) \in SUBSET Mints
      BY DEF WinnerAtas, MissingAtas
    <2> QED  BY <2>1, ThreeRents, RentIsNat DEF WinnerRent
  <1>6. /\ bal[Treasury][SOL] >= 3 * RENT_ATA
        /\ FitsU64(user[u].total_usd_rewards_micro + PayoutUsd(paid))
    BY DEF Owed
  <1> HIDE DEF w, paid
  <1>7. PaidOut(r, w, paid)[Treasury][SOL] >= bal[Treasury][SOL]
    <2>1. /\ Treasury \in Holder /\ SOL \in PaymentToken /\ Treasury # Escrow(r)
          /\ bal[Treasury][SOL] \in Nat /\ paid[SOL] \in Nat
      BY <1>3, <1>4, Addresses DEF PaymentToken, Ledgers
    <2>2. CASE WalletOf(w) = Treasury
      <3>1. PaidOut(r, w, paid)[Treasury][SOL] = bal[Treasury][SOL] + paid[SOL]
        BY <1>3, <2>1, <2>2 DEF PaidOut, Ledgers
      <3> QED  BY <2>1, <3>1
    <2>3. CASE WalletOf(w) # Treasury
      <3>1. PaidOut(r, w, paid)[Treasury][SOL] = bal[Treasury][SOL]
        BY <1>3, <2>1, <2>3 DEF PaidOut, Ledgers
      <3> QED  BY <2>1, <3>1
    <2> QED  BY <2>2, <2>3
  <1>8. PaidOut(r, w, paid)[Treasury][SOL] >= WinnerRent(w, paid)
    <2>1. /\ bal[Treasury][SOL] \in Nat /\ PaidOut(r, w, paid)[Treasury][SOL] \in Int
      <3>1. /\ Treasury \in Holder /\ SOL \in PaymentToken /\ Treasury # Escrow(r)
            /\ bal[Treasury][SOL] \in Nat /\ paid[SOL] \in Nat
        BY <1>3, <1>4, Addresses DEF PaymentToken, Ledgers
      <3>2. \/ PaidOut(r, w, paid)[Treasury][SOL] = bal[Treasury][SOL] + paid[SOL]
            \/ PaidOut(r, w, paid)[Treasury][SOL] = bal[Treasury][SOL]
        BY <1>3, <3>1 DEF PaidOut, Ledgers
      <3> QED  BY <3>1, <3>2
    <2> QED  BY <1>5, <1>6, <1>7, <2>1, RentAssumption
  <1>9. user[u].total_wins < U32MAX
    <2>1. /\ user[u].total_wins \in Nat /\ user[u].total_ranked_games_played \in 0..U32MAX
      BY WidthAssumption DEF SafeInv, TypeOK, AccountsTypeOK, UserAccount
    <2>2. user[u].total_wins + 1 <= user[u].total_ranked_games_played
      BY <1>1, <1>2 DEF WinsBounded
    <2> QED  BY <2>1, <2>2, WidthAssumption
  <1>10. BPS_DENOMINATOR <= BPS_DENOMINATOR
    BY ScaleAssumption
  <1> QED  BY <1>1, <1>2, <1>6, <1>8, <1>9, <1>10 DEF Payable, w, paid

LEMMA PayableInv ==
    ASSUME SafeInv, WinsBounded, PricedBeforeEntry
    PROVE  UnmixedWinnerPayable
  <1> SUFFICES ASSUME NEW u \in UserAccounts, NEW r \in RankedGames, Owed(u, r),
                      SolPool(r) = 0 \/ \A m \in Mints : SplPool(r, m) = 0
               PROVE  Payable(u, r, BPS_DENOMINATOR)
    BY DEF UnmixedWinnerPayable
  <1>1. BpsOf(0, BPS_DENOMINATOR) = 0
    <2>1. BPS_DENOMINATOR \in Nat /\ 0 \in Nat /\ BPS_DENOMINATOR <= BPS_DENOMINATOR
      BY ScaleAssumption
    <2>2. BpsOf(0, BPS_DENOMINATOR) \in 0..0
      BY <2>1, BpsBound
    <2> QED  BY <2>2
  <1>2. /\ SOL \in PaymentToken
        /\ \A m \in Mints : m \in PaymentToken /\ m # SOL
    BY TokenAssumption DEF PaymentToken, Mints
  <1>3. /\ Payout(r, BPS_DENOMINATOR)[SOL] = BpsOf(SolPool(r), BPS_DENOMINATOR)
        /\ \A m \in Mints :
              Payout(r, BPS_DENOMINATOR)[m] = BpsOf(SplPool(r, m), BPS_DENOMINATOR)
    BY <1>2 DEF Payout
  <1>4. LamportsSettledBeforeCpi(Payout(r, BPS_DENOMINATOR))
    BY <1>1, <1>3 DEF LamportsSettledBeforeCpi
  <1> QED  BY <1>4, OwedPayable

\* Whatever prices, players and rents: the pools of a game that were filled in
\* SOL only, or in tokens only, can be paid out in full to any entrant that is
\* owed them. The oracle was there before the first entry; the entry that was
\* counted leaves room for the win.
THEOREM PayoutSound == Spec => []UnmixedWinnerPayable
  BY PricedInit, PricedStep, PayableInv, WinsSound, SafeAlways, PTL DEF Spec

\* Why a winner is refused, exactly: an entrant that is owed the pools can be
\* paid all of them unless the runtime refuses the token transfers after the
\* lamports moved. No price, rent, counter or missing account is in the way.
THEOREM OnlyCpiRefuses ==
    Spec => [](\A u \in UserAccounts, r \in RankedGames :
                  Owed(u, r) =>
                     (Payable(u, r, BPS_DENOMINATOR)
                        <=> LamportsSettledBeforeCpi(Payout(r, BPS_DENOMINATOR))))
  <1> DEFINE Exactly ==
        \A u \in UserAccounts, r \in RankedGames :
           Owed(u, r) =>
              (Payable(u, r, BPS_DENOMINATOR)
                 <=> LamportsSettledBeforeCpi(Payout(r, BPS_DENOMINATOR)))
  <1>1. SafeInv /\ WinsBounded /\ PricedBeforeEntry => Exactly
    BY OwedPayable DEF Payable
  <1> HIDE DEF Exactly
  <1>2. Spec => []Exactly
    BY <1>1, PricedInit, PricedStep, WinsSound, SafeAlways, PTL DEF Spec
  <1> QED  BY <1>2 DEF Exactly

----------------------------------------------------------------------------
(* What a payout is worth *)

\* Clipping the terms of a sum first changes nothing when the sum is clipped.
LEMMA SaturatedSum ==
    ASSUME NEW a \in Nat, NEW b \in Nat, NEW c \in Nat, NEW d \in Nat
    PROVE  Saturate(Saturate(a) + Saturate(b) + Saturate(c) + Saturate(d))
             = Saturate(a + b + c + d)
  BY WidthAssumption DEF Saturate

\* A value in micro-USD is a natural.
LEMMA WorthIsNat ==
    ASSUME SafeInv, NEW paid \in [PaymentToken -> Nat]
    PROVE  \A t \in PaymentToken : (paid[t] * PriceFor(t)) \div TokenBase(t) \in Nat
  <1>1. \A n \in Nat, k \in Nat, d \in Nat \ {0} : (n * k) \div d \in Nat
    <2> SUFFICES ASSUME NEW n \in Nat, NEW k \in Nat, NEW d \in Nat \ {0}
                 PROVE  (n * k) \div d \in Nat
      OBVIOUS
    <2>1. n * k \in Nat
      BY SMT
    <2> QED  BY <2>1, SMT
  <1>2. \A t \in PaymentToken : PriceFor(t) \in Nat /\ TokenBase(t) \in Nat \ {0}
    BY SafeFacts, ScaleAssumption DEF TokenBase
  <1> QED  BY <1>1, <1>2

LEMMA TokenPayoutWorth ==
    ASSUME SafeInv, NEW paid \in [PaymentToken -> Nat], paid[SOL] = 0
    PROVE  PayoutUsd(paid) = Saturate(ValueOf(paid))
  <1> DEFINE worth(t) == (paid[t] * PriceFor(t)) \div TokenBase(t)
  <1>1. /\ SOL \in PaymentToken /\ SKR \in PaymentToken
        /\ SLICE \in PaymentToken /\ USDC \in PaymentToken
        /\ SOL # SKR /\ SOL # SLICE /\ SOL # USDC
    BY TokenAssumption DEF PaymentToken, Mints
  <1>2. /\ TokenBase(SKR) = SPL_BASE /\ TokenBase(SLICE) = SPL_BASE
        /\ TokenBase(USDC) = SPL_BASE /\ TokenBase(SOL) = SOL_BASE
    BY <1>1 DEF TokenBase
  <1>3. \A t \in PaymentToken : worth(t) \in Nat
    BY WorthIsNat
  <1>4. ValueOf(paid) = worth(SOL) + worth(SKR) + worth(SLICE) + worth(USDC)
    BY DEF ValueOf
  <1>5. worth(SOL) = 0 /\ SolUsdOfRankedPayout(paid[SOL], PriceFor(SOL)) = Saturate(0)
    <2>1. PriceFor(SOL) \in Nat /\ SOL_BASE \in Nat \ {0}
      BY <1>1, SafeFacts, ScaleAssumption
    <2>2. paid[SOL] * PriceFor(SOL) = 0
      BY <2>1
    <2>3. 0 \div SOL_BASE = 0
      BY <2>1, SMT
    <2> QED  BY <1>2, <2>2, <2>3 DEF SolUsdOfRankedPayout
  <1>6. PayoutUsd(paid) = Saturate(Saturate(0) + Saturate(worth(USDC))
                                     + Saturate(worth(SKR)) + Saturate(worth(SLICE)))
    BY <1>2, <1>5 DEF PayoutUsd, SplUsd
  <1> HIDE DEF worth
  <1>7. /\ worth(USDC) \in Nat /\ worth(SKR) \in Nat /\ worth(SLICE) \in Nat
    BY <1>1, <1>3
  <1>8. Saturate(Saturate(0) + Saturate(worth(USDC)) + Saturate(worth(SKR))
                   + Saturate(worth(SLICE)))
          = Saturate(0 + worth(USDC) + worth(SKR) + worth(SLICE))
    BY <1>7, SaturatedSum
  <1>9. 0 + worth(USDC) + worth(SKR) + worth(SLICE)
          = worth(SOL) + worth(SKR) + worth(SLICE) + worth(USDC)
    BY <1>5, <1>7
  <1> QED  BY <1>4, <1>6, <1>8, <1>9

\* Who wins was paid from the pools of the game it entered, and credited.
LEMMA WinPaid ==
    ASSUME SafeInv, [Next]_vars, NEW u \in UserAccounts,
           user'[u].total_wins > user[u].total_wins
    PROVE  LET paid == PaidFrom(user[u].current_ranked_game)
           IN  /\ paid \in [PaymentToken -> Nat]
               /\ user'[u].total_usd_rewards_micro
                    = user[u].total_usd_rewards_micro + PayoutUsd(paid)
  <1>0. /\ user \in [UserAccounts -> UserAccount] /\ user[u].total_wins \in Nat
        /\ ~(user[u].total_wins > user[u].total_wins)
    BY WidthAssumption DEF SafeInv, TypeOK, AccountsTypeOK, UserAccount
  <1>1. ASSUME NEW r \in RankedGames, NEW v \in UserAccounts, NEW bps \in PayoutBps,
               RewardWinner(v, r, bps)
        PROVE  LET paid == PaidFrom(user[u].current_ranked_game)
               IN  /\ paid \in [PaymentToken -> Nat]
                   /\ user'[u].total_usd_rewards_micro
                        = user[u].total_usd_rewards_micro + PayoutUsd(paid)
    <2> DEFINE paid == Payout(r, bps)
               usd == PayoutUsd(paid)
    <2>1. /\ user[v].current_ranked_game = r
          /\ user' = [user EXCEPT
                        ![v].total_usd_rewards_micro = user[v].total_usd_rewards_micro + usd,
                        ![v].total_wins = user[v].total_wins + 1,
                        ![v].current_ranked_game = DefaultKey]
      BY <1>1 DEF RewardWinner, Payable, Rewardable, Rewarded
    <2> HIDE DEF usd
    <2>2. u = v
      BY <1>0, <2>1
    <2>3. /\ bal \in Ledgers /\ bal' \in Ledgers /\ paid \in [PaymentToken -> Nat]
          /\ \A x \in PaymentToken : bal'[Escrow(r)][x] = bal[Escrow(r)][x] - paid[x]
      BY <1>1, SafeFacts, PayoutLedger
    <2>4. paid = [t \in PaymentToken |-> paid[t]]
      BY DEF Payout
    <2>5. PaidFrom(r) = [t \in PaymentToken |-> bal[Escrow(r)][t] - bal'[Escrow(r)][t]]
      BY DEF PaidFrom, Escrow, RankedGamePda
    <2> HIDE DEF paid
    <2>6. \A t \in PaymentToken : bal[Escrow(r)][t] \in Nat /\ paid[t] \in Nat
      BY <2>3, Addresses DEF Ledgers
    <2>7. \A t \in PaymentToken : bal[Escrow(r)][t] - bal'[Escrow(r)][t] = paid[t]
      BY <2>3, <2>6
    <2>8. PaidFrom(r) = paid
      BY <2>4, <2>5, <2>7
    <2>9. user'[u].total_usd_rewards_micro = user[u].total_usd_rewards_micro + usd
      BY <1>0, <2>1, <2>2 DEF UserAccount
    <2> QED  BY <2>1, <2>2, <2>3, <2>8, <2>9 DEF usd
  <1>2. ASSUME NEW r \in RankedGames, NEW v \in UserAccounts, NEW t \in PaymentToken,
               JoinRankedGame(v, r, t)
        PROVE  FALSE
    <2>1. user' = [user EXCEPT ![v].current_ranked_game = r,
                               ![v].total_ranked_games_played =
                                  user[v].total_ranked_games_played + 1]
      BY <1>2 DEF JoinRankedGame, Enrolled
    <2>2. user'[u].total_wins = user[u].total_wins
      BY <1>0, <2>1 DEF UserAccount
    <2> QED  BY <1>0, <2>2
  <1>3. ASSUME NEW r \in RankedGames,
               \/ \E g \in ParentGames, fee \in EntryFees : CreateRankedGame(r, g, fee)
               \/ \E s \in RankedGameStatus : UpdateRankedGameStatus(r, s)
               \/ CloseRankedGame(r)
        PROVE  user' = user
    BY <1>3 DEF CreateRankedGame, UpdateRankedGameStatus, CloseRankedGame
  <1>4. CASE OracleStep \/ UNCHANGED vars
    <2>1. user' = user
      BY <1>4 DEF OracleStep, OracleNext, InitOracle, UpdateOraclePrices, vars
    <2> QED  BY <1>0, <2>1
  <1> QED  BY <1>0, <1>1, <1>2, <1>3, <1>4 DEF Next

LEMMA TokenPayoutStep ==
    ASSUME SafeInv, [Next]_vars, NEW u \in UserAccounts,
           user'[u].total_wins > user[u].total_wins,
           PaidFrom(user[u].current_ranked_game)[SOL] = 0
    PROVE  user'[u].total_usd_rewards_micro - user[u].total_usd_rewards_micro
             = Saturate(ValueOf(PaidFrom(user[u].current_ranked_game)))
  <1> DEFINE paid == PaidFrom(user[u].current_ranked_game)
  <1>1. /\ paid \in [PaymentToken -> Nat] /\ paid[SOL] = 0
        /\ user'[u].total_usd_rewards_micro
             = user[u].total_usd_rewards_micro + PayoutUsd(paid)
    BY WinPaid
  <1> HIDE DEF paid
  <1>2. PayoutUsd(paid) = Saturate(ValueOf(paid))
    BY <1>1, TokenPayoutWorth
  <1>3. ValueOf(paid) \in Int
    <2>1. /\ SOL \in PaymentToken /\ SKR \in PaymentToken
          /\ SLICE \in PaymentToken /\ USDC \in PaymentToken
      BY DEF PaymentToken, Mints
    <2> DEFINE worth(t) == (paid[t] * PriceFor(t)) \div TokenBase(t)
    <2>2. /\ worth(SOL) \in Nat /\ worth(SKR) \in Nat
          /\ worth(SLICE) \in Nat /\ worth(USDC) \in Nat
      BY <1>1, <2>1, WorthIsNat
    <2>3. ValueOf(paid) = worth(SOL) + worth(SKR) + worth(SLICE) + worth(USDC)
      BY DEF ValueOf
    <2> HIDE DEF worth
    <2> QED  BY <2>2, <2>3
  <1>4. Saturate(ValueOf(paid)) \in Int
    BY <1>3, WidthAssumption DEF Saturate
  <1>5. user[u].total_usd_rewards_micro \in Nat
    BY WidthAssumption DEF SafeInv, TypeOK, AccountsTypeOK, UserAccount
  <1> QED  BY <1>1, <1>2, <1>4, <1>5 DEF paid

\* A winner that is paid in tokens only is credited what left the pools, at
\* the prices and bases it was charged at, for any of them: the unit of the
\* SOL price is all that can make the credit wrong.
THEOREM TokenPayoutSound == Spec => TokenPayoutExact
  <1> DEFINE Exact == \A u \in UserAccounts :
          LET paid == PaidFrom(user[u].current_ranked_game)
          IN  user'[u].total_wins > user[u].total_wins /\ paid[SOL] = 0 =>
                 user'[u].total_usd_rewards_micro - user[u].total_usd_rewards_micro
                    = Saturate(ValueOf(paid))
  <1>1. SafeInv /\ [Next]_vars => [Exact]_vars
    BY TokenPayoutStep
  <1> HIDE DEF Exact
  <1>2. Spec => [][Exact]_vars
    BY <1>1, SafeAlways, PTL DEF Spec
  <1> QED  BY <1>2 DEF Exact, TokenPayoutExact
=============================================================================
