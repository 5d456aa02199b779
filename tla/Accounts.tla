------------------------------ MODULE Accounts ------------------------------
(***************************************************************************)
(* The on-chain state: the accounts whose layout src/src/state declares,   *)
(* and the balances the System and SPL Token programs keep for them.       *)
(*                                                                         *)
(* An instruction is one atomic step: the runtime undoes everything a      *)
(* failing instruction did, so the instructions that fail are not steps.   *)
(***************************************************************************)
EXTENDS IgpMath, FiniteSets

CONSTANTS
    SOL, SKR, SLICE, USDC,       \* PaymentToken
    Wallets, AUTHORITY,          \* key pairs, and the protocol's own
    Games, UserAccounts, RankedGames,  \* the titles, (owner, game, timestamp)
                                 \* triples and ids that PDAs are derived from
    DefaultKey,                  \* Pubkey::default()
    RENT_ORACLE, RENT_RANKED, RENT_USER, RENT_ATA, RENT_EMPTY,
    RENT_GAME_V1, RENT_GAME      \* rent-exempt minimum of the oracle, a ranked
                                 \* game, a user account, a token account, an
                                 \* empty account, a game in its two layouts

\* A key is 32 bytes and an id 8, so there are finitely many addresses.
ASSUME KeyAssumption ==
    /\ AUTHORITY \in Wallets
    /\ IsFiniteSet(Wallets) /\ IsFiniteSet(Games)
    /\ IsFiniteSet(RankedGames) /\ IsFiniteSet(UserAccounts)
    /\ DefaultKey \notin Wallets \cup Games \cup UserAccounts \cup RankedGames
    /\ Games \cap UserAccounts = {}

ASSUME TokenAssumption ==
    /\ SOL \notin {SKR, SLICE, USDC} /\ USDC \notin {SKR, SLICE} /\ SKR # SLICE

ASSUME RentAssumption ==
    /\ RENT_ORACLE \in Nat /\ RENT_RANKED \in Nat /\ RENT_USER \in Nat
    /\ RENT_ATA \in Nat /\ RENT_EMPTY \in Nat
    /\ RENT_GAME_V1 \in Nat /\ RENT_GAME \in Nat /\ RENT_GAME_V1 <= RENT_GAME

VARIABLES
    oracle,  \* the oracle PDA
    game,    \* game PDAs
    user,    \* user account PDAs
    ranked,  \* ranked game PDAs
    bal,     \* bal[h][t]: lamports of h, or base units in the ATA of h for t
    ata      \* the associated token accounts that exist

accountVars == <<oracle, game, user, ranked, bal, ata>>

----------------------------------------------------------------------------
Mints == {SKR, SLICE, USDC}
PaymentToken == {SOL} \cup Mints
OraclePriced == {SOL, SKR, SLICE}

(***************************************************************************)
(* Addresses. PDA derivation is collision free, so an address is the seed  *)
(* prefix with the value it is derived from.                               *)
(***************************************************************************)
OraclePda == <<"igp_oracle">>
WalletOf(w) == <<"wallet", w>>
GamePda(g) == <<"igp_game", g>>
GameProtocolPda(g) == <<"igp_game_protocol", g>>
UserAccountPda(u) == <<"igp_user", u>>
RankedGamePda(r) == <<"igp_ranked_game", r>>

Holder == {OraclePda} \cup ({"wallet"} \X Wallets) \cup ({"igp_game"} \X Games)
            \cup ({"igp_game_protocol"} \X Games)
            \cup ({"igp_user"} \X UserAccounts)
            \cup ({"igp_ranked_game"} \X RankedGames)

\* Open .. Finished are the code's; Absent: no account lives at the address.
RankedGameStatus == {"Open", "InProgress", "Finished"}

\* What an account can name as its title. The handlers that write this field
\* read the account they are given but do not compare its address, and a user
\* account's data begins with bytes that read as a title's.
GameKeys == Games \cup UserAccounts

RankedGameState ==
    [game : GameKeys \cup {DefaultKey}, entry_fee : 0..U64MAX,
     participant_count : 0..U32MAX, status : RankedGameStatus \cup {"Absent"}]

NoRankedGame == [game |-> DefaultKey, entry_fee |-> 0,
                 participant_count |-> 0, status |-> "Absent"]

\* total_usd_spent_bytes: the middle bytes of total_usd_spent_micro, which no
\* instruction writes as such; they are where a title keeps its total_users.
UserAccount ==
    [is_initialized : BOOLEAN, owner : Wallets \cup {DefaultKey},
     game : GameKeys \cup {DefaultKey},
     current_ranked_game : RankedGames \cup {DefaultKey},
     total_ranked_games_played : 0..U32MAX, total_wins : 0..U32MAX,
     total_usd_rewards_micro : 0..U64MAX, total_usd_spent_bytes : 0..U32MAX]

NoUserAccount ==
    [is_initialized |-> FALSE, owner |-> DefaultKey, game |-> DefaultKey,
     current_ranked_game |-> DefaultKey, total_ranked_games_played |-> 0,
     total_wins |-> 0, total_usd_rewards_micro |-> 0, total_usd_spent_bytes |-> 0]

\* V1 is the layout of GameAccountV1, shorter and without cost and counters;
\* V2 the current one. Absent: no account lives at the address.
GameAccount ==
    [version : {"Absent", "V1", "V2"}, owner : Wallets \cup {DefaultKey},
     dev_fee_bps : 0..U16MAX, game_to_protocol_share_bps : 0..U16MAX,
     game_cost : 0..U64MAX, total_users : 0..U32MAX]

NoGame ==
    [version |-> "Absent", owner |-> DefaultKey, dev_fee_bps |-> 0,
     game_to_protocol_share_bps |-> 0, game_cost |-> 0, total_users |-> 0]

OraclePriceState ==
    [initialized : BOOLEAN, price : [OraclePriced -> 0..U64MAX]]

NoTokens == [t \in PaymentToken |-> 0]

\* The account's data is a GameAccount, to the last byte (try_from_slice): a V1
\* account is too short and a user account too long.
GameLoads(k) == k \in Games /\ game[k].version = "V2"

\* The account's data begins with a GameAccount (deserialize), with its
\* is_initialized where a user account has it.
GameReads(k) == GameLoads(k) \/ (k \in UserAccounts /\ user[k].is_initialized)

----------------------------------------------------------------------------
AccountsTypeOK ==
    /\ oracle \in OraclePriceState
    /\ game \in [Games -> GameAccount]
    /\ user \in [UserAccounts -> UserAccount]
    /\ ranked \in [RankedGames -> RankedGameState]
    /\ bal \in [Holder -> [PaymentToken -> Nat]]
    /\ ata \in SUBSET (Holder \X Mints)

(***************************************************************************)
(* The ledger, as the transfers of the program use it. A transfer of t     *)
(* needs the ATA of both ends (native SOL has none) and the full amount.   *)
(***************************************************************************)
CanHold(h, t) == t = SOL \/ <<h, t>> \in ata

\* The ATAs of h for the mints of M that are still to be created.
MissingAtas(h, M) == {m \in M : <<h, m>> \notin ata}

OpenAtas(h) == {m \in Mints : <<h, m>> \in ata}

\* The ledger b after x of t went from one account to another, or to itself.
Transferred(b, from, to, t, x) ==
    [h \in Holder |-> [s \in PaymentToken |->
        b[h][s] - (IF h = from /\ s = t THEN x ELSE 0) + (IF h = to /\ s = t THEN x ELSE 0)]]

\* Lamports above a rent floor, which an account may give away (saturating_sub).
Surplus(h, floor) == IF bal[h][SOL] > floor THEN bal[h][SOL] - floor ELSE 0

\* What an account can give away of t when it must keep `floor` lamports.
Withdrawable(h, floor, t) == IF t = SOL THEN Surplus(h, floor) ELSE bal[h][t]

\* The ledger after h gave `out` away, each token t to the account to[t].
Emptied(h, out, to) ==
    [k \in Holder |-> [t \in PaymentToken |->
        bal[k][t] - (IF k = h THEN out[t] ELSE 0) + (IF k = to[t] THEN out[t] ELSE 0)]]

\* A slip the properties must notice: the rent is given away as well.
DrainedWithRent(h, floor, to) == Emptied(h, bal[h], to)

\* A slip the properties must notice: none of the calls sweeps the SOL.
DrainedOfTokens(h, floor, to) ==
    Emptied(h, [t \in PaymentToken |-> IF t = SOL THEN 0 ELSE bal[h][t]], to)

\* The ledger after all tokens of h and its surplus SOL went where `to` says.
Drained(h, floor, to) ==
    Emptied(h, [t \in PaymentToken |-> Withdrawable(h, floor, t)], to)

\* The SOL goes to the signer's wallet; where the tokens of a mint go is the
\* signer's to say, to a token account of anybody's, also back to h's own.
Directed(w, dst) == [t \in PaymentToken |-> IF t = SOL THEN WalletOf(w) ELSE dst[t]]

\* Only a token account that holds something needs one to go to.
CanDrainTo(h, dst) == \A m \in Mints : bal[h][m] > 0 => CanHold(dst[m], m)
=============================================================================
