------------------------------- MODULE Oracle -------------------------------
(***************************************************************************)
(* The price oracle: a single PDA. Every conversion between US dollars and *)
(* tokens reads it at the moment the instruction runs.                     *)
(*                                                                         *)
(* The handlers compare the authority's key and do not ask for its         *)
(* signature (assert_authority), so the update has no actor: whoever names *)
(* the authority's account sets the prices. The lamports of the creation   *)
(* are the authority's, which the System program asks to sign.             *)
(***************************************************************************)
EXTENDS Accounts

CONSTANT PriceInputs  \* the price triples InitOracle and the update are given

ASSUME PriceInputsAssumption == PriceInputs \subseteq [OraclePriced -> 0..U64MAX]

\* No price of the triple is zero.
AllPositive(price) == \A t \in OraclePriced : price[t] # 0

\* load_oracle succeeds: the account exists at its PDA with its discriminator.
OracleLoads == oracle.initialized

\* Micro-USD for one whole token (TokenBase(t) units), as usd_cents_to_base_units
\* and the credits of tokens take it; the layout calls it the price of an atom.
PriceFor(t) == IF t = USDC THEN USD_MICRO ELSE oracle.price[t]

TokenBase(t) == IF t = SOL THEN SOL_BASE ELSE SPL_BASE

InitOracle(price) ==
    /\ ~oracle.initialized
    /\ AllPositive(price)
    /\ bal[OraclePda][SOL] = 0
    /\ bal[WalletOf(AUTHORITY)][SOL] >= RENT_ORACLE
    /\ bal' = [bal EXCEPT ![WalletOf(AUTHORITY)][SOL] = @ - RENT_ORACLE,
                          ![OraclePda][SOL] = @ + RENT_ORACLE]
    /\ oracle' = [initialized |-> TRUE, price |-> price]
    /\ UNCHANGED <<game, user, ranked, ata>>

UpdateOraclePrices(price) ==
    /\ AllPositive(price)
    /\ OracleLoads
    /\ oracle' = [oracle EXCEPT !.price = price]
    /\ UNCHANGED <<game, user, ranked, bal, ata>>

OracleInit == oracle = [initialized |-> FALSE, price |-> [t \in OraclePriced |-> 0]]

OracleNext == \E price \in PriceInputs : InitOracle(price) \/ UpdateOraclePrices(price)

\* What a conversion relies on: a loaded oracle never divides by zero.
OracleOK == oracle.initialized => AllPositive(oracle.price)
=============================================================================
