------------------------------- MODULE Supply -------------------------------
(***************************************************************************)
(* What there is of every token, for the conservation properties.          *)
(***************************************************************************)
EXTENDS Accounts, FiniteSetsExt

\* The balances of token t under the ledger b.
Balances(b, t) == [h \in Holder |-> b[h][t]]

SumOf(f, S) == MapThenSumSet(LAMBDA x : f[x], S)

Held(b, t) == SumOf(Balances(b, t), Holder)

\* All that holders own of t under the ledger b, with the rent locked in the
\* token accounts of a for SOL.
SupplyOf(b, a, t) ==
    Held(b, t) + IF t = SOL THEN RENT_ATA * Cardinality(a) ELSE 0
=============================================================================
