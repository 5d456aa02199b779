------------------------------- MODULE Vaults -------------------------------
(***************************************************************************)
(* What the program promises about the money of titles and accounts,       *)
(* without oracle, prices, ranked games, rent or token accounts: who pays  *)
(* into a vault may choose it, so anything may be filled at any time, but  *)
(* a reserve is only taken from to award a purse of its own title, and     *)
(* what is awarded arrives; any other vault only ever gives away all it    *)
(* has at once, the native asset to the outside and each of the others     *)
(* where its owner says, which may be another vault or the same one.       *)
(***************************************************************************)
EXTENDS Integers

CONSTANTS Vault, Asset, Native,
          Reserve,  \* the vaults nobody can empty
          Home      \* the pairs of a purse and the reserve that awards it

VARIABLE held  \* Vault -> Asset -> Nat

VaultInit == held \in [Vault -> [Asset -> Nat]]

\* Sales, entries and gifts.
Fill ==
    /\ held' \in [Vault -> [Asset -> Nat]]
    /\ \A v \in Vault, a \in Asset : held'[v][a] >= held[v][a]

\* What v holds of a after `out` of it left p and arrived at q.
After(p, q, v, a, out) ==
    held[v][a] - (IF v = p THEN out ELSE 0) + (IF v = q THEN out ELSE 0)

Leaves(p, a) ==
    \A v \in Vault : held'[v][a] = IF v = p THEN 0 ELSE held[v][a]

GoesTo(p, q, a) ==
    \A v \in Vault : held'[v][a] = After(p, q, v, a, held[p][a])

Withdraw(p) ==
    /\ held' \in [Vault -> [Asset -> Nat]]
    /\ Leaves(p, Native)
    /\ \A a \in Asset \ {Native} : Leaves(p, a) \/ \E q \in Vault : GoesTo(p, q, a)

\* What the purse gains is what the reserve loses.
Award(p, r) ==
    /\ held' \in [Vault -> [Asset -> Nat]]
    /\ \A a \in Asset, v \in Vault :
          held'[v][a] = After(r, p, v, a, held[r][a] - held'[r][a])
    /\ \A a \in Asset : held'[r][a] <= held[r][a]

VaultNext ==
    \/ Fill
    \/ \E p \in Vault \ Reserve : Withdraw(p)
    \/ \E pair \in Home : Award(pair[1], pair[2])

VaultSpec == VaultInit /\ [][VaultNext]_held
=============================================================================
