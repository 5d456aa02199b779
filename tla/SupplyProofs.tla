---------------------------- MODULE SupplyProofs ----------------------------
(***************************************************************************)
(* Sums over the holders: what a sum over a finite set is, how it follows  *)
(* a change of one of its terms, and from that what a transfer does to the *)
(* supply of a token.                                                      *)
(***************************************************************************)
EXTENDS Supply, FiniteSetTheorems, TLAPS

----------------------------------------------------------------------------
(* Sums over a finite set. *)

\* s gives every subset of S its sum, whichever element is taken out first.
IsSum(s, f, S) ==
    /\ s \in [SUBSET S -> Int]
    /\ s[{}] = 0
    /\ \A T \in SUBSET S : \A x \in T : s[T] = f[x] + s[T \ {x}]

\* Induction over the subsets of a finite set, as a minimal counterexample: the
\* induction theorems of the library take the predicate as an operator.
LEMMA Minimal ==
    ASSUME NEW S, IsFiniteSet(S), NEW B \in SUBSET (SUBSET S), B # {}
    PROVE  \E T \in B : \A U \in B : U \subseteq T => U = T
<1>1. B \subseteq FiniteSubsetsOf(S)  BY FS_FiniteSubsetsOfFinite
<1>2. PICK T \in B : \A U \in B : <<U, T>> \notin StrictSubsetOrdering(S)
  BY <1>1, WFMin, FS_StrictSubsetOrderingWellFounded
<1>3. ASSUME NEW U \in B, U \subseteq T, U # T PROVE FALSE
  BY <1>2, <1>3 DEF StrictSubsetOrdering
<1> QED BY <1>3

\* The sum of a part is taken from the sums of the parts without one element,
\* so that the order of the elements does not matter.
LEMMA SumExists ==
    ASSUME NEW S, IsFiniteSet(S), NEW f \in [S -> Int]
    PROVE  \E s : IsSum(s, f, S)
<1> DEFINE B == {T \in SUBSET S : ~ \E s : IsSum(s, f, T)}
<1>1. SUFFICES ASSUME B # {} PROVE FALSE  OBVIOUS
<1>2. PICK T \in B : \A U \in B : U \subseteq T => U = T
  <2>1. B \in SUBSET (SUBSET S) OBVIOUS
  <2> HIDE DEF B
  <2> QED BY <1>1, <2>1, Minimal
<1>3. T # {}
  <2>1. IsSum([U \in {{}} |-> 0], f, {})  BY DEF IsSum
  <2> QED BY <2>1
<1>4. PICK x \in T : TRUE  BY <1>3
<1>5. PICK s : IsSum(s, f, T \ {x})  BY <1>2
<1> DEFINE r == [U \in SUBSET T |-> IF x \in U THEN f[x] + s[U \ {x}] ELSE s[U]]
<1>6. IsSum(r, f, T)
  <2>1. \A U \in SUBSET T : U \ {x} \in SUBSET (T \ {x})  OBVIOUS
  <2>2. \A U \in SUBSET T : x \notin U => U \in SUBSET (T \ {x})  OBVIOUS
  <2>3. f[x] \in Int /\ \A y \in T : f[y] \in Int  OBVIOUS
  <2>4. r \in [SUBSET T -> Int]  BY <2>1, <2>2, <2>3, <1>5 DEF IsSum
  <2>5. r[{}] = 0  BY <1>5 DEF IsSum
  <2>6. ASSUME NEW U \in SUBSET T, NEW y \in U PROVE r[U] = f[y] + r[U \ {y}]
    <3>1. CASE x \notin U
      <4>1. s[U] = f[y] + s[U \ {y}]  BY <3>1, <2>2, <1>5 DEF IsSum
      <4> QED BY <4>1, <3>1
    <3>2. CASE x \in U /\ y = x  BY <3>2
    <3>3. CASE x \in U /\ y # x
      <4>1. s[U \ {x}] = f[y] + s[(U \ {x}) \ {y}]  BY <3>3, <2>1, <1>5 DEF IsSum
      <4>2. (U \ {x}) \ {y} = (U \ {y}) \ {x}  OBVIOUS
      <4>3. s[(U \ {x}) \ {y}] \in Int  BY <2>1, <1>5, <4>2 DEF IsSum
      <4>4. r[U] = f[x] + s[U \ {x}] /\ r[U \ {y}] = f[x] + s[(U \ {y}) \ {x}]  BY <3>3
      <4>5. f[x] \in Int /\ f[y] \in Int  BY <3>3
      <4> HIDE DEF r
      <4>6. r[U] = f[x] + (f[y] + s[(U \ {y}) \ {x}])  BY <4>1, <4>2, <4>4
      <4>7. s[(U \ {y}) \ {x}] \in Int  BY <4>2, <4>3
      <4> QED BY <4>4, <4>5, <4>6, <4>7
    <3> QED BY <3>1, <3>2, <3>3
  <2> QED BY <2>4, <2>5, <2>6 DEF IsSum
<1> QED BY <1>6

\* The fold that SumOf is defined by computes these sums.
LEMMA SumIs ==
    ASSUME NEW S, IsFiniteSet(S), NEW f \in [S -> Int], NEW s, IsSum(s, f, S)
    PROVE  SumOf(f, S) = s[S]
<1> DEFINE Unfold(g) == [T \in SUBSET S |-> IF T = {} THEN 0
                ELSE f[CHOOSE x \in T : TRUE] + g[T \ {CHOOSE x \in T : TRUE}]]
<1> DEFINE iter == CHOOSE g : g = Unfold(g)
<1>1. s = Unfold(s)
  <2>1. ASSUME NEW T \in SUBSET S, T # {}
        PROVE  s[T] = f[CHOOSE x \in T : TRUE] + s[T \ {CHOOSE x \in T : TRUE}]
    BY <2>1 DEF IsSum
  <2> QED BY <2>1 DEF IsSum
<1>2. iter = Unfold(iter)  BY <1>1
<1>3. SumOf(f, S) = iter[S]
  BY DEF SumOf, MapThenSumSet, MapThenFoldSet
<1>4. \A T \in SUBSET S : iter[T] = s[T]
  <2> DEFINE B == {T \in SUBSET S : iter[T] # s[T]}
  <2>1. SUFFICES ASSUME B # {} PROVE FALSE  OBVIOUS
  <2>2. PICK T \in B : \A U \in B : U \subseteq T => U = T
    <3>1. B \in SUBSET (SUBSET S) OBVIOUS
    <3> HIDE DEF B
    <3> QED BY <2>1, <3>1, Minimal
  <2>4. T # {}  BY <1>1, <1>2
  <2>5. PICK y \in T : y = CHOOSE x \in T : TRUE BY <2>4
  <2>6. iter[T \ {y}] = s[T \ {y}]
    <3>1. T \ {y} \in SUBSET S /\ T \ {y} # T /\ T \ {y} \subseteq T  BY <2>5
    <3> HIDE DEF iter
    <3> QED BY <2>2, <3>1
  <2>7. iter[T] = f[y] + iter[T \ {y}]  BY <1>2, <2>4, <2>5
  <2>8. s[T] = f[y] + s[T \ {y}] BY <2>5 DEF IsSum
  <2> QED BY <2>2, <2>6, <2>7, <2>8
<1> QED BY <1>3, <1>4

\* What the whole sum owes to the value at one element.
LEMMA SumChangedAt ==
    ASSUME NEW S, IsFiniteSet(S), NEW f \in [S -> Int], NEW g \in [S -> Int],
           NEW x \in S, \A y \in S \ {x} : g[y] = f[y]
    PROVE  /\ SumOf(f, S) \in Int
           /\ SumOf(g, S) = SumOf(f, S) - f[x] + g[x]
<1>1. PICK s : IsSum(s, f, S)  BY SumExists
<1> DEFINE r == [T \in SUBSET S |-> IF x \in T THEN s[T] - f[x] + g[x] ELSE s[T]]
<1>2. s \in [SUBSET S -> Int] /\ f[x] \in Int /\ g[x] \in Int  BY <1>1 DEF IsSum
<1>3. IsSum(r, g, S)
  <2>1. r \in [SUBSET S -> Int] /\ r[{}] = 0  BY <1>1, <1>2 DEF IsSum
  <2>2. ASSUME NEW T \in SUBSET S, NEW y \in T PROVE r[T] = g[y] + r[T \ {y}]
    <3>1. T \ {y} \in SUBSET S /\ s[T] = f[y] + s[T \ {y}]  BY <1>1 DEF IsSum
    <3>2. s[T] \in Int /\ s[T \ {y}] \in Int /\ f[y] \in Int /\ g[y] \in Int  BY <1>2, <3>1
    <3>3. CASE y = x  BY <1>2, <3>1, <3>2, <3>3
    <3>4. CASE y # x
      <4>1. g[y] = f[y]  BY <3>4
      <4>2. CASE x \in T
        <5>1. r[T] = s[T] - f[x] + g[x] /\ r[T \ {y}] = s[T \ {y}] - f[x] + g[x]
          BY <3>1, <3>4, <4>2
        <5> HIDE DEF r
        <5> QED BY <1>2, <3>1, <3>2, <4>1, <5>1
      <4>3. CASE x \notin T  BY <3>1, <4>1, <4>3
      <4> QED BY <4>2, <4>3
    <3> QED BY <3>3, <3>4
  <2> QED BY <2>1, <2>2 DEF IsSum
<1>4. SumOf(f, S) = s[S] /\ SumOf(g, S) = r[S]  BY <1>1, <1>3, SumIs
<1> QED BY <1>2, <1>4

----------------------------------------------------------------------------
(* The supply. *)

\* There are finitely many addresses.
LEMMA HolderFinite == IsFiniteSet(Holder)
<1>1. \A p, S : IsFiniteSet(S) => IsFiniteSet({p} \X S)
  BY FS_Product, FS_Singleton
<1>2. IsFiniteSet({OraclePda})  BY FS_Singleton
<1> QED  BY <1>1, <1>2, KeyAssumption, FS_Union DEF Holder

LEMMA AtasFinite ==
    ASSUME NEW a \in SUBSET (Holder \X Mints)
    PROVE  IsFiniteSet(a)
<1>1. IsFiniteSet(Mints)
  <2>1. IsFiniteSet({SKR}) /\ IsFiniteSet({SLICE}) /\ IsFiniteSet({USDC})  BY FS_Singleton
  <2>2. Mints = {SKR} \cup ({SLICE} \cup {USDC})  BY DEF Mints
  <2> QED  BY <2>1, <2>2, FS_Union
<1> QED  BY <1>1, HolderFinite, FS_Product, FS_Subset

\* Ledgers whose balances may be negative, as in the midst of a transfer.
Accounting == [Holder -> [PaymentToken -> Int]]

LEMMA HeldIsInt ==
    ASSUME NEW b \in Accounting, NEW t \in PaymentToken
    PROVE  Held(b, t) \in Int
<1>1. Balances(b, t) \in [Holder -> Int]  BY DEF Balances, Accounting
<1>2. OraclePda \in Holder  BY DEF Holder
<1> QED  BY <1>1, <1>2, HolderFinite, SumChangedAt DEF Held

\* A ledger in which one holder has another balance of t.
LEMMA OneHeld ==
    ASSUME NEW b \in Accounting, NEW c \in Accounting, NEW t \in PaymentToken,
           NEW h \in Holder, \A k \in Holder \ {h} : c[k][t] = b[k][t]
    PROVE  Held(c, t) = Held(b, t) + (c[h][t] - b[h][t])
<1>1. Balances(b, t) \in [Holder -> Int] /\ Balances(c, t) \in [Holder -> Int]
  BY DEF Balances, Accounting
<1>2. \A k \in Holder \ {h} : Balances(c, t)[k] = Balances(b, t)[k]  BY DEF Balances
<1>3. Balances(b, t)[h] = b[h][t] /\ Balances(c, t)[h] = c[h][t]  BY DEF Balances
<1>4. Held(c, t) = Held(b, t) - b[h][t] + c[h][t]
  BY <1>1, <1>2, <1>3, HolderFinite, SumChangedAt DEF Held
<1>5. b[h][t] \in Int /\ c[h][t] \in Int /\ Held(b, t) \in Int
  BY HeldIsInt DEF Accounting
<1> QED  BY <1>4, <1>5

\* The ledger on the way to c, after the balance of h.
LEMMA Midway ==
    ASSUME NEW b \in Accounting, NEW c \in Accounting, NEW t \in PaymentToken,
           NEW h \in Holder
    PROVE  \E m \in Accounting :
               /\ m[h][t] = c[h][t] /\ \A k \in Holder \ {h} : m[k][t] = b[k][t]
               /\ Held(m, t) = Held(b, t) + (c[h][t] - b[h][t])
<1> DEFINE m == [b EXCEPT ![h][t] = c[h][t]]
<1>1. m \in Accounting /\ m[h][t] = c[h][t] /\ \A k \in Holder \ {h} : m[k][t] = b[k][t]
  BY DEF Accounting
<1> HIDE DEF m
<1>2. Held(m, t) = Held(b, t) + (m[h][t] - b[h][t])  BY <1>1, OneHeld
<1> QED  BY <1>1, <1>2 DEF m

\* Two, three or four holders have another balance of t.
LEMMA TwoHeld ==
    ASSUME NEW b \in Accounting, NEW c \in Accounting, NEW t \in PaymentToken,
           NEW h \in Holder, NEW i \in Holder, h # i,
           \A k \in Holder \ {h, i} : c[k][t] = b[k][t]
    PROVE  Held(c, t) = Held(b, t) + (c[h][t] - b[h][t]) + (c[i][t] - b[i][t])
<1>1. PICK m \in Accounting :
         /\ m[h][t] = c[h][t] /\ \A k \in Holder \ {h} : m[k][t] = b[k][t]
         /\ Held(m, t) = Held(b, t) + (c[h][t] - b[h][t])
  BY Midway
<1>2. Held(c, t) = Held(m, t) + (c[i][t] - m[i][t])  BY <1>1, OneHeld
<1>3. m[i][t] = b[i][t]  BY <1>1
<1> QED  BY <1>1, <1>2, <1>3

LEMMA ThreeHeld ==
    ASSUME NEW b \in Accounting, NEW c \in Accounting, NEW t \in PaymentToken,
           NEW h \in Holder, NEW i \in Holder, NEW j \in Holder,
           h # i, h # j, i # j, \A k \in Holder \ {h, i, j} : c[k][t] = b[k][t]
    PROVE  Held(c, t) = Held(b, t) + (c[h][t] - b[h][t]) + (c[i][t] - b[i][t])
                                   + (c[j][t] - b[j][t])
<1>1. PICK m \in Accounting :
         /\ m[h][t] = c[h][t] /\ \A k \in Holder \ {h} : m[k][t] = b[k][t]
         /\ Held(m, t) = Held(b, t) + (c[h][t] - b[h][t])
  BY Midway
<1>2. Held(c, t) = Held(m, t) + (c[i][t] - m[i][t]) + (c[j][t] - m[j][t])
  BY <1>1, TwoHeld
<1>3. m[i][t] = b[i][t] /\ m[j][t] = b[j][t]  BY <1>1
<1> QED  BY <1>1, <1>2, <1>3

LEMMA FourHeld ==
    ASSUME NEW b \in Accounting, NEW c \in Accounting, NEW t \in PaymentToken,
           NEW h \in Holder, NEW i \in Holder, NEW j \in Holder, NEW l \in Holder,
           h # i, h # j, h # l, i # j, i # l, j # l,
           \A k \in Holder \ {h, i, j, l} : c[k][t] = b[k][t]
    PROVE  Held(c, t) = Held(b, t) + (c[h][t] - b[h][t]) + (c[i][t] - b[i][t])
                                   + (c[j][t] - b[j][t]) + (c[l][t] - b[l][t])
<1>1. PICK m \in Accounting :
         /\ m[h][t] = c[h][t] /\ \A k \in Holder \ {h} : m[k][t] = b[k][t]
         /\ Held(m, t) = Held(b, t) + (c[h][t] - b[h][t])
  BY Midway
<1>2. Held(c, t) = Held(m, t) + (c[i][t] - m[i][t]) + (c[j][t] - m[j][t])
                              + (c[l][t] - m[l][t])
  BY <1>1, ThreeHeld
<1>3. m[i][t] = b[i][t] /\ m[j][t] = b[j][t] /\ m[l][t] = b[l][t]  BY <1>1
<1> QED  BY <1>1, <1>2, <1>3

\* Opening the token accounts of x, whose rent somebody paid, keeps the supply.
LEMMA SupplyOpened ==
    ASSUME NEW a \in SUBSET (Holder \X Mints), NEW x \in SUBSET (Holder \X Mints),
           a \cap x = {}, NEW b \in Accounting, NEW c \in Accounting,
           \A t \in PaymentToken :
              Held(c, t) = Held(b, t) - IF t = SOL THEN RENT_ATA * Cardinality(x) ELSE 0
    PROVE  \A t \in PaymentToken : SupplyOf(c, a \cup x, t) = SupplyOf(b, a, t)
<1>1. IsFiniteSet(a) /\ IsFiniteSet(x)  BY AtasFinite
<1>2. Cardinality(a) \in Nat /\ Cardinality(x) \in Nat  BY <1>1, FS_CardinalityType
<1>3. Cardinality(a \cup x) = Cardinality(a) + Cardinality(x)
  BY <1>1, <1>2, FS_Union, FS_EmptySet
<1>4. \A m, n \in Nat : RENT_ATA * (m + n) = RENT_ATA * m + RENT_ATA * n
                          /\ RENT_ATA * m \in Nat
  BY RentAssumption
<1> DEFINE ra == RENT_ATA * Cardinality(a)
           rx == RENT_ATA * Cardinality(x)
<1>5. RENT_ATA * Cardinality(a \cup x) = ra + rx /\ ra \in Nat /\ rx \in Nat
  BY <1>2, <1>3, <1>4
<1>6. \A t \in PaymentToken : Held(b, t) \in Int /\ Held(c, t) \in Int
                             /\ Held(c, t) = Held(b, t) - IF t = SOL THEN rx ELSE 0
  BY HeldIsInt
<1> HIDE DEF ra, rx
<1>7. \A t \in PaymentToken :
         Held(c, t) + (IF t = SOL THEN ra + rx ELSE 0) = Held(b, t) + IF t = SOL THEN ra ELSE 0
  BY <1>5, <1>6
<1> QED  BY <1>5, <1>7 DEF SupplyOf, ra

\* Closing the token accounts of x, whose rent somebody got, keeps it, too.
LEMMA SupplyClosed ==
    ASSUME NEW a \in SUBSET (Holder \X Mints), NEW x \in SUBSET a,
           NEW b \in Accounting, NEW c \in Accounting,
           \A t \in PaymentToken :
              Held(c, t) = Held(b, t) + IF t = SOL THEN RENT_ATA * Cardinality(x) ELSE 0
    PROVE  \A t \in PaymentToken : SupplyOf(c, a \ x, t) = SupplyOf(b, a, t)
<1> DEFINE rx == RENT_ATA * Cardinality(x)
<1>1. rx \in Nat
  BY RentAssumption, AtasFinite, FS_CardinalityType
<1>2. \A t \in PaymentToken : Held(b, t) \in Int /\ Held(c, t) \in Int
                             /\ Held(c, t) = Held(b, t) + IF t = SOL THEN rx ELSE 0
  BY HeldIsInt
<1> HIDE DEF rx
<1>3. \A t \in PaymentToken : Held(b, t) = Held(c, t) - IF t = SOL THEN rx ELSE 0
  BY <1>1, <1>2
<1>4. /\ (a \ x) \cup x = a /\ (a \ x) \cap x = {}
      /\ a \ x \in SUBSET (Holder \X Mints) /\ x \in SUBSET (Holder \X Mints)
  OBVIOUS
<1>5. \A t \in PaymentToken :
         Held(b, t) = Held(c, t) - IF t = SOL THEN RENT_ATA * Cardinality(x) ELSE 0
  BY <1>3 DEF rx
<1>6. \A t \in PaymentToken : SupplyOf(b, (a \ x) \cup x, t) = SupplyOf(c, a \ x, t)
  BY <1>4, <1>5, SupplyOpened
<1> QED  BY <1>4, <1>6

\* No token account is opened or closed.
LEMMA SupplyMoved ==
    ASSUME NEW a, NEW b, NEW c, \A t \in PaymentToken : Held(c, t) = Held(b, t)
    PROVE  \A t \in PaymentToken : SupplyOf(c, a, t) = SupplyOf(b, a, t)
  BY DEF SupplyOf

\* The token accounts of one holder are as many as their mints.
LEMMA AtasOfOne ==
    ASSUME NEW h \in Holder, NEW M \in SUBSET Mints
    PROVE  /\ {h} \X M \in SUBSET (Holder \X Mints)
           /\ Cardinality({h} \X M) = Cardinality(M) /\ Cardinality(M) \in Nat
<1>1. IsFiniteSet(Mints)
  <2>1. IsFiniteSet({SKR}) /\ IsFiniteSet({SLICE}) /\ IsFiniteSet({USDC})  BY FS_Singleton
  <2>2. Mints = {SKR} \cup ({SLICE} \cup {USDC})  BY DEF Mints
  <2> QED  BY <2>1, <2>2, FS_Union
<1>2. IsFiniteSet(M) /\ Cardinality(M) \in Nat  BY <1>1, FS_Subset, FS_CardinalityType
<1>3. IsFiniteSet({h}) /\ Cardinality({h}) = 1  BY FS_Singleton
<1>4. Cardinality({h} \X M) = Cardinality({h}) * Cardinality(M)  BY <1>2, <1>3, FS_Product
<1> QED  BY <1>2, <1>3, <1>4
=============================================================================
