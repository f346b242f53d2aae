----------------------------- MODULE SumsProofs -----------------------------
(***************************************************************************)
(* The laws of Total that the proofs about the shop's tables cite: a sum   *)
(* over a finite table is a natural number, changes by what one row        *)
(* changes, and grows with its summands.                                   *)
(***************************************************************************)
EXTENDS Sums, FiniteSetTheorems, FunctionTheorems, TLAPS

\* The units of a finite table are a finite set.
LEMMA UnitsFinite ==
    ASSUME NEW S, IsFiniteSet(S), NEW f \in [S -> Nat]
    PROVE  IsFiniteSet(Units(f))
<1> DEFINE row == [x \in S |-> {x} \X (1 .. f[x])]
           rows == {{x} \X (1 .. f[x]) : x \in S}
<1>1. \A x \in S : IsFiniteSet({x} \X (1 .. f[x]))
  <2> TAKE x \in S
  <2>1. IsFiniteSet({x})
    BY FS_Singleton
  <2>2. IsFiniteSet(1 .. f[x])
    BY FS_Interval, f[x] \in Nat
  <2> QED BY <2>1, <2>2, FS_Product
<1>2. row \in Surjection(S, rows)
  BY DEF Surjection
<1>3. IsFiniteSet(rows)
  BY <1>2, FS_Surjection
<1>4. \A R \in rows : IsFiniteSet(R)
  BY <1>1
<1>5. IsFiniteSet(UNION rows)
  <2> HIDE DEF rows
  <2> QED BY <1>3, <1>4, FS_UNION
<1>6. Units(f) = UNION rows
  BY DEF Units
<1> QED BY <1>5, <1>6

\* A sum is a natural number.
THEOREM TotalType ==
    ASSUME NEW S, IsFiniteSet(S), NEW f \in [S -> Nat]
    PROVE  Total(f) \in Nat
BY UnitsFinite, FS_CardinalityType DEF Total

\* The units of one row are as many as the row's number.
LEMMA RowUnits ==
    ASSUME NEW x, NEW n \in Nat
    PROVE  /\ IsFiniteSet({x} \X (1 .. n))
           /\ Cardinality({x} \X (1 .. n)) = n
<1>1. IsFiniteSet({x}) /\ Cardinality({x}) = 1
  BY FS_Singleton
<1>2. IsFiniteSet(1 .. n) /\ Cardinality(1 .. n) = n
  BY FS_Interval
<1> DEFINE A == {x}  B == 1 .. n
<1>3. IsFiniteSet(A \X B) /\ Cardinality(A \X B) = Cardinality(A) * Cardinality(B)
  <2> HIDE DEF A, B
  <2> QED BY <1>1, <1>2, FS_Product DEF A, B
<1> QED BY <1>1, <1>2, <1>3

\* A sum is one row plus the sum of the other rows.
LEMMA TotalSplit ==
    ASSUME NEW S, IsFiniteSet(S), NEW f \in [S -> Nat], NEW x \in S
    PROVE  LET rest == UNION {{y} \X (1 .. f[y]) : y \in S \ {x}}
           IN  /\ IsFiniteSet(rest)
               /\ Cardinality(rest) \in Nat
               /\ Total(f) = Cardinality(rest) + f[x]
<1> DEFINE rest == UNION {{y} \X (1 .. f[y]) : y \in S \ {x}}
           row == {x} \X (1 .. f[x])
<1>1. Units(f) = rest \cup row
  BY DEF Units
<1>2. rest \cap row = {}
  OBVIOUS
<1>3. IsFiniteSet(rest)
  <2>1. rest \subseteq Units(f)
    BY <1>1
  <2> QED BY <2>1, UnitsFinite, FS_Subset
<1>4. IsFiniteSet(row) /\ Cardinality(row) = f[x]
  BY RowUnits, f[x] \in Nat
<1>5. Cardinality(rest) \in Nat
  BY <1>3, FS_CardinalityType
<1>6. Cardinality(rest \cup row)
        = Cardinality(rest) + Cardinality(row) - Cardinality(rest \cap row)
  <2> HIDE DEF rest, row
  <2> QED BY <1>3, <1>4, FS_Union
<1>7. Cardinality(rest \cap row) = 0
  <2> HIDE DEF rest, row
  <2> QED BY <1>2, FS_EmptySet
<1>8. Total(f) = Cardinality(rest) + f[x]
  <2>1. Total(f) = Cardinality(rest \cup row)
    BY <1>1 DEF Total
  <2> HIDE DEF rest, row
  <2> QED BY <2>1, <1>4, <1>5, <1>6, <1>7, f[x] \in Nat
<1> QED BY <1>3, <1>5, <1>8

\* When one row changes, the sum changes by what the row changes.
THEOREM TotalChange ==
    ASSUME NEW S, IsFiniteSet(S), NEW f \in [S -> Nat], NEW g \in [S -> Nat],
           NEW x \in S, \A y \in S \ {x} : g[y] = f[y]
    PROVE  /\ Total(f) \in Nat /\ Total(g) \in Nat
           /\ Total(g) = Total(f) - f[x] + g[x]
<1> DEFINE rest(h) == UNION {{y} \X (1 .. h[y]) : y \in S \ {x}}
<1>1. rest(f) = rest(g)
  OBVIOUS
<1>2. Cardinality(rest(f)) \in Nat /\ Total(f) = Cardinality(rest(f)) + f[x]
  BY TotalSplit
<1>3. Cardinality(rest(g)) \in Nat /\ Total(g) = Cardinality(rest(g)) + g[x]
  BY TotalSplit
<1> HIDE DEF rest
<1> QED BY <1>1, <1>2, <1>3, f[x] \in Nat, g[x] \in Nat

\* A sum of zeros is zero.
THEOREM TotalZero ==
    ASSUME NEW S, NEW f \in [S -> Nat], \A x \in S : f[x] = 0
    PROVE  Total(f) = 0
<1>1. Units(f) = {}
  BY DEF Units
<1> QED BY <1>1, FS_EmptySet DEF Total

\* A sum is at least each of its rows.
THEOREM TotalBounds ==
    ASSUME NEW S, IsFiniteSet(S), NEW f \in [S -> Nat], NEW x \in S
    PROVE  f[x] <= Total(f)
<1> DEFINE rest == UNION {{y} \X (1 .. f[y]) : y \in S \ {x}}
<1>1. Cardinality(rest) \in Nat /\ Total(f) = Cardinality(rest) + f[x]
  BY TotalSplit
<1> HIDE DEF rest
<1> QED BY <1>1, f[x] \in Nat

\* A sum grows with its rows.
THEOREM TotalMonotone ==
    ASSUME NEW S, IsFiniteSet(S), NEW f \in [S -> Nat], NEW g \in [S -> Nat],
           \A x \in S : f[x] <= g[x]
    PROVE  Total(f) <= Total(g)
<1>1. Units(f) \subseteq Units(g)
  BY DEF Units
<1> QED BY <1>1, UnitsFinite, FS_Subset DEF Total
-----------------------------------------------------------------------------
(***************************************************************************)
(* Sums of groups.  Rows that are sorted into groups by a key have as many *)
(* units as their groups together.                                         *)
(***************************************************************************)

\* The rows of f whose key is t.
Group(f, key, t) == [x \in DOMAIN f |-> IF key[x] = t THEN f[x] ELSE 0]

\* The units of a group are the units of the sum whose row has its key.
LEMMA GroupUnits ==
    ASSUME NEW S, IsFiniteSet(S), NEW f \in [S -> Nat], NEW key, NEW t
    PROVE  /\ Group(f, key, t) \in [S -> Nat]
           /\ Units(Group(f, key, t)) = {u \in Units(f) : key[u[1]] = t}
           /\ IsFiniteSet(Units(Group(f, key, t)))
           /\ Total(Group(f, key, t)) = Cardinality(Units(Group(f, key, t)))
<1>1. Group(f, key, t) \in [S -> Nat]
  BY DEF Group
<1>2. Units(Group(f, key, t)) = {u \in Units(f) : key[u[1]] = t}
  <2>1. DOMAIN Group(f, key, t) = S /\ DOMAIN f = S
    BY <1>1
  <2>2. \A x \in S : Group(f, key, t)[x] = IF key[x] = t THEN f[x] ELSE 0
    BY DEF Group
  <2>3. ASSUME NEW u
        PROVE  u \in Units(Group(f, key, t))
                  <=> u \in Units(f) /\ key[u[1]] = t
    BY <2>1, <2>2 DEF Units
  <2> QED BY <2>3
<1> QED BY <1>1, <1>2, UnitsFinite DEF Total

\* A finite set fits into an interval that is no shorter, and the other way
\* round.
LEMMA FitsInterval ==
    ASSUME NEW U, IsFiniteSet(U), NEW n \in Nat, Cardinality(U) <= n
    PROVE  \E j : j \in Injection(U, 1 .. n)
<1>1. Cardinality(U) \in Nat /\ ExistsBijection(1 .. Cardinality(U), U)
  BY FS_CardinalityType
<1>2. PICK b : b \in Bijection(1 .. Cardinality(U), U)
  BY <1>1 DEF ExistsBijection
<1>3. Inverse(b, 1 .. Cardinality(U), U) \in Bijection(U, 1 .. Cardinality(U))
  BY <1>2, Fun_BijInverse
<1>4. 1 .. Cardinality(U) \subseteq 1 .. n
  BY <1>1
<1> QED BY <1>3, <1>4 DEF Bijection, Injection, IsInjective

LEMMA IntervalFits ==
    ASSUME NEW U, IsFiniteSet(U), NEW n \in Nat, n <= Cardinality(U)
    PROVE  \E j : j \in Injection(1 .. n, U)
<1>1. Cardinality(U) \in Nat /\ ExistsBijection(1 .. Cardinality(U), U)
  BY FS_CardinalityType
<1>2. PICK b : b \in Bijection(1 .. Cardinality(U), U)
  BY <1>1 DEF ExistsBijection
<1>3. 1 .. n \subseteq 1 .. Cardinality(U)
  BY <1>1
<1>4. [i \in 1 .. n |-> b[i]] \in Injection(1 .. n, U)
  BY <1>2, <1>3 DEF Bijection, Injection, IsInjective
<1> QED BY <1>4

\* If no group has more units than its number in h, neither has the sum.
THEOREM TotalOfGroups ==
    ASSUME NEW S, IsFiniteSet(S), NEW f \in [S -> Nat],
           NEW T, IsFiniteSet(T), NEW h \in [T -> Nat], NEW key,
           \A x \in S : f[x] > 0 => key[x] \in T,
           \A t \in T : Total(Group(f, key, t)) <= h[t]
    PROVE  Total(f) <= Total(h)
<1> DEFINE U(t) == Units(Group(f, key, t))
           j == [t \in T |-> CHOOSE m : m \in Injection(U(t), 1 .. h[t])]
           m == [u \in Units(f) |-> <<key[u[1]], j[key[u[1]]][u]>>]
<1>1. \A t \in T : j[t] \in Injection(U(t), 1 .. h[t])
  <2> SUFFICES ASSUME NEW t \in T PROVE \E n : n \in Injection(U(t), 1 .. h[t])
    OBVIOUS
  <2>1. IsFiniteSet(U(t)) /\ Cardinality(U(t)) <= h[t] /\ h[t] \in Nat
    BY GroupUnits
  <2> HIDE DEF U
  <2> QED BY <2>1, FitsInterval
<1>2. \A u \in Units(f) : key[u[1]] \in T /\ u \in U(key[u[1]])
  <2> TAKE u \in Units(f)
  <2>1. u[1] \in S /\ f[u[1]] > 0
    BY DEF Units
  <2> QED BY <2>1, GroupUnits
<1>3. Units(h) = {w \in T \X Nat : w[2] \in 1 .. h[w[1]]}
  BY DEF Units
<1> HIDE DEF U, j
<1>4. \A u \in Units(f) : j[key[u[1]]][u] \in 1 .. h[key[u[1]]]
  BY <1>1, <1>2 DEF Injection
<1>5. m \in [Units(f) -> Units(h)]
  BY <1>2, <1>3, <1>4
<1>6. \A u, w \in Units(f) : m[u] = m[w] => u = w
  <2> SUFFICES ASSUME NEW u \in Units(f), NEW w \in Units(f), m[u] = m[w]
               PROVE  u = w
    OBVIOUS
  <2>1. key[u[1]] = key[w[1]] /\ j[key[u[1]]][u] = j[key[u[1]]][w]
    OBVIOUS
  <2> QED BY <1>1, <1>2, <2>1 DEF Injection, IsInjective
<1>7. m \in Injection(Units(f), Units(h))
  BY <1>5, <1>6, Fun_IsInj
<1> QED BY <1>7, UnitsFinite, FS_Injection DEF Total

\* If every group has at least the units of its number in h, so has the sum.
THEOREM GroupsOfTotal ==
    ASSUME NEW S, IsFiniteSet(S), NEW f \in [S -> Nat],
           NEW T, IsFiniteSet(T), NEW h \in [T -> Nat], NEW key,
           \A t \in T : h[t] <= Total(Group(f, key, t))
    PROVE  Total(h) <= Total(f)
<1> DEFINE U(t) == Units(Group(f, key, t))
           j == [t \in T |-> CHOOSE m : m \in Injection(1 .. h[t], U(t))]
           m == [w \in Units(h) |-> j[w[1]][w[2]]]
<1>1. \A t \in T : j[t] \in Injection(1 .. h[t], U(t))
  <2> SUFFICES ASSUME NEW t \in T PROVE \E n : n \in Injection(1 .. h[t], U(t))
    OBVIOUS
  <2>1. IsFiniteSet(U(t)) /\ h[t] <= Cardinality(U(t)) /\ h[t] \in Nat
    BY GroupUnits
  <2> HIDE DEF U
  <2> QED BY <2>1, IntervalFits
<1>2. \A t \in T : U(t) \subseteq Units(f) /\ \A u \in U(t) : key[u[1]] = t
  BY GroupUnits
<1>3. \A w \in Units(h) : w[1] \in T /\ w[2] \in 1 .. h[w[1]]
                          /\ w = <<w[1], w[2]>>
  BY DEF Units
<1> HIDE DEF U, j
<1>4. \A w \in Units(h) : m[w] \in U(w[1])
  BY <1>1, <1>3 DEF Injection
<1>5. m \in [Units(h) -> Units(f)]
  BY <1>2, <1>3, <1>4
<1>6. \A u, w \in Units(h) : m[u] = m[w] => u = w
  <2> SUFFICES ASSUME NEW u \in Units(h), NEW w \in Units(h), m[u] = m[w]
               PROVE  u = w
    OBVIOUS
  <2>1. u[1] = w[1]
    BY <1>2, <1>3, <1>4
  <2>2. j[u[1]][u[2]] = j[u[1]][w[2]]
    BY <2>1
  <2>3. u[2] = w[2]
    BY <1>1, <1>3, <2>1, <2>2 DEF Injection, IsInjective
  <2> QED BY <1>3, <2>1, <2>3
<1>7. m \in Injection(Units(h), Units(f))
  BY <1>5, <1>6, Fun_IsInj
<1> QED BY <1>7, UnitsFinite, FS_Injection DEF Total

\* A sum is the sum of the sums of its groups.
THEOREM TotalByGroup ==
    ASSUME NEW S, IsFiniteSet(S), NEW f \in [S -> Nat],
           NEW T, IsFiniteSet(T), NEW h \in [T -> Nat], NEW key,
           \A x \in S : f[x] > 0 => key[x] \in T,
           \A t \in T : h[t] = Total(Group(f, key, t))
    PROVE  Total(f) = Total(h)
<1>1. \A t \in T : h[t] \in Nat /\ Total(Group(f, key, t)) \in Nat
  BY GroupUnits, TotalType
<1>2. Total(f) <= Total(h)
  BY <1>1, TotalOfGroups
<1>3. Total(h) <= Total(f)
  BY <1>1, GroupsOfTotal
<1>4. Total(f) \in Nat /\ Total(h) \in Nat
  BY TotalType
<1> QED BY <1>2, <1>3, <1>4

\* A sum with one row that counts is that row.
THEOREM TotalSingle ==
    ASSUME NEW S, IsFiniteSet(S), NEW f \in [S -> Nat], NEW x \in S,
           \A y \in S \ {x} : f[y] = 0
    PROVE  Total(f) = f[x]
<1> DEFINE zero == [y \in S |-> 0]
<1>1. zero \in [S -> Nat] /\ zero[x] = 0
      /\ \A y \in S \ {x} : f[y] = zero[y]
  OBVIOUS
<1>2. Total(zero) = 0
  <2>1. \A y \in S : zero[y] = 0
    OBVIOUS
  <2> HIDE DEF zero
  <2> QED BY <1>1, <2>1, TotalZero
<1>3. f[x] \in Nat
  OBVIOUS
<1>4. Total(f) = Total(zero) - zero[x] + f[x]
  <2> HIDE DEF zero
  <2> QED BY <1>1, TotalChange
<1> HIDE DEF zero
<1> QED BY <1>1, <1>2, <1>3, <1>4

\* A sum over P with its rows at other places: at[r] is the row of r.
LEMMA TotalReindexed ==
    ASSUME NEW P, IsFiniteSet(P), NEW g \in [P -> Nat],
           NEW R, IsFiniteSet(R), NEW h \in [R -> Nat],
           NEW at \in [R -> P], NEW place,
           \A p \in P : place[p] \in R,
           \A r \in R : place[at[r]] = r /\ g[at[r]] = h[r],
           \A p \in P : g[p] # 0 => p = at[place[p]]
    PROVE  Total(g) = Total(h)
<1>1. ASSUME NEW r \in R PROVE h[r] = Total(Group(g, place, r))
  <2> DEFINE one == Group(g, place, r)
  <2>1. /\ one \in [P -> Nat]
        /\ \A p \in P : one[p] = IF place[p] = r THEN g[p] ELSE 0
    BY DEF Group
  <2> HIDE DEF one
  <2>2. at[r] \in P /\ one[at[r]] = h[r]
    BY <2>1
  <2>3. \A p \in P \ {at[r]} : one[p] = 0
    BY <2>1
  <2> QED BY <2>1, <2>2, <2>3, TotalSingle DEF one
<1> QED BY <1>1, TotalByGroup

\* The rows of one group, each at its place in a table of their own.
LEMMA TotalOfLine ==
    ASSUME NEW P, IsFiniteSet(P), NEW f \in [P -> Nat], NEW key, NEW t,
           NEW R, IsFiniteSet(R), NEW h \in [R -> Nat],
           NEW at \in [R -> P], NEW place,
           \A p \in P : place[p] \in R,
           \A r \in R : place[at[r]] = r /\ key[at[r]] = t /\ f[at[r]] = h[r],
           \A p \in P : key[p] = t => p = at[place[p]]
    PROVE  Total(Group(f, key, t)) = Total(h)
<1> DEFINE g == Group(f, key, t)
<1>1. /\ g \in [P -> Nat]
      /\ \A p \in P : g[p] = IF key[p] = t THEN f[p] ELSE 0
  BY DEF Group
<1> HIDE DEF g
<1>2. \A r \in R : place[at[r]] = r /\ g[at[r]] = h[r]
  BY <1>1
<1>3. \A p \in P : g[p] # 0 => p = at[place[p]]
  BY <1>1
<1>4. Total(g) = Total(h)
  BY <1>1, <1>2, <1>3, TotalReindexed
<1> QED BY <1>4 DEF g

\* The columns and the rows of a table over pairs.
Column(f, R, v) == [r \in R |-> f[<<r, v>>]]
Row(f, V, r) == [v \in V |-> f[<<r, v>>]]

\* A table is the sum of its columns' sums.
THEOREM TotalByColumn ==
    ASSUME NEW R, IsFiniteSet(R), NEW V, IsFiniteSet(V),
           NEW P, P = R \X V, NEW f \in [P -> Nat], NEW h \in [V -> Nat],
           \A v \in V : h[v] = Total(Column(f, R, v))
    PROVE  Total(f) = Total(h)
<1> DEFINE key == [p \in P |-> p[2]]
           place == [p \in P |-> p[1]]
<1>1. IsFiniteSet(P)
  BY FS_Product
<1>2. \A p \in P : /\ key[p] = p[2] /\ key[p] \in V
                   /\ place[p] = p[1] /\ place[p] \in R
  OBVIOUS
<1> HIDE DEF key, place
<1>3. ASSUME NEW v \in V PROVE Total(Column(f, R, v)) = Total(Group(f, key, v))
  <2> DEFINE line == Column(f, R, v)
             at == [r \in R |-> <<r, v>>]
  <2>1. at \in [R -> P]
    OBVIOUS
  <2>2. \A r \in R : at[r] = <<r, v>>
    OBVIOUS
  <2>3. line \in [R -> Nat] /\ \A r \in R : line[r] = f[<<r, v>>]
    BY DEF Column
  <2> HIDE DEF line, at
  <2>4. \A r \in R : /\ place[at[r]] = r /\ key[at[r]] = v
                   /\ f[at[r]] = line[r]
    BY <1>2, <2>1, <2>2, <2>3
  <2>5. \A p \in P : key[p] = v => p = at[place[p]]
    BY <1>2, <2>2
  <2>6. line \in [R -> Nat] /\ \A p \in P : place[p] \in R
    BY <1>2, <2>3
  <2>7. Total(Group(f, key, v)) = Total(line)
    BY ONLY IsFiniteSet(R), f \in [P -> Nat], <1>1, <2>1, <2>4, <2>5, <2>6,
            TotalOfLine
  <2> QED BY <2>7 DEF line
<1>4. \A v \in V : h[v] = Total(Group(f, key, v))
  BY <1>3
<1>5. \A p \in P : f[p] > 0 => key[p] \in V
  BY <1>2
<1> QED BY ONLY <1>1, <1>4, <1>5, f \in [P -> Nat], h \in [V -> Nat],
           IsFiniteSet(V), TotalByGroup

\* A table is the sum of its rows' sums.
THEOREM TotalByRow ==
    ASSUME NEW R, IsFiniteSet(R), NEW V, IsFiniteSet(V),
           NEW P, P = R \X V, NEW f \in [P -> Nat], NEW h \in [R -> Nat],
           \A r \in R : h[r] = Total(Row(f, V, r))
    PROVE  Total(f) = Total(h)
<1> DEFINE key == [p \in P |-> p[1]]
           place == [p \in P |-> p[2]]
<1>1. IsFiniteSet(P)
  BY FS_Product
<1>2. \A p \in P : /\ key[p] = p[1] /\ key[p] \in R
                   /\ place[p] = p[2] /\ place[p] \in V
  OBVIOUS
<1> HIDE DEF key, place
<1>3. ASSUME NEW r \in R PROVE Total(Row(f, V, r)) = Total(Group(f, key, r))
  <2> DEFINE line == Row(f, V, r)
             at == [v \in V |-> <<r, v>>]
  <2>1. at \in [V -> P]
    OBVIOUS
  <2>2. \A v \in V : at[v] = <<r, v>>
    OBVIOUS
  <2>3. line \in [V -> Nat] /\ \A v \in V : line[v] = f[<<r, v>>]
    BY DEF Row
  <2> HIDE DEF line, at
  <2>4. \A v \in V : /\ place[at[v]] = v /\ key[at[v]] = r
                   /\ f[at[v]] = line[v]
    BY <1>2, <2>1, <2>2, <2>3
  <2>5. \A p \in P : key[p] = r => p = at[place[p]]
    BY <1>2, <2>2
  <2>6. line \in [V -> Nat] /\ \A p \in P : place[p] \in V
    BY <1>2, <2>3
  <2>7. Total(Group(f, key, r)) = Total(line)
    BY ONLY IsFiniteSet(V), f \in [P -> Nat], <1>1, <2>1, <2>4, <2>5, <2>6,
            TotalOfLine
  <2> QED BY <2>7 DEF line
<1>4. \A r \in R : h[r] = Total(Group(f, key, r))
  BY <1>3
<1>5. \A p \in P : f[p] > 0 => key[p] \in R
  BY <1>2
<1> QED BY ONLY <1>1, <1>4, <1>5, f \in [P -> Nat], h \in [R -> Nat],
           IsFiniteSet(R), TotalByGroup

\* The sum of the sums of two columns.
THEOREM TotalPlus ==
    ASSUME NEW S, IsFiniteSet(S), NEW f \in [S -> Nat], NEW g \in [S -> Nat]
    PROVE  Total([x \in S |-> f[x] + g[x]]) = Total(f) + Total(g)
<1> DEFINE h == [x \in S |-> f[x] + g[x]]
           D == {u \in Units(h) : u[2] > f[u[1]]}
           m == [u \in D |-> <<u[1], u[2] - f[u[1]]>>]
<1>1. h \in [S -> Nat] /\ \A x \in S : f[x] \in Nat /\ g[x] \in Nat
  OBVIOUS
<1>2. \A u : u \in Units(h) <=> /\ u = <<u[1], u[2]>> /\ u[1] \in S
                                /\ u[2] \in 1 .. (f[u[1]] + g[u[1]])
  BY DEF Units
<1>3. \A u : u \in Units(f) <=> /\ u = <<u[1], u[2]>> /\ u[1] \in S
                                /\ u[2] \in 1 .. f[u[1]]
  BY DEF Units
<1>4. \A u : u \in Units(g) <=> /\ u = <<u[1], u[2]>> /\ u[1] \in S
                                /\ u[2] \in 1 .. g[u[1]]
  BY DEF Units
<1>5. Units(h) = Units(f) \cup D /\ Units(f) \cap D = {}
  BY <1>1, <1>2, <1>3
<1>6. m \in [D -> Units(g)]
  BY <1>1, <1>2, <1>4
<1>7. \A u, w \in D : m[u] = m[w] => u = w
  BY <1>1, <1>2
<1>8. \A w \in Units(g) : \E u \in D : m[u] = w
  <2> TAKE w \in Units(g)
  <2>1. w = <<w[1], w[2]>> /\ w[1] \in S /\ w[2] \in 1 .. g[w[1]]
    BY <1>4
  <2> DEFINE u == <<w[1], w[2] + f[w[1]]>>
  <2>2. u[1] = w[1] /\ u[2] = w[2] + f[w[1]] /\ u = <<u[1], u[2]>>
    OBVIOUS
  <2>3. u[2] \in 1 .. (f[u[1]] + g[u[1]]) /\ u[2] > f[u[1]]
    BY <1>1, <2>1, <2>2
  <2>4. u \in D
    BY <1>2, <2>1, <2>2, <2>3
  <2>5. m[u] = w
    BY <1>1, <2>1, <2>2, <2>4
  <2> QED BY <2>4, <2>5
<1>9. m \in Bijection(D, Units(g))
  BY <1>6, <1>7, <1>8, Fun_IsBij
<1>10. IsFiniteSet(Units(h)) /\ IsFiniteSet(Units(f)) /\ IsFiniteSet(Units(g))
  <2> HIDE DEF h
  <2> QED BY <1>1, UnitsFinite
<1>11. IsFiniteSet(D)
  BY <1>5, <1>10, FS_Subset
<1> HIDE DEF D, m, h
<1>12. Cardinality(D) = Cardinality(Units(g))
  BY <1>9, <1>11, FS_Bijection DEF ExistsBijection
<1>13. Cardinality(Units(h)) = Cardinality(Units(f)) + Cardinality(D)
                                  - Cardinality(Units(f) \cap D)
  BY <1>5, <1>10, <1>11, FS_Union
<1>14. Cardinality(Units(f) \cap D) = 0
  BY <1>5, FS_EmptySet
<1>15. Cardinality(Units(f)) \in Nat /\ Cardinality(Units(g)) \in Nat
  BY <1>10, FS_CardinalityType
<1> QED BY <1>12, <1>13, <1>14, <1>15 DEF Total, h

\* The sum of a column times a constant.
THEOREM TotalTimes ==
    ASSUME NEW S, IsFiniteSet(S), NEW f \in [S -> Nat], NEW c \in Nat
    PROVE  Total([x \in S |-> c * f[x]]) = c * Total(f)
<1> DEFINE h == [x \in S |-> c * f[x]]
           U == Units(f)
           many == [u \in U |-> c]
           key == [u \in U |-> u[1]]
<1>1. h \in [S -> Nat] /\ many \in [U -> Nat]
  <2>1. \A x \in S : c * f[x] \in Nat
    OBVIOUS
  <2> QED BY <2>1
<1>2. IsFiniteSet(U) /\ Cardinality(U) = Total(f) /\ Total(f) \in Nat
  BY UnitsFinite, FS_CardinalityType DEF Total
<1>3. IsFiniteSet(1 .. c) /\ Cardinality(1 .. c) = c
  BY FS_Interval
<1>4. Total(many) = c * Total(f)
  <2>1. Units(many) = U \X (1 .. c)
    <3>1. DOMAIN many = U /\ \A u \in U : many[u] = c
      OBVIOUS
    <3> HIDE DEF U, many
    <3>2. Units(many) = UNION {{u} \X (1 .. c) : u \in U}
      BY <3>1 DEF Units
    <3> QED BY <3>2
  <2>2. Cardinality(U \X (1 .. c)) = Cardinality(U) * Cardinality(1 .. c)
    <3> HIDE DEF U
    <3> QED BY <1>2, <1>3, FS_Product
  <2> HIDE DEF U, many
  <2> QED BY <1>2, <1>3, <2>1, <2>2 DEF Total
<1>5. ASSUME NEW x \in S PROVE h[x] = Total(Group(many, key, x))
  <2> DEFINE g == Group(many, key, x)
             B == 1 .. f[x]
             row == {x} \X B
             C == 1 .. c
  <2>1. DOMAIN g = U /\ \A u \in U : g[u] = IF u[1] = x THEN c ELSE 0
    BY DEF Group
  <2>2. row = {u \in U : u[1] = x}
    BY DEF Units
  <2>3. Units(g) = row \X C
    <3>1. Units(g) = UNION {{u} \X (1 .. g[u]) : u \in U}
      BY <2>1 DEF Units
    <3>2. 1 .. 0 = {}
      OBVIOUS
    <3> HIDE DEF g, U, row
    <3>3. ASSUME NEW w PROVE w \in Units(g) <=> w \in row \X C
      BY <2>1, <2>2, <3>1, <3>2
    <3> QED BY <3>3
  <2>4. IsFiniteSet(row) /\ Cardinality(row) = f[x]
    BY RowUnits, f[x] \in Nat
  <2>5. Cardinality(row \X C) = Cardinality(row) * Cardinality(C)
    <3> HIDE DEF row, C
    <3> QED BY <1>3, <2>4, FS_Product DEF C
  <2> HIDE DEF row, g
  <2>6. Total(g) = f[x] * c
    BY <1>3, <2>3, <2>4, <2>5 DEF Total
  <2>7. f[x] * c = c * f[x]
    BY f[x] \in Nat
  <2> QED BY <2>6, <2>7 DEF g
<1>6. \A u \in U : key[u] \in S
  BY DEF Units
<1>7. Total(many) = Total(h)
  <2> HIDE DEF U, many, key, h
  <2> QED BY <1>1, <1>2, <1>5, <1>6, TotalByGroup
<1> QED BY <1>4, <1>7
=============================================================================
