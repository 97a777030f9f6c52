--------------------------- MODULE Dispatch_proofs ---------------------------
(***************************************************************************)
(* For every set of specs over files that are there: the dispatch is type  *)
(* correct; the matrix is the full factorial of its axes, and the registry *)
(* path agrees with it; runs that share an id share their files, and runs  *)
(* with the same files, prompt and model have the same fate; every refusal *)
(* has a cause that the validator does not see; a preview holds; and a     *)
(* paid run without tools was warned of.                                   *)
(***************************************************************************)
EXTENDS Dispatch, FoldFacts

\* The entries of a call: cells of the matrix, with directories that are there.
PlanOK ==
    /\ DOMAIN plan \subseteq Nat
    /\ \A i \in DOMAIN plan :
          plan[i].profileRef \in Profiles /\ plan[i].scenarioRef \in Scenarios

LEMMA NoneFacts ==
    /\ None \notin Profiles /\ None \notin Scenarios
    /\ None \notin {"ok"} \cup Causes
BY FilesAssumption DEF Profiles, Scenarios, Causes

\* The plugins of a spec are a list of modules.
LEMMA PluginsListed ==
    ASSUME NEW s \in Specs
    PROVE  /\ Len(s.plugins) \in Nat /\ DOMAIN s.plugins = 1..Len(s.plugins)
           /\ \A k \in DOMAIN s.plugins : s.plugins[k] \in DOMAIN PluginModules
<1>1. s.plugins \in Seq(Range(s.plugins))
  BY SpecsAssumption DEF IsArray
<1> QED BY <1>1, SpecsAssumption

-----------------------------------------------------------------------------
(* The cells of a matrix.                                                   *)

\* More times a number is more.
LEMMA MoreTimes ==
    ASSUME NEW a \in Nat, NEW c \in Nat, NEW b \in Nat, a <= c
    PROVE  a * b <= c * b
<1>1. c * b = a * b + (c - a) * b
  OBVIOUS
<1>2. (c - a) * b >= 0
  OBVIOUS
<1>3. a * b \in Int /\ c * b \in Int /\ (c - a) * b \in Int
  OBVIOUS
<1> QED BY <1>1, <1>2, <1>3

\* Quotient and remainder.
LEMMA DivMod ==
    ASSUME NEW n \in Nat, NEW b \in Nat \ {0}
    PROVE  /\ n \div b \in Nat /\ n % b \in 0..(b - 1)
           /\ n = (n \div b) * b + (n % b)
OBVIOUS
\* There is one quotient and one remainder.
LEMMA DivUnique ==
    ASSUME NEW q \in Nat, NEW b \in Nat \ {0}, NEW r \in 0..(b - 1)
    PROVE  (q * b + r) \div b = q /\ (q * b + r) % b = r
<1> DEFINE n == q * b + r
           d == n \div b
           m == n % b
<1>1. n \in Nat
  OBVIOUS
<1>2. d \in Nat /\ m \in 0..(b - 1) /\ n = d * b + m
  BY <1>1, DivMod
<1>3. n = q * b + r
  OBVIOUS
<1> HIDE DEF n, d, m
<1>4. CASE d < q
  <2>1. (d + 1) * b <= q * b
    BY <1>2, <1>4, MoreTimes
  <2>2. (d + 1) * b = d * b + b
    BY <1>2
  <2>3. d * b \in Int /\ q * b \in Int
    BY <1>2
  <2> QED BY <1>2, <1>3, <2>1, <2>2, <2>3
<1>5. CASE q < d
  <2>1. (q + 1) * b <= d * b
    BY <1>2, <1>5, MoreTimes
  <2>2. (q + 1) * b = q * b + b
    BY <1>2
  <2>3. d * b \in Int /\ q * b \in Int
    BY <1>2
  <2> QED BY <1>2, <1>3, <2>1, <2>2, <2>3
<1>6. CASE d = q
  <2>1. d * b \in Int
    BY <1>2
  <2> QED BY <1>2, <1>3, <1>6, <2>1 DEF n, d, m
<1> QED BY <1>2, <1>4, <1>5, <1>6
\* A position before the end of the last row is in a row that exists.
LEMMA DivBelow ==
    ASSUME NEW n \in Nat, NEW a \in Nat, NEW b \in Nat \ {0}, n < a * b
    PROVE  n \div b < a
<1> DEFINE d == n \div b
<1>1. d \in Nat /\ n % b \in 0..(b - 1) /\ n = d * b + (n % b)
  BY DivMod
<1> HIDE DEF d
<1>2. CASE a <= d
  <2>1. a * b <= d * b
    BY <1>1, <1>2, MoreTimes
  <2>2. a * b \in Int /\ d * b \in Int
    BY <1>1
  <2> QED BY <1>1, <2>1, <2>2
<1> QED BY <1>1, <1>2 DEF d

\* A list as the schema promises it.
IsList(x) == Len(x) \in Nat /\ DOMAIN x = 1..Len(x)

\* A function on 1..m is a list of m values.
LEMMA ListLen ==
    ASSUME NEW S, NEW m \in Nat, NEW f \in [1..m -> S]
    PROVE  IsList(f) /\ Len(f) = m /\ f \in Seq(S)
<1>1. f \in Seq(S)
  OBVIOUS
<1>2. Len(f) = m
  BY <1>1
<1> QED BY <1>1, <1>2 DEF IsList

\* The components of a longer tuple.
LEMMA AppendComponents ==
    ASSUME NEW S, NEW c \in Seq(S), NEW v \in S
    PROVE  /\ Append(c, v) \in Seq(S) /\ Len(Append(c, v)) = Len(c) + 1
           /\ \A k \in 1..Len(c) : Append(c, v)[k] = c[k]
           /\ Append(c, v)[Len(c) + 1] = v
OBVIOUS

\* Exactly the combinations of values of the first d axes.
Combos(cells, a, S, d, size) ==
    /\ cells \in [1..size -> Seq(S)]
    /\ \A n \in 1..size :
          Len(cells[n]) = d /\ \A k \in 1..d : cells[n][k] \in Range(a[k])
    /\ \A x \in [1..6 -> Nat] : (\A k \in 1..d : x[k] \in DOMAIN a[k]) =>
          \E n \in 1..size : \A k \in 1..d : cells[n][k] = a[k][x[k]]

\* What Extend puts at a position: a combination and a value of the axis.
LEMMA ExtendAt ==
    ASSUME NEW cells, NEW axis, Len(cells) \in Nat, Len(axis) \in Nat \ {0}
    PROVE  LET size == Len(cells)
               L    == Len(axis)
           IN  /\ size * L \in Nat
               /\ \A n \in 1..(size * L) :
                     ((n - 1) \div L) + 1 \in 1..size /\ ((n - 1) % L) + 1 \in 1..L
               /\ Extend(cells, axis) = [n \in 1..(size * L) |->
                     Append(cells[((n - 1) \div L) + 1], axis[((n - 1) % L) + 1])]
<1> DEFINE size == Len(cells)
           L    == Len(axis)
<1>1. size \in Nat /\ L \in Nat \ {0}
  OBVIOUS
<1>2. Extend(cells, axis) = [n \in 1..(size * L) |->
                     Append(cells[((n - 1) \div L) + 1], axis[((n - 1) % L) + 1])]
  BY DEF Extend, Nest
<1> HIDE DEF size, L
<1>3. size * L \in Nat
  BY <1>1
<1>4. ASSUME NEW n \in 1..(size * L)
      PROVE  ((n - 1) \div L) + 1 \in 1..size /\ ((n - 1) % L) + 1 \in 1..L
  <2>1. n - 1 \in Nat /\ n - 1 < size * L
    BY <1>3
  <2>2. (n - 1) \div L \in Nat /\ (n - 1) % L \in 0..(L - 1)
    BY <1>1, <2>1, DivMod
  <2>3. (n - 1) \div L < size
    BY <1>1, <2>1, DivBelow
  <2> QED BY <1>1, <2>2, <2>3
<1> QED BY <1>2, <1>3, <1>4 DEF size, L

\* Where value v of the axis stands behind combination p.
LEMMA PositionOf ==
    ASSUME NEW size \in Nat, NEW L \in Nat \ {0}, NEW p \in 1..size, NEW v \in 1..L,
           NEW n, n = (p - 1) * L + v
    PROVE  n \in 1..(size * L) /\ ((n - 1) \div L) + 1 = p /\ ((n - 1) % L) + 1 = v
<1>2. p - 1 \in Nat /\ v - 1 \in 0..(L - 1) /\ (p - 1) * L \in Nat
  OBVIOUS
<1>3. n - 1 = (p - 1) * L + (v - 1)
  BY <1>2
<1>4. (n - 1) \div L = p - 1 /\ (n - 1) % L = v - 1
  <2>1. \A q \in Nat, r \in 0..(L - 1) : (q * L + r) \div L = q /\ (q * L + r) % L = r
    BY DivUnique
  <2> QED BY <1>2, <1>3, <2>1
<1>5. n \in 1..(size * L)
  <2>1. p * L <= size * L
    BY MoreTimes
  <2>2. p * L = (p - 1) * L + L
    OBVIOUS
  <2>3. p * L \in Int /\ size * L \in Int
    OBVIOUS
  <2> QED BY <1>2, <2>1, <2>2, <2>3
<1> QED BY <1>4, <1>5

\* One more loop leaves no pair of a combination and a value out.
LEMMA NestHas ==
    ASSUME NEW cells, NEW axis, Len(cells) \in Nat, Len(axis) \in Nat \ {0}
    PROVE  \A p \in 1..Len(cells), v \in 1..Len(axis) :
              \E n \in 1..(Len(cells) * Len(axis)) :
                 Extend(cells, axis)[n] = Append(cells[p], axis[v])
<1> SUFFICES ASSUME NEW p \in 1..Len(cells), NEW v \in 1..Len(axis)
             PROVE  \E n \in 1..(Len(cells) * Len(axis)) :
                       Extend(cells, axis)[n] = Append(cells[p], axis[v])
  OBVIOUS
<1> DEFINE size == Len(cells)
           L    == Len(axis)
           n    == (p - 1) * L + v
<1>1. Extend(cells, axis) = [m \in 1..(size * L) |->
                     Append(cells[((m - 1) \div L) + 1], axis[((m - 1) % L) + 1])]
  BY ExtendAt
<1>2. n \in 1..(size * L) /\ ((n - 1) \div L) + 1 = p /\ ((n - 1) % L) + 1 = v
  <2>1. size \in Nat /\ L \in Nat \ {0} /\ p \in 1..size /\ v \in 1..L
    OBVIOUS
  <2> HIDE DEF size, L
  <2> QED BY <2>1, PositionOf
<1> HIDE DEF size, L, n
<1>3. Extend(cells, axis)[n] = Append(cells[p], axis[v])
  BY <1>1, <1>2
<1> QED BY <1>2, <1>3 DEF size, L
\* One more loop keeps what is known of the combinations.
LEMMA NestStep ==
    ASSUME NEW S, NEW a, NEW d \in Nat, NEW size \in Nat, NEW cells,
           Combos(cells, a, S, d, size),
           NEW axis
    PROVE  axis = a[d + 1] /\ IsList(axis) /\ Len(axis) # 0 /\ Range(axis) \subseteq S
              => Combos(Extend(cells, axis), a, S, d + 1, size * Len(axis))
<1>0. SUFFICES ASSUME axis = a[d + 1], IsList(axis), Len(axis) # 0, Range(axis) \subseteq S
               PROVE  Combos(Extend(cells, axis), a, S, d + 1, size * Len(axis))
  OBVIOUS
<1> DEFINE L == Len(axis)
           new == Extend(cells, axis)
           p(n) == ((n - 1) \div L) + 1
           v(n) == ((n - 1) % L) + 1
<1>1. L \in Nat \ {0} /\ DOMAIN axis = 1..L /\ Len(cells) = size
  BY <1>0, ListLen DEF IsList, Combos
<1>2. /\ new = [n \in 1..(size * L) |-> Append(cells[p(n)], axis[v(n)])]
      /\ \A n \in 1..(size * L) : p(n) \in 1..size /\ v(n) \in 1..L
  <2>1. Len(cells) \in Nat /\ Len(axis) \in Nat \ {0}
    BY <1>1
  <2>2. \A n \in 1..(Len(cells) * Len(axis)) :
              p(n) \in 1..Len(cells) /\ v(n) \in 1..Len(axis)
    BY <2>1, ExtendAt
  <2>3. new = [n \in 1..(Len(cells) * Len(axis)) |-> Append(cells[p(n)], axis[v(n)])]
    BY DEF Extend, Nest
  <2> HIDE DEF p, v, L, new
  <2> QED BY <1>1, <2>2, <2>3 DEF L
<1> HIDE DEF p, v, L, new
<1>3. \A n \in 1..L : axis[n] \in Range(axis) /\ axis[n] \in S
  BY <1>0, <1>1 DEF Range
<1>4. ASSUME NEW n \in 1..(size * L)
      PROVE  /\ new[n] \in Seq(S) /\ Len(new[n]) = d + 1
             /\ \A k \in 1..(d + 1) : new[n][k] \in Range(a[k])
  <2>1. /\ cells[p(n)] \in Seq(S) /\ Len(cells[p(n)]) = d
        /\ \A k \in 1..d : cells[p(n)][k] \in Range(a[k])
    BY <1>2 DEF Combos
  <2>2. axis[v(n)] \in S /\ axis[v(n)] \in Range(axis)
    BY <1>2, <1>3
  <2>3. new[n] = Append(cells[p(n)], axis[v(n)])
    BY <1>2
  <2>4. /\ new[n] \in Seq(S) /\ Len(new[n]) = d + 1
        /\ \A k \in 1..d : new[n][k] = cells[p(n)][k]
        /\ new[n][d + 1] = axis[v(n)]
    BY <2>1, <2>2, <2>3, AppendComponents
  <2>5. \A k \in 1..(d + 1) : k \in 1..d \/ k = d + 1
    OBVIOUS
  <2> QED BY <1>0, <2>1, <2>2, <2>4, <2>5
<1>5. new \in [1..(size * L) -> Seq(S)]
  BY <1>2, <1>4
<1>6. ASSUME NEW x \in [1..6 -> Nat], \A k \in 1..(d + 1) : x[k] \in DOMAIN a[k]
      PROVE  \E n \in 1..(size * L) : \A k \in 1..(d + 1) : new[n][k] = a[k][x[k]]
  <2>1. /\ \A k \in 1..d : k \in 1..(d + 1)
        /\ \A k \in 1..(d + 1) : k \in 1..d \/ k = d + 1
        /\ d + 1 \in 1..(d + 1)
    OBVIOUS
  <2>2. PICK p0 \in 1..size : \A k \in 1..d : cells[p0][k] = a[k][x[k]]
    BY <1>6, <2>1 DEF Combos
  <2>3. x[d + 1] \in 1..L
    BY <1>0, <1>1, <1>6, <2>1
  <2>4. PICK n \in 1..(size * L) : new[n] = Append(cells[p0], axis[x[d + 1]])
    <3>0. Len(cells) \in Nat /\ Len(axis) \in Nat \ {0}
      BY <1>1 DEF L
    <3>1. p0 \in 1..Len(cells) /\ x[d + 1] \in 1..Len(axis)
      BY <1>1, <2>3 DEF L
    <3>2. \A p1 \in 1..Len(cells), v1 \in 1..Len(axis) :
             \E n \in 1..(Len(cells) * Len(axis)) :
                    Extend(cells, axis)[n] = Append(cells[p1], axis[v1])
      BY <3>0, NestHas
    <3>3. \E n \in 1..(Len(cells) * Len(axis)) :
              Extend(cells, axis)[n] = Append(cells[p0], axis[x[d + 1]])
      BY <3>1, <3>2
    <3> QED BY <1>1, <3>3 DEF L, new
  <2>5. cells[p0] \in Seq(S) /\ Len(cells[p0]) = d /\ axis[x[d + 1]] \in S
    BY <1>3, <2>3 DEF Combos
  <2>6. /\ \A k \in 1..d : new[n][k] = cells[p0][k]
        /\ new[n][d + 1] = axis[x[d + 1]]
    BY <2>4, <2>5, AppendComponents
  <2>7. \A k \in 1..(d + 1) : new[n][k] = a[k][x[k]]
    BY <1>0, <2>1, <2>2, <2>6
  <2> QED BY <2>7
<1> QED BY <1>4, <1>5, <1>6 DEF Combos, L, new


\* The number of cells.
Size(a) == Len(a[1]) * Len(a[2]) * Len(a[3]) * Len(a[4]) * Len(a[5]) * Len(a[6])

\* The five outer loops.
Outer(a) ==
    Extend(Extend(Extend(Extend(Extend(<< <<>> >>, a[1]), a[2]), a[3]), a[4]), a[5])

\* The six loops of expandMatrix make exactly the combinations of the six axes, and
\* the last one runs through its axis for every combination of the others.
LEMMA CellsMade ==
    ASSUME NEW s, NEW S, NEW a, a = LoopOrder(s),
           \A k \in 1..6 : IsList(a[k]) /\ Len(a[k]) # 0 /\ Range(a[k]) \subseteq S
    PROVE  /\ Combos(Cells(s), a, S, 6, Size(a))
           /\ Size(a) \in Nat \ {0}
           /\ Cells(s) = Extend(Outer(a), a[6])
           /\ Len(Outer(a)) = Len(a[1]) * Len(a[2]) * Len(a[3]) * Len(a[4]) * Len(a[5])
           /\ Len(Outer(a)) \in Nat
           /\ \A p \in 1..Len(Outer(a)) : Outer(a)[p] \in {c \in Seq(S) : Len(c) = 5}
<1> DEFINE c0 == << <<>> >>
           c1 == Extend(c0, a[1])
           c2 == Extend(c1, a[2])
           c3 == Extend(c2, a[3])
           c4 == Extend(c3, a[4])
           c5 == Extend(c4, a[5])
           c6 == Extend(c5, a[6])
           s1 == 1 * Len(a[1])
           s2 == s1 * Len(a[2])
           s3 == s2 * Len(a[3])
           s4 == s3 * Len(a[4])
           s5 == s4 * Len(a[5])
           s6 == s5 * Len(a[6])
<1>0. Combos(c0, a, S, 0, 1)
  <2>1. DOMAIN c0 = 1..1 /\ \A n \in 1..1 : c0[n] = <<>>
    OBVIOUS
  <2>2. c0 \in [1..1 -> Seq(S)]
    <3>1. <<>> \in Seq(S)
      OBVIOUS
    <3>2. c0 = [n \in 1..1 |-> <<>>]
      OBVIOUS
    <3> HIDE DEF c0
    <3> QED BY <3>1, <3>2
  <2>3. \A n \in 1..1 : Len(c0[n]) = 0
    BY <2>1
  <2> HIDE DEF c0
  <2> QED BY <2>2, <2>3 DEF Combos
<1>a. Cells(s) = c6 /\ Outer(a) = c5
  BY DEF Cells, Outer
<1>b. /\ s5 = Len(a[1]) * Len(a[2]) * Len(a[3]) * Len(a[4]) * Len(a[5])
      /\ s6 = Size(a)
  <2>1. Len(a[1]) \in Nat /\ s1 = Len(a[1])
    BY DEF IsList
  <2> HIDE DEF s1
  <2> QED BY <2>1 DEF Size
<1> HIDE DEF c0, c1, c2, c3, c4, c5, c6, s1, s2, s3, s4, s5, s6
<1>c. ASSUME NEW d \in 0..5, NEW size \in Nat \ {0}, NEW cells, Combos(cells, a, S, d, size),
             NEW k, k = d + 1
      PROVE  /\ Combos(Extend(cells, a[k]), a, S, k, size * Len(a[k]))
             /\ size * Len(a[k]) \in Nat \ {0}
  <2>1. k \in 1..6 /\ IsList(a[k]) /\ Len(a[k]) # 0 /\ Range(a[k]) \subseteq S
    BY <1>c
  <2>2. Combos(Extend(cells, a[k]), a, S, d + 1, size * Len(a[k]))
    <3>1. a[k] = a[d + 1] /\ d \in Nat /\ size \in Nat
      BY <1>c
    <3> QED BY <1>c, <2>1, <3>1, NestStep
  <2>3. \A x, y \in Nat \ {0} : x * y \in Nat \ {0}
    OBVIOUS
  <2> QED BY <1>c, <2>1, <2>2, <2>3 DEF IsList
<1>1. Combos(c1, a, S, 1, s1) /\ s1 \in Nat \ {0}
  BY <1>0, <1>c, 1 = 0 + 1 DEF c1, s1
<1>2. Combos(c2, a, S, 2, s2) /\ s2 \in Nat \ {0}
  <2>1. 1 \in 0..5 /\ 2 = 1 + 1
    OBVIOUS
  <2>2. /\ Combos(Extend(c1, a[2]), a, S, 2, s1 * Len(a[2]))
        /\ s1 * Len(a[2]) \in Nat \ {0}
    BY <1>1, <1>c, <2>1, Zenon
  <2> QED BY <2>2 DEF c2, s2
<1>3. Combos(c3, a, S, 3, s3) /\ s3 \in Nat \ {0}
  <2>1. 2 \in 0..5 /\ 3 = 2 + 1
    OBVIOUS
  <2>2. /\ Combos(Extend(c2, a[3]), a, S, 3, s2 * Len(a[3]))
        /\ s2 * Len(a[3]) \in Nat \ {0}
    BY <1>2, <1>c, <2>1, Zenon
  <2> QED BY <2>2 DEF c3, s3
<1>4. Combos(c4, a, S, 4, s4) /\ s4 \in Nat \ {0}
  <2>1. 3 \in 0..5 /\ 4 = 3 + 1
    OBVIOUS
  <2>2. /\ Combos(Extend(c3, a[4]), a, S, 4, s3 * Len(a[4]))
        /\ s3 * Len(a[4]) \in Nat \ {0}
    BY <1>3, <1>c, <2>1, Zenon
  <2> QED BY <2>2 DEF c4, s4
<1>5. Combos(c5, a, S, 5, s5) /\ s5 \in Nat \ {0}
  <2>1. 4 \in 0..5 /\ 5 = 4 + 1
    OBVIOUS
  <2>2. /\ Combos(Extend(c4, a[5]), a, S, 5, s4 * Len(a[5]))
        /\ s4 * Len(a[5]) \in Nat \ {0}
    BY <1>4, <1>c, <2>1, Zenon
  <2> QED BY <2>2 DEF c5, s5
<1>6. Combos(c6, a, S, 6, s6) /\ s6 \in Nat \ {0}
  <2>1. 5 \in 0..5 /\ 6 = 5 + 1
    OBVIOUS
  <2>2. /\ Combos(Extend(c5, a[6]), a, S, 6, s5 * Len(a[6]))
        /\ s5 * Len(a[6]) \in Nat \ {0}
    BY <1>5, <1>c, <2>1, Zenon
  <2> QED BY <2>2 DEF c6, s6
<1>7. /\ c5 \in [1..s5 -> Seq(S)] /\ s5 \in Nat
      /\ \A p \in 1..s5 : c5[p] \in Seq(S) /\ Len(c5[p]) = 5
  BY <1>5 DEF Combos
<1>8. Len(c5) = s5
  BY <1>7, ListLen
<1> QED BY <1>a, <1>b, <1>6, <1>7, <1>8 DEF c6

-----------------------------------------------------------------------------
(* The loops over the factors of a spec.                                    *)

Levels(fs) == UNION {Range(fs[k].levels) : k \in DOMAIN fs}

\* Factors as the schema lets them be.
Listed(fs) ==
    /\ Len(fs) \in Nat /\ DOMAIN fs = 1..Len(fs)
    /\ \A k \in 1..Len(fs) :
          fs[k].levels \in Seq(Levels(fs)) /\ Len(fs[k].levels) \in Nat \ {0}

LEMMA FactorsListed == ASSUME NEW s \in Specs PROVE Listed(s.factors)
<1> DEFINE fs == s.factors
<1>1. /\ fs \in Seq(Range(fs))
      /\ \A k \in DOMAIN fs : fs[k].levels \in Seq(Range(fs[k].levels)) /\ fs[k].levels # <<>>
  BY SpecsAssumption DEF IsArray
<1>2. Len(fs) \in Nat /\ DOMAIN fs = 1..Len(fs)
  BY <1>1
<1>3. ASSUME NEW k \in DOMAIN fs
      PROVE  fs[k].levels \in Seq(Levels(fs)) /\ Len(fs[k].levels) \in Nat \ {0}
  <2>1. Range(fs[k].levels) \subseteq Levels(fs)
    BY DEF Levels
  <2> HIDE DEF fs
  <2>2. fs[k].levels \in Seq(Levels(fs)) /\ Len(fs[k].levels) \in Nat
    BY <1>1, <2>1
  <2> QED BY <1>1, <2>2
<1> QED BY <1>2, <1>3 DEF Listed

\* How far collectFactorAxes has come after k factors.
AxisLoop(acc, fs, type) ==
    /\ acc \in [0..Len(fs) -> Seq(Levels(fs))]
    /\ acc[0] = <<>>
    /\ \A k \in 0..(Len(fs) - 1) :
          acc[k + 1] = IF IsA(fs[k + 1], type) THEN acc[k] \o fs[k + 1].levels ELSE acc[k]
    /\ Axis(fs, type) = acc[Len(fs)]

LEMMA AxisRuns ==
    ASSUME NEW fs, Listed(fs), NEW type
    PROVE  \E acc : AxisLoop(acc, fs, type)
<1> DEFINE n == Len(fs)
           S == Seq(Levels(fs))
           Pushed(axis, k) == IF IsA(fs[k], type) THEN axis \o fs[k].levels ELSE axis
           F == [k \in 1..n |-> [axis \in S |-> Pushed(axis, k)]]
           Same(it) == it = [s \in SUBSET (1..n) |->
                               IF s = {} THEN <<>>
                               ELSE Pushed(it[s \ {Topmost(s)}], Topmost(s))]
           it == CHOOSE g : Same(g)
<1>0. n \in Nat /\ DOMAIN fs = 1..n /\ <<>> \in S
  BY DEF Listed
<1>1. F \in [1..n -> [S -> S]]
  <2>1. \A k \in 1..n, axis \in S : Pushed(axis, k) \in S
    BY DEF Listed
  <2> HIDE DEF Pushed, S, n
  <2> QED BY <2>1
<1>2. Axis(fs, type) = it[1..n]
  BY <1>0 DEF Axis, FoldLeft, MapThenFoldSet, Topmost
<1> HIDE DEF n, S
<1>3. \E g : FoldsTo(g, n, S, <<>>, F)
  BY ONLY <1>0, <1>1, FoldMade
<1>4. PICK g : FoldsTo(g, n, S, <<>>, F)
  BY <1>3
<1>5. Same(g)
  <2>1. ASSUME NEW s \in SUBSET (1..n), s # {}
        PROVE  g[s] = Pushed(g[s \ {Topmost(s)}], Topmost(s))
    <3>1. Topmost(s) \in 1..n /\ s \ {Topmost(s)} \in SUBSET (1..n)
      BY <1>0, <2>1, LastOfSome
    <3>2. g[s \ {Topmost(s)}] \in S
      BY <1>4, <3>1 DEF FoldsTo
    <3> HIDE DEF Pushed
    <3> QED BY <1>4, <2>1, <3>1, <3>2 DEF FoldsTo
  <2> HIDE DEF Pushed
  <2> QED BY <1>4, <2>1 DEF FoldsTo
<1>6. Same(it)
  BY <1>5
<1> HIDE DEF it
<1>7. it[{}] = <<>>
  BY <1>6
<1>8. Folding(it, n, S, <<>>, F)
  <2> HIDE DEF Pushed
  <2> QED BY <1>0, <1>6, <1>7, LastOfSome DEF Folding
<1>9. PICK acc \in [0..n -> S] : Runs(acc, n, <<>>, F) /\ it[1..n] = acc[n]
  <2>1. \E acc \in [0..n -> S] : Runs(acc, n, <<>>, F) /\ it[1..n] = acc[n]
    <3> HIDE DEF F
    <3> QED BY ONLY <1>0, <1>1, <1>8, FoldRuns
  <2> QED BY <2>1
<1>10. \A k \in 0..(n - 1) : acc[k + 1] = Pushed(acc[k], k + 1)
  <2>1. \A k \in 0..(n - 1) : k \in 0..n /\ k + 1 \in 1..n
    BY <1>0
  <2> HIDE DEF Pushed
  <2> QED BY <1>9, <2>1 DEF Runs
<1> QED BY <1>2, <1>9, <1>10 DEF AxisLoop, Runs, n, S

LEMMA RangeOfBoth ==
    ASSUME NEW S, NEW a \in Seq(S), NEW b \in Seq(S)
    PROVE  Range(a \o b) = Range(a) \cup Range(b)
<1> DEFINE c == a \o b
<1>1. /\ Len(a) \in Nat /\ Len(b) \in Nat /\ DOMAIN a = 1..Len(a) /\ DOMAIN b = 1..Len(b)
      /\ DOMAIN c = 1..(Len(a) + Len(b))
      /\ \A k \in 1..Len(a) : c[k] = a[k]
      /\ \A k \in 1..Len(b) : c[Len(a) + k] = b[k]
  OBVIOUS
<1> HIDE DEF c
<1>2. \A k \in DOMAIN a : k \in DOMAIN c /\ c[k] = a[k]
  BY <1>1
<1>3. \A k \in DOMAIN b : Len(a) + k \in DOMAIN c /\ c[Len(a) + k] = b[k]
  BY <1>1
<1>4. ASSUME NEW k \in DOMAIN c
      PROVE  (\E j \in DOMAIN a : c[k] = a[j]) \/ (\E j \in DOMAIN b : c[k] = b[j])
  <2>1. CASE k <= Len(a)
    BY <1>1, <2>1
  <2>2. CASE k > Len(a)
    <3>1. k - Len(a) \in 1..Len(b) /\ k = Len(a) + (k - Len(a))
      BY <1>1, <2>2
    <3> QED BY <1>1, <3>1
  <2> QED BY <1>1, <2>1, <2>2
<1>5. Range(c) \subseteq Range(a) \cup Range(b)
  BY <1>4 DEF Range
<1>6. Range(a) \subseteq Range(c) /\ Range(b) \subseteq Range(c)
  BY <1>2, <1>3 DEF Range
<1> QED BY <1>5, <1>6 DEF c

LevelsOfKind(fs, type, n) ==
    UNION {Range(fs[k].levels) : k \in OfKind(fs, type) \cap 1..n}

\* An axis holds the levels of the factors of its kind, and is that of the factor
\* where there is one.
LEMMA AxisHolds ==
    ASSUME NEW fs, Listed(fs), NEW type
    PROVE  /\ Axis(fs, type) \in Seq(Levels(fs))
           /\ Range(Axis(fs, type)) = LevelsOfKind(fs, type, Len(fs))
           /\ \A j : OfKind(fs, type) = {j} => Axis(fs, type) = fs[j].levels
<1> DEFINE n == Len(fs)
           K(k) == OfKind(fs, type) \cap 1..k
           V(k) == LevelsOfKind(fs, type, k)
<1>1. PICK acc : AxisLoop(acc, fs, type)
  BY AxisRuns
<1> DEFINE P(k) == /\ Range(acc[k]) = V(k)
                   /\ K(k) = {} => acc[k] = <<>>
                   /\ \A j : K(k) = {j} => acc[k] = fs[j].levels
           T == {k \in Nat : k <= n => P(k)}
<1>2. n \in Nat /\ DOMAIN fs = 1..n
  BY DEF Listed
<1>3. 0 \in T
  <2>1. K(0) = {}
    OBVIOUS
  <2>2. acc[0] = <<>> /\ Range(<<>>) = {}
    BY <1>1 DEF AxisLoop, Range
  <2>3. V(0) = {}
    BY <2>1 DEF LevelsOfKind
  <2> HIDE DEF K
  <2> QED BY <2>1, <2>2, <2>3
<1>4. ASSUME NEW k \in Nat, k \in T PROVE k + 1 \in T
  <2> SUFFICES ASSUME k + 1 <= n PROVE P(k + 1)
    OBVIOUS
  <2> DEFINE f == fs[k + 1]
  <2>1. P(k) /\ k \in 0..(n - 1) /\ k \in 0..n /\ k + 1 \in 1..n
    BY <1>2, <1>4
  <2>2. /\ acc[k] \in Seq(Levels(fs)) /\ f.levels \in Seq(Levels(fs))
        /\ acc[k + 1] = IF IsA(f, type) THEN acc[k] \o f.levels ELSE acc[k]
    BY <1>1, <2>1 DEF AxisLoop, Listed
  <2>3. K(k + 1) = IF IsA(f, type) THEN K(k) \cup {k + 1} ELSE K(k)
    BY <1>2, <2>1 DEF OfKind
  <2>4. k + 1 \notin K(k)
    OBVIOUS
  <2>5. V(k + 1) = IF IsA(f, type) THEN V(k) \cup Range(f.levels) ELSE V(k)
    <3> HIDE DEF f, K
    <3>1. V(k + 1) = UNION {Range(fs[i].levels) : i \in K(k + 1)}
             /\ V(k) = UNION {Range(fs[i].levels) : i \in K(k)}
      BY DEF LevelsOfKind, K
    <3>2. CASE IsA(f, type)
      <4>1. \A z : z \in V(k + 1) <=> \E i \in K(k) \cup {k + 1} : z \in Range(fs[i].levels)
        BY <2>3, <3>1, <3>2
      <4>2. \A z : z \in V(k) <=> \E i \in K(k) : z \in Range(fs[i].levels)
        BY <3>1
      <4> HIDE DEF V
      <4>3. V(k + 1) = V(k) \cup Range(fs[k + 1].levels)
        BY <4>1, <4>2
      <4> QED BY <3>2, <4>3 DEF f
    <3>3. CASE ~IsA(f, type)
      BY <2>3, <3>1, <3>3
    <3> QED BY <3>2, <3>3
  <2>6. <<>> \o f.levels = f.levels
    BY <2>2
  <2>7. f = fs[k + 1]
    OBVIOUS
  <2> HIDE DEF K, V, f
  <2>8. CASE IsA(f, type)
    <3>1. Range(acc[k + 1]) = V(k + 1)
      <4>1. Range(acc[k] \o f.levels) = Range(acc[k]) \cup Range(f.levels)
        BY ONLY <2>2, RangeOfBoth
      <4> QED BY <2>1, <2>2, <2>5, <2>8, <4>1
    <3>2. ASSUME NEW j, K(k + 1) = {j} PROVE acc[k + 1] = fs[j].levels
      <4>1. j = k + 1 /\ K(k) = {}
        BY <2>3, <2>4, <2>8, <3>2
      <4> QED BY <2>1, <2>2, <2>6, <2>7, <2>8, <4>1
    <3>3. K(k + 1) # {}
      BY <2>3, <2>8
    <3> QED BY <3>1, <3>2, <3>3
  <2>9. CASE ~IsA(f, type)
    BY <2>1, <2>2, <2>3, <2>5, <2>9
  <2> QED BY <2>8, <2>9
<1> HIDE DEF T
<1>5. Nat \subseteq T
  BY <1>3, <1>4, Induct
<1>6. P(n) /\ acc[n] = Axis(fs, type) /\ acc[n] \in Seq(Levels(fs))
  BY <1>1, <1>2, <1>5 DEF T, AxisLoop
<1>7. K(n) = OfKind(fs, type)
  BY <1>2 DEF OfKind
<1> QED BY <1>6, <1>7

Params(fs) == {fs[k].param : k \in DOMAIN fs}
LevelValues(fs) == {l.value : l \in Levels(fs)}
\* Every record of model parameters that the factors can make.
ParamSets(fs) == UNION {[Q -> LevelValues(fs)] : Q \in SUBSET Params(fs)}

LEMMA BindTyped ==
    ASSUME NEW fs, NEW q \in ParamSets(fs), NEW p \in Params(fs), NEW v \in LevelValues(fs)
    PROVE  Bind(q, p, v) \in ParamSets(fs)
<1>1. PICK Q \in SUBSET Params(fs) : q \in [Q -> LevelValues(fs)]
  BY DEF ParamSets
<1>2. Bind(q, p, v) \in [Q \cup {p} -> LevelValues(fs)]
  BY <1>1 DEF Bind
<1>3. Q \cup {p} \in SUBSET Params(fs)
  OBVIOUS
<1> QED BY <1>2, <1>3 DEF ParamSets

\* One more loop over the values of a parameter.
LEMMA WithParamTyped ==
    ASSUME NEW fs, Listed(fs), NEW k \in 1..Len(fs), NEW combos \in Seq(ParamSets(fs)) \ {<<>>}
    PROVE  LET L   == Len(fs[k].levels)
               new == WithParam(combos, fs[k])
           IN  /\ new \in Seq(ParamSets(fs)) \ {<<>>}
               /\ Len(new) = Len(combos) * L
               /\ new = [n \in 1..(Len(combos) * L) |->
                            Bind(combos[((n - 1) \div L) + 1], fs[k].param,
                                 fs[k].levels[((n - 1) % L) + 1].value)]
<1> DEFINE L == Len(fs[k].levels)
           N == Len(combos)
           S == ParamSets(fs)
           p(n) == ((n - 1) \div L) + 1
           v(n) == ((n - 1) % L) + 1
           new == WithParam(combos, fs[k])
<1>1. /\ N \in Nat \ {0} /\ L \in Nat \ {0} /\ DOMAIN fs = 1..Len(fs)
      /\ \A m \in 1..N : combos[m] \in S
      /\ \A m \in 1..L : fs[k].levels[m] \in Levels(fs)
  BY DEF Listed
<1>2. new = [n \in 1..(N * L) |-> Bind(combos[p(n)], fs[k].param, fs[k].levels[v(n)].value)]
  BY DEF WithParam, Nest
<1>3. N * L \in Nat \ {0}
  <2>1. \A x, y \in Nat \ {0} : x * y \in Nat \ {0}
    OBVIOUS
  <2> QED BY <1>1, <2>1
<1>4. \A n \in 1..(N * L) : p(n) \in 1..N /\ v(n) \in 1..L
  <2> SUFFICES ASSUME NEW n \in 1..(N * L) PROVE p(n) \in 1..N /\ v(n) \in 1..L
    OBVIOUS
  <2> HIDE DEF N, L
  <2>1. n - 1 \in Nat /\ n - 1 < N * L
    BY <1>3
  <2>2. (n - 1) \div L \in Nat /\ (n - 1) % L \in 0..(L - 1)
    BY <1>1, <2>1, DivMod
  <2>3. (n - 1) \div L < N
    BY <1>1, <2>1, DivBelow
  <2> QED BY <1>1, <2>2, <2>3
<1>5. fs[k].param \in Params(fs) /\ \A m \in 1..L : fs[k].levels[m].value \in LevelValues(fs)
  BY <1>1 DEF Params, LevelValues
<1> HIDE DEF N, L, S, p, v, new
<1>6. \A n \in 1..(N * L) : Bind(combos[p(n)], fs[k].param, fs[k].levels[v(n)].value) \in S
  BY <1>1, <1>4, <1>5, BindTyped DEF S
<1>7. new \in [1..(N * L) -> S]
  BY <1>2, <1>6
<1>8. new \in Seq(S) /\ Len(new) = N * L
  BY <1>3, <1>7, ListLen
<1>9. new # <<>>
  BY <1>3, <1>8
<1> QED BY <1>2, <1>8, <1>9 DEF N, L, S, p, v, new

\* How far buildModelParamCombinations has come after k factors.
ParamLoop(acc, fs) ==
    /\ acc \in [0..Len(fs) -> Seq(ParamSets(fs)) \ {<<>>}]
    /\ acc[0] = <<NoParams>>
    /\ \A k \in 0..(Len(fs) - 1) :
          acc[k + 1] = IF IsA(fs[k + 1], "model_param") THEN WithParam(acc[k], fs[k + 1])
                                                        ELSE acc[k]
    /\ ParamCombinations(fs) = acc[Len(fs)]

LEMMA ParamsRun ==
    ASSUME NEW fs, Listed(fs)
    PROVE  \E acc : ParamLoop(acc, fs)
<1> DEFINE n == Len(fs)
           S == Seq(ParamSets(fs)) \ {<<>>}
           base == <<NoParams>>
           Swept(c, k) == IF IsA(fs[k], "model_param") THEN WithParam(c, fs[k]) ELSE c
           F == [k \in 1..n |-> [c \in S |-> Swept(c, k)]]
           Same(it) == it = [s \in SUBSET (1..n) |->
                               IF s = {} THEN base
                               ELSE Swept(it[s \ {Topmost(s)}], Topmost(s))]
           it == CHOOSE g : Same(g)
<1>0. n \in Nat /\ DOMAIN fs = 1..n /\ base \in S
  <2>1. NoParams \in [{} -> LevelValues(fs)] /\ {} \in SUBSET Params(fs)
    BY DEF NoParams
  <2>2. NoParams \in ParamSets(fs)
    BY <2>1 DEF ParamSets
  <2>3. base \in Seq(ParamSets(fs)) /\ base # <<>>
    BY <2>2
  <2> QED BY <2>3 DEF Listed
<1>1. F \in [1..n -> [S -> S]]
  <2>1. \A k \in 1..n, c \in S : Swept(c, k) \in S
    BY WithParamTyped
  <2> HIDE DEF Swept, S, n
  <2> QED BY <2>1
<1>2. ParamCombinations(fs) = it[1..n]
  BY <1>0 DEF ParamCombinations, FoldLeft, MapThenFoldSet, Topmost
<1> HIDE DEF n, S, base
<1>3. \E g : FoldsTo(g, n, S, base, F)
  BY ONLY <1>0, <1>1, FoldMade
<1>4. PICK g : FoldsTo(g, n, S, base, F)
  BY <1>3
<1>5. Same(g)
  <2>1. ASSUME NEW s \in SUBSET (1..n), s # {}
        PROVE  g[s] = Swept(g[s \ {Topmost(s)}], Topmost(s))
    <3>1. Topmost(s) \in 1..n /\ s \ {Topmost(s)} \in SUBSET (1..n)
      BY <1>0, <2>1, LastOfSome
    <3>2. g[s \ {Topmost(s)}] \in S
      BY <1>4, <3>1 DEF FoldsTo
    <3> HIDE DEF Swept
    <3> QED BY <1>4, <2>1, <3>1, <3>2 DEF FoldsTo
  <2> HIDE DEF Swept
  <2> QED BY <1>4, <2>1 DEF FoldsTo
<1>6. Same(it)
  BY <1>5
<1> HIDE DEF it
<1>7. it[{}] = base
  BY <1>6
<1>8. Folding(it, n, S, base, F)
  <2> HIDE DEF Swept
  <2> QED BY <1>0, <1>6, <1>7, LastOfSome DEF Folding
<1>9. PICK acc \in [0..n -> S] : Runs(acc, n, base, F) /\ it[1..n] = acc[n]
  <2>1. \E acc \in [0..n -> S] : Runs(acc, n, base, F) /\ it[1..n] = acc[n]
    <3> HIDE DEF F
    <3> QED BY ONLY <1>0, <1>1, <1>8, FoldRuns
  <2> QED BY <2>1
<1>10. \A k \in 0..(n - 1) : acc[k + 1] = Swept(acc[k], k + 1)
  <2>1. \A k \in 0..(n - 1) : k \in 0..n /\ k + 1 \in 1..n
    BY <1>0
  <2> HIDE DEF Swept
  <2> QED BY <1>9, <2>1 DEF Runs
<1> QED BY <1>2, <1>9, <1>10 DEF ParamLoop, Runs, n, S, base

\* The levels of an extension_select factor name directories that are there.
LEMMA RefsThere ==
    ASSUME NEW s \in Specs
    PROVE  \A k \in DOMAIN Axis(s.factors, "extension_select") :
              Axis(s.factors, "extension_select")[k].ref \in DOMAIN ProfileFiles
<1> DEFINE fs == s.factors
           axis == Axis(fs, "extension_select")
<1>1. Range(axis) = LevelsOfKind(fs, "extension_select", Len(fs))
  BY FactorsListed, AxisHolds
<1>2. SUFFICES ASSUME NEW l \in Range(axis) PROVE l.ref \in DOMAIN ProfileFiles
  BY DEF Range
<1>3. PICK k \in OfKind(fs, "extension_select") : l \in Range(fs[k].levels)
  BY <1>1 DEF LevelsOfKind
<1>4. k \in DOMAIN fs /\ IsA(fs[k], "extension_select")
  BY DEF OfKind
<1>5. PICK m \in DOMAIN fs[k].levels : l = fs[k].levels[m]
  BY <1>3 DEF Range
<1> QED BY <1>4, <1>5, SpecsAssumption

\* Every value of the axes of a spec.
ValuesOf(s) == UNION {Range(LoopOrder(s)[k]) : k \in 1..6}

\* The axes of a spec that expandMatrix does not refuse.
LEMMA AxesMade ==
    ASSUME NEW s \in Specs, Expandable(s)
    PROVE  /\ \A k \in 1..6 : /\ IsList(LoopOrder(s)[k]) /\ Len(LoopOrder(s)[k]) # 0
                              /\ Range(LoopOrder(s)[k]) \subseteq ValuesOf(s)
           /\ LoopOrder(s)[1] = s.scenarios
           /\ LoopOrder(s)[2] = Axis(s.factors, "prompt_swap")
           /\ LoopOrder(s)[3] = Axis(s.factors, "extension_select")
           /\ LoopOrder(s)[4] = Axis(s.factors, "model_swap")
           /\ LoopOrder(s)[5] = ParamCombinations(s.factors)
           /\ LoopOrder(s)[6] = [k \in 1..s.repetitions |-> k]
           /\ s.repetitions \in Nat \ {0} /\ Len(LoopOrder(s)[6]) = s.repetitions
<1>1. Listed(s.factors) /\ \A type \in Required : OfKind(s.factors, type) # {}
  BY FactorsListed DEF Expandable
<1>3. /\ LoopOrder(s)[6] = [k \in 1..s.repetitions |-> k]
      /\ LoopOrder(s)[1] = s.scenarios
      /\ LoopOrder(s)[2] = Axis(s.factors, "prompt_swap")
      /\ LoopOrder(s)[3] = Axis(s.factors, "extension_select")
      /\ LoopOrder(s)[4] = Axis(s.factors, "model_swap")
      /\ LoopOrder(s)[5] = ParamCombinations(s.factors)
  BY DEF LoopOrder, RepetitionAxis
<1>4. s.repetitions \in Nat \ {0}
  BY SpecsAssumption
<1>5. IsList(LoopOrder(s)[6]) /\ Len(LoopOrder(s)[6]) = s.repetitions
  <2>1. LoopOrder(s)[6] \in [1..s.repetitions -> Nat]
    BY <1>3
  <2> QED BY <1>4, <2>1, ListLen
<1>6. \A k \in 1..6 : Range(LoopOrder(s)[k]) \subseteq ValuesOf(s)
  BY DEF ValuesOf
<1>7. ASSUME NEW type \in Required
      PROVE  IsList(Axis(s.factors, type)) /\ Len(Axis(s.factors, type)) # 0
  <2> DEFINE fs == s.factors
             axis == Axis(fs, type)
  <2>1. axis \in Seq(Levels(fs)) /\ Range(axis) = LevelsOfKind(fs, type, Len(fs))
    BY <1>1, AxisHolds
  <2>2. PICK k \in OfKind(fs, type) : TRUE
    BY <1>1
  <2>3. k \in 1..Len(fs)
    BY <1>1 DEF OfKind, Listed
  <2>4. fs[k].levels[1] \in Range(fs[k].levels)
    BY <1>1, <2>3 DEF Listed, Range
  <2>5. fs[k].levels[1] \in Range(axis)
    BY <2>1, <2>2, <2>3, <2>4 DEF LevelsOfKind
  <2> HIDE DEF axis
  <2>6. Len(axis) \in Nat /\ DOMAIN axis = 1..Len(axis) /\ DOMAIN axis # {}
    BY <2>1, <2>5 DEF Range
  <2> QED BY <2>6 DEF IsList, axis
<1>8. IsList(ParamCombinations(s.factors)) /\ Len(ParamCombinations(s.factors)) # 0
  <2> DEFINE fs == s.factors
             combos == ParamCombinations(fs)
  <2>1. PICK acc : ParamLoop(acc, fs)
    BY <1>1, ParamsRun
  <2>2. combos \in Seq(ParamSets(fs)) /\ combos # <<>>
    BY <1>1, <2>1 DEF ParamLoop, Listed
  <2> HIDE DEF combos
  <2> QED BY <2>2 DEF IsList, combos
<1>9. IsList(s.scenarios) /\ Len(s.scenarios) # 0
  <2> DEFINE scenarios == s.scenarios
  <2>1. scenarios \in Seq(Range(scenarios)) /\ scenarios # <<>>
    BY SpecsAssumption DEF Expandable, IsArray
  <2> HIDE DEF scenarios
  <2> QED BY <2>1 DEF IsList, scenarios
<1>10. \A k \in 1..6 : IsList(LoopOrder(s)[k]) /\ Len(LoopOrder(s)[k]) # 0
  <2>1. \A k \in 1..6 : k = 1 \/ k = 2 \/ k = 3 \/ k = 4 \/ k = 5 \/ k = 6
    OBVIOUS
  <2> QED BY <1>3, <1>4, <1>5, <1>7, <1>8, <1>9, <2>1 DEF Required
<1> QED BY <1>3, <1>4, <1>5, <1>6, <1>10

\* An entry whose fields come from the scenarios and levels of a spec.
DrawnFrom(s, e) ==
    /\ \E m \in DOMAIN s.scenarios :
          e.scenario = s.scenarios[m].id /\ e.scenarioRef = s.scenarios[m].ref
    /\ \E k \in DOMAIN Axis(s.factors, "prompt_swap") :
          e.prompt = Axis(s.factors, "prompt_swap")[k].id
    /\ \E k \in DOMAIN Axis(s.factors, "extension_select") :
          LET l == Axis(s.factors, "extension_select")[k]
          IN  e.profile = l.id /\ e.profileRef = l.ref
    /\ \E k \in DOMAIN Axis(s.factors, "model_swap") :
          LET l == Axis(s.factors, "model_swap")[k]
          IN  e.model = l.id /\ e.provider = l.provider /\ e.modelId = l.model_id

\* Every cell is made of values of the axes.
LEMMA MatrixDrawn ==
    ASSUME NEW s \in Specs, Expandable(s)
    PROVE  LET matrix == expandMatrix(s)
           IN  /\ DOMAIN matrix = 1..Size(LoopOrder(s)) /\ Size(LoopOrder(s)) \in Nat \ {0}
               /\ Len(matrix) = Size(LoopOrder(s))
               /\ \A n \in DOMAIN matrix :
                     matrix[n] = EntryOf(n, Cells(s)[n]) /\ DrawnFrom(s, matrix[n])
<1> DEFINE a == LoopOrder(s)
           S == ValuesOf(s)
           matrix == expandMatrix(s)
<1>1. /\ \A k \in 1..6 : IsList(a[k]) /\ Len(a[k]) # 0 /\ Range(a[k]) \subseteq S
      /\ a[1] = s.scenarios
      /\ a[2] = Axis(s.factors, "prompt_swap")
      /\ a[3] = Axis(s.factors, "extension_select")
      /\ a[4] = Axis(s.factors, "model_swap")
  BY AxesMade
<1> HIDE DEF a, S
<1>2. Combos(Cells(s), a, S, 6, Size(a)) /\ Size(a) \in Nat \ {0}
  <2>1. a = LoopOrder(s)
    BY DEF a
  <2> QED BY <1>1, <2>1, CellsMade
<1>3. /\ Cells(s) \in [1..Size(a) -> Seq(S)]
      /\ \A n \in 1..Size(a), k \in 1..6 : Cells(s)[n][k] \in Range(a[k])
  BY <1>2 DEF Combos
<1>4. Len(Cells(s)) = Size(a)
  BY <1>2, <1>3, ListLen
<1>5. matrix = [n \in 1..Size(a) |-> EntryOf(n, Cells(s)[n])]
  BY <1>4 DEF expandMatrix
<1> HIDE DEF matrix
<1>6. Len(matrix) = Size(a)
  <2>1. matrix \in [1..Size(a) -> {matrix[n] : n \in 1..Size(a)}]
    BY <1>5
  <2> QED BY <1>2, <2>1, ListLen
<1>7. ASSUME NEW n \in 1..Size(a)
      PROVE  DrawnFrom(s, EntryOf(n, Cells(s)[n]))
  <2> DEFINE c == Cells(s)[n]
             e == EntryOf(n, c)
  <2>1. \A k \in 1..6 : \E v \in DOMAIN a[k] : c[k] = a[k][v]
    BY <1>3 DEF Range
  <2>2. /\ e.scenario = c[1].id /\ e.scenarioRef = c[1].ref /\ e.prompt = c[2].id
        /\ e.profile = c[3].id /\ e.profileRef = c[3].ref
        /\ e.model = c[4].id /\ e.provider = c[4].provider /\ e.modelId = c[4].model_id
    BY DEF EntryOf
  <2>3. /\ \E m \in DOMAIN s.scenarios : c[1] = s.scenarios[m]
        /\ \E k \in DOMAIN a[2] : c[2] = a[2][k]
        /\ \E k \in DOMAIN a[3] : c[3] = a[3][k]
        /\ \E k \in DOMAIN a[4] : c[4] = a[4][k]
    BY <1>1, <2>1
  <2> HIDE DEF c, e
  <2>4. DrawnFrom(s, e)
    BY <1>1, <2>2, <2>3 DEF DrawnFrom
  <2> QED BY <2>4 DEF c, e
<1> QED BY <1>2, <1>5, <1>6, <1>7 DEF a, matrix

\* The first run, which --single takes.
LEMMA FirstDrawn ==
    ASSUME NEW s \in Specs, Expandable(s)
    PROVE  LET first == expandMatrix(s)[1]
           IN  /\ 1 \in DOMAIN expandMatrix(s)
               /\ DrawnFrom(s, resolveFirstRun(s))
               /\ resolveFirstRun(s).scenario = first.scenario
               /\ resolveFirstRun(s).scenarioRef = first.scenarioRef
               /\ resolveFirstRun(s).prompt = first.prompt
               /\ resolveFirstRun(s).profile = first.profile
               /\ resolveFirstRun(s).profileRef = first.profileRef
               /\ resolveFirstRun(s).provider = first.provider
               /\ resolveFirstRun(s).modelId = first.modelId
<1> DEFINE first == expandMatrix(s)[1]
           e == resolveFirstRun(s)
<1>1. /\ 1 \in DOMAIN expandMatrix(s) /\ DrawnFrom(s, first)
      /\ \E c : first = EntryOf(1, c)
  <2>1. 1 \in DOMAIN expandMatrix(s)
    BY MatrixDrawn
  <2> QED BY <2>1, MatrixDrawn
<1>2. /\ e.scenario = first.scenario /\ e.scenarioRef = first.scenarioRef
      /\ e.prompt = first.prompt /\ e.profile = first.profile
      /\ e.profileRef = first.profileRef /\ e.model = first.model
      /\ e.provider = first.provider /\ e.modelId = first.modelId
  BY <1>1 DEF resolveFirstRun, EntryOf
<1> HIDE DEF first, e
<1>3. DrawnFrom(s, e)
  BY <1>1, <1>2 DEF DrawnFrom
<1> QED BY <1>1, <1>2, <1>3 DEF first, e

\* The next position is in the same row, unless this one ends it.
LEMMA NextInRow ==
    ASSUME NEW n \in Nat \ {0}, NEW R \in Nat \ {0}, n % R # 0
    PROVE  n \div R = (n - 1) \div R /\ n % R = ((n - 1) % R) + 1
<1> DEFINE q == n \div R
           r == n % R
<1>1. q \in Nat /\ r \in 1..(R - 1) /\ r - 1 \in 0..(R - 1) /\ n = q * R + r
  <2>1. n \in Nat
    OBVIOUS
  <2>2. q \in Nat /\ r \in 0..(R - 1) /\ n = q * R + r
    BY <2>1, DivMod
  <2> HIDE DEF q
  <2> QED BY <2>2
<1> HIDE DEF q, r
<1>2. q * R \in Int /\ n - 1 = q * R + (r - 1)
  BY <1>1
<1>3. (n - 1) \div R = q /\ (n - 1) % R = r - 1
  <2>1. \A x \in Nat, y \in 0..(R - 1) : (x * R + y) \div R = x /\ (x * R + y) % R = y
    BY DivUnique
  <2> QED BY <1>1, <1>2, <2>1
<1> QED BY <1>1, <1>3 DEF q, r

\* Whole rows leave nothing.
LEMMA WholeRows ==
    ASSUME NEW q \in Nat, NEW R \in Nat \ {0} PROVE (q * R) % R = 0
<1>1. (q * R + 0) % R = 0
  <2>1. 0 \in 0..(R - 1)
    OBVIOUS
  <2> QED BY <2>1, DivUnique
<1>2. q * R + 0 = q * R
  OBVIOUS
<1> QED BY <1>1, <1>2

\* The sixth component.
LEMMA AppendSixth ==
    ASSUME NEW S, NEW c \in Seq(S), NEW v \in S
    PROVE  Len(c) = 5 => Append(c, v)[6] = v /\ \A k \in 1..5 : Append(c, v)[k] = c[k]
<1>1. Append(c, v)[Len(c) + 1] = v
  BY AppendComponents
<1>2. \A k \in 1..Len(c) : Append(c, v)[k] = c[k]
  BY AppendComponents
<1>3. Len(c) = 5 => Len(c) + 1 = 6
  OBVIOUS
<1>4. ASSUME Len(c) = 5, NEW k \in 1..5 PROVE Append(c, v)[k] = c[k]
  BY <1>2, <1>4, Zenon
<1>5. ASSUME Len(c) = 5 PROVE Append(c, v)[6] = v
  BY <1>1, <1>3, <1>5, Zenon
<1> QED BY <1>4, <1>5, Zenon

\* Consecutive cells are the repetitions of one combination.
LEMMA Repetitions ==
    ASSUME NEW s \in Specs, Expandable(s),
           NEW R, R = s.repetitions, NEW n \in 1..Size(LoopOrder(s))
    PROVE  /\ R \in Nat \ {0}
           /\ Cells(s)[n][6] = ((n - 1) % R) + 1
           /\ n % R # 0 =>
                 /\ n + 1 \in 1..Size(LoopOrder(s))
                 /\ \A k \in 1..5 : Cells(s)[n + 1][k] = Cells(s)[n][k]
                 /\ Cells(s)[n + 1][6] = Cells(s)[n][6] + 1
<1> DEFINE a == LoopOrder(s)
           S == ValuesOf(s)
<1>1. /\ \A k \in 1..6 : IsList(a[k]) /\ Len(a[k]) # 0 /\ Range(a[k]) \subseteq S
      /\ a[6] = [k \in 1..R |-> k] /\ Len(a[6]) = R /\ R \in Nat \ {0}
  BY AxesMade
<1>2. a = LoopOrder(s)
  OBVIOUS
<1> HIDE DEF a, S
<1> DEFINE some == Outer(a)
<1>3. /\ Cells(s) = Extend(some, a[6])
      /\ Len(some) = Len(a[1]) * Len(a[2]) * Len(a[3]) * Len(a[4]) * Len(a[5])
      /\ Len(some) \in Nat
      /\ \A p \in 1..Len(some) : some[p] \in Seq(S) /\ Len(some[p]) = 5
  <2>1. \A k \in 1..6 : IsList(a[k]) /\ Len(a[k]) # 0 /\ Range(a[k]) \subseteq S
    BY <1>1
  <2>2. Cells(s) = Extend(Outer(a), a[6])
    BY <1>2, <2>1, CellsMade
  <2>3. Len(Outer(a)) = Len(a[1]) * Len(a[2]) * Len(a[3]) * Len(a[4]) * Len(a[5])
    BY <1>2, <2>1, CellsMade
  <2>4. Len(Outer(a)) \in Nat
    BY <1>2, <2>1, CellsMade
  <2>5. \A q \in 1..Len(Outer(a)) : Outer(a)[q] \in {c \in Seq(S) : Len(c) = 5}
    BY <1>2, <2>1, CellsMade
  <2> QED BY <2>2, <2>3, <2>4, <2>5
<1> HIDE DEF some
<1>4. Size(a) \in Nat /\ Size(a) = Len(some) * R
  <2>1. Size(a) \in Nat
    BY <1>1, <1>2, CellsMade
  <2> QED BY <1>1, <1>3, <2>1 DEF Size
<1> DEFINE row(m) == ((m - 1) \div R) + 1
           col(m) == ((m - 1) % R) + 1
<1>5. /\ \A m \in 1..Size(a) : row(m) \in 1..Len(some) /\ col(m) \in 1..R
      /\ Cells(s) = [m \in 1..Size(a) |-> Append(some[row(m)], a[6][col(m)])]
  <2>1. Len(some) \in Nat /\ Len(a[6]) \in Nat \ {0}
    BY <1>1, <1>3
  <2>2. \A m \in 1..(Len(some) * Len(a[6])) :
              /\ ((m - 1) \div Len(a[6])) + 1 \in 1..Len(some)
              /\ ((m - 1) % Len(a[6])) + 1 \in 1..Len(a[6])
    BY <2>1, ExtendAt
  <2>3. Extend(some, a[6]) = [m \in 1..(Len(some) * Len(a[6])) |->
              Append(some[((m - 1) \div Len(a[6])) + 1], a[6][((m - 1) % Len(a[6])) + 1])]
    BY DEF Extend, Nest
  <2> QED BY <1>1, <1>3, <1>4, <2>2, <2>3
<1>6. ASSUME NEW m \in 1..Size(a)
      PROVE  /\ \A k \in 1..5 : Cells(s)[m][k] = some[row(m)][k]
             /\ Cells(s)[m][6] = col(m)
  <2> DEFINE x == some[row(m)]
             v == a[6][col(m)]
  <2> HIDE DEF row, col
  <2>1. Cells(s)[m] = Append(x, v)
    BY <1>5
  <2>2. x \in Seq(S) /\ Len(x) = 5
    BY <1>3, <1>5
  <2>3. v = col(m) /\ v \in S
    BY <1>1, <1>5 DEF Range
  <2> HIDE DEF x, v
  <2>4. Append(x, v)[6] = v /\ \A k \in 1..5 : Append(x, v)[k] = x[k]
    <3>1. x \in Seq(S) /\ v \in S /\ Len(x) = 5
      BY <2>2, <2>3
    <3> QED BY <3>1, AppendSixth
  <2> QED BY <2>1, <2>3, <2>4 DEF x
<1>7. ASSUME n % R # 0
      PROVE  n + 1 \in 1..Size(a) /\ row(n + 1) = row(n) /\ col(n + 1) = col(n) + 1
  <2>1. n \in Nat \ {0} /\ n \in 1..Size(a)
    BY <1>4 DEF a
  <2>2. n \div R = (n - 1) \div R /\ n % R = ((n - 1) % R) + 1
    BY <1>1, <1>7, <2>1, NextInRow
  <2>3. n # Size(a)
    <3>1. (Len(some) * R) % R = 0
      BY <1>1, <1>3, WholeRows
    <3> QED BY <1>4, <1>7, <3>1
  <2>4. (n + 1) - 1 = n
    BY <2>1
  <2>5. row(n + 1) = row(n) /\ col(n + 1) = col(n) + 1
    BY <2>2, <2>4
  <2> HIDE DEF row, col
  <2> QED BY <1>4, <2>1, <2>3, <2>5
<1>8. n \in 1..Size(a)
  BY DEF a
<1>9. Cells(s)[n][6] = ((n - 1) % R) + 1
  BY <1>6, <1>8
<1> HIDE DEF row, col
<1>10. ASSUME n % R # 0
       PROVE  /\ n + 1 \in 1..Size(a)
              /\ \A k \in 1..5 : Cells(s)[n + 1][k] = Cells(s)[n][k]
              /\ Cells(s)[n + 1][6] = Cells(s)[n][6] + 1
  <2>1. n + 1 \in 1..Size(a) /\ row(n + 1) = row(n) /\ col(n + 1) = col(n) + 1
    BY <1>7, <1>10
  <2>2. /\ \A k \in 1..5 : Cells(s)[n + 1][k] = some[row(n + 1)][k]
        /\ Cells(s)[n + 1][6] = col(n + 1)
    BY <1>6, <2>1
  <2> QED BY <1>6, <1>8, <2>1, <2>2
<1> QED BY <1>1, <1>9, <1>10 DEF a

\* An entry whose number, params and repetition are put in.
Entry(n, c, params, repetition) ==
    [runId |-> n, scenario |-> c[1].id, scenarioRef |-> c[1].ref, prompt |-> c[2].id,
     profile |-> c[3].id, profileRef |-> c[3].ref, model |-> c[4].id,
     provider |-> c[4].provider, modelId |-> c[4].model_id,
     params |-> params, repetition |-> repetition]

LEMMA EntryParts ==
    ASSUME NEW n, NEW c PROVE EntryOf(n, c) = Entry(n, c, c[5], c[6])
BY DEF EntryOf, Entry

NextOf(e, m)       == [e EXCEPT !.runId = m, !.repetition = @ + 1]
SweptTo(e, m, q)   == [e EXCEPT !.runId = m, !.params = q]

\* The entry with the next repetition, and one with other params.
LEMMA EntryChanged ==
    ASSUME NEW n, NEW c, NEW p, NEW r, NEW m, NEW q, NEW e
    PROVE  e = Entry(n, c, p, r) =>
              NextOf(e, m) = Entry(m, c, p, r + 1) /\ SweptTo(e, m, q) = Entry(m, c, q, r)
<1>0. SUFFICES ASSUME e = Entry(n, c, p, r)
               PROVE  /\ NextOf(e, m) = Entry(m, c, p, r + 1)
                      /\ SweptTo(e, m, q) = Entry(m, c, q, r)
  OBVIOUS
<1> DEFINE e1 == [e EXCEPT !.runId = m]
<1>1. e1 = Entry(m, c, p, r)
  BY <1>0 DEF Entry
<1>2. e.repetition = r
  BY <1>0 DEF Entry
<1>3. /\ [e1 EXCEPT !.repetition = e.repetition + 1] = Entry(m, c, p, r + 1)
      /\ [e1 EXCEPT !.params = q] = Entry(m, c, q, r)
  <2> HIDE DEF e1
  <2> QED BY <1>1, <1>2 DEF Entry
<1> QED BY <1>3 DEF NextOf, SweptTo

\* Only the first four components tell entries apart that are given the same.
LEMMA EntrySame ==
    ASSUME NEW n, NEW c, NEW d, NEW p, NEW r
    PROVE  (\A k \in 1..4 : c[k] = d[k]) => Entry(n, c, p, r) = Entry(n, d, p, r)
<1> SUFFICES ASSUME \A k \in 1..4 : c[k] = d[k] PROVE Entry(n, c, p, r) = Entry(n, d, p, r)
  OBVIOUS
<1>1. c[1] = d[1] /\ c[2] = d[2] /\ c[3] = d[3] /\ c[4] = d[4]
  OBVIOUS
<1> QED BY <1>1 DEF Entry

\* Every combination of values is a cell.
LEMMA NoneLeftOut ==
    ASSUME NEW s \in Specs, Expandable(s), NEW x \in [1..6 -> Nat],
           \A k \in 1..6 : x[k] \in DOMAIN LoopOrder(s)[k]
    PROVE  \E n \in 1..Size(LoopOrder(s)) :
              \A k \in 1..6 : Cells(s)[n][k] = LoopOrder(s)[k][x[k]]
<1> DEFINE a == LoopOrder(s)
           S == ValuesOf(s)
<1>1. \A k \in 1..6 : IsList(a[k]) /\ Len(a[k]) # 0 /\ Range(a[k]) \subseteq S
  BY AxesMade
<1>2. a = LoopOrder(s)
  OBVIOUS
<1> HIDE DEF a, S
<1>3. Combos(Cells(s), a, S, 6, Size(a))
  BY <1>1, <1>2, CellsMade
<1>4. \A y \in [1..6 -> Nat] : (\A k \in 1..6 : y[k] \in DOMAIN a[k]) =>
          \E n \in 1..Size(a) : \A k \in 1..6 : Cells(s)[n][k] = a[k][y[k]]
  BY <1>3 DEF Combos
<1> QED BY <1>2, <1>4

\* The matrix of a spec that expandMatrix does not refuse is its full factorial.
LEMMA MatrixFull ==
    ASSUME NEW s \in Specs, Expandable(s)
    PROVE  IsFullFactorial(s, expandMatrix(s))
<1> DEFINE a == LoopOrder(s)
           axes == << s.scenarios, Axis(s.factors, "prompt_swap"),
                      Axis(s.factors, "extension_select"), Axis(s.factors, "model_swap"),
                      ParamCombinations(s.factors) >>
           R == s.repetitions
           cells == expandMatrix(s)
           size == Len(axes[1]) * Len(axes[2]) * Len(axes[3]) * Len(axes[4]) * Len(axes[5])
<1>1. /\ R \in Nat \ {0} /\ Len(a[6]) = R /\ a[6] = [k \in 1..R |-> k]
      /\ \A k \in 1..6 : IsList(a[k])
  BY AxesMade
<1>2. \A k \in 1..5 : axes[k] = a[k]
  BY DEF LoopOrder
<1>3. /\ DOMAIN cells = 1..Size(a) /\ Size(a) \in Nat \ {0} /\ Len(cells) = Size(a)
      /\ \A n \in 1..Size(a) : cells[n] = EntryOf(n, Cells(s)[n])
  BY MatrixDrawn
<1>4. \A n \in 1..Size(a) :
           /\ Cells(s)[n][6] = ((n - 1) % R) + 1
           /\ n % R # 0 =>
                 /\ n + 1 \in 1..Size(a)
                 /\ \A k \in 1..5 : Cells(s)[n + 1][k] = Cells(s)[n][k]
                 /\ Cells(s)[n + 1][6] = Cells(s)[n][6] + 1
  BY Repetitions
<1>5. ASSUME NEW x \in [1..6 -> Nat], \A k \in 1..6 : x[k] \in DOMAIN a[k]
      PROVE  \E n \in 1..Size(a) : \A k \in 1..6 : Cells(s)[n][k] = a[k][x[k]]
  BY <1>5, NoneLeftOut
<1>6. Size(a) = size * R
  <2>1. size = Len(a[1]) * Len(a[2]) * Len(a[3]) * Len(a[4]) * Len(a[5])
    <3>1. /\ axes[1] = a[1] /\ axes[2] = a[2] /\ axes[3] = a[3]
          /\ axes[4] = a[4] /\ axes[5] = a[5]
      BY <1>2
    <3> HIDE DEF a, axes
    <3> QED BY <3>1, Zenon
  <2> HIDE DEF a, axes, size
  <2> QED BY <1>1, <2>1, Zenon DEF Size
<1> HIDE DEF a, axes, R, cells, size
<1>7. ASSUME NEW n \in 1..Size(a)
      PROVE  /\ cells[n].runId = n
             /\ cells[n].repetition = ((n - 1) % R) + 1
             /\ n % R # 0 =>
                  cells[n + 1] = [cells[n] EXCEPT !.runId = n + 1, !.repetition = @ + 1]
  <2>1. cells[n] = EntryOf(n, Cells(s)[n])
    BY <1>3
  <2>2. cells[n].runId = n /\ cells[n].repetition = Cells(s)[n][6]
    BY <2>1 DEF EntryOf
  <2>3. ASSUME n % R # 0
        PROVE  cells[n + 1] = [cells[n] EXCEPT !.runId = n + 1, !.repetition = @ + 1]
    <3>1. cells[n + 1] = EntryOf(n + 1, Cells(s)[n + 1])
      BY <1>3, <1>4, <2>3
    <3>2. /\ \A k \in 1..5 : Cells(s)[n + 1][k] = Cells(s)[n][k]
          /\ Cells(s)[n + 1][6] = Cells(s)[n][6] + 1
      BY <1>4, <2>3
    <3> DEFINE c == Cells(s)[n]
               d == Cells(s)[n + 1]
    <3>3. cells[n] = Entry(n, c, c[5], c[6]) /\ cells[n + 1] = Entry(n + 1, d, c[5], c[6] + 1)
      BY <2>1, <3>1, <3>2, EntryParts
    <3>4. Entry(n + 1, c, c[5], c[6] + 1) = Entry(n + 1, d, c[5], c[6] + 1)
      <4>1. \A k \in 1..4 : c[k] = d[k]
        BY <3>2
      <4> QED BY <4>1, EntrySame
    <3> HIDE DEF c, d
    <3>5. [cells[n] EXCEPT !.runId = n + 1, !.repetition = @ + 1]
             = Entry(n + 1, c, c[5], c[6] + 1)
      <4> DEFINE e == cells[n]
                 m == n + 1
                 p == c[5]
                 r == c[6]
      <4>1. e = Entry(n, c, p, r)
        BY <3>3
      <4> HIDE DEF e, m, p, r
      <4>2. NextOf(e, m) = Entry(m, c, p, r + 1)
        BY <4>1, EntryChanged
      <4> QED BY <4>2 DEF e, m, p, r, NextOf
    <3> QED BY <3>3, <3>4, <3>5
  <2> QED BY <1>4, <2>2, <2>3
<1>8. ASSUME NEW i \in DOMAIN axes[1], NEW b \in DOMAIN axes[2], NEW c \in DOMAIN axes[3],
             NEW d \in DOMAIN axes[4], NEW e \in DOMAIN axes[5], NEW r \in 1..R
      PROVE  \E n \in DOMAIN cells :
                cells[n] = EntryOf(n, <<axes[1][i], axes[2][b], axes[3][c], axes[4][d],
                                        axes[5][e], r>>)
  <2> DEFINE x == <<i, b, c, d, e, r>>
             y == <<axes[1][i], axes[2][b], axes[3][c], axes[4][d], axes[5][e], r>>
  <2>1. \A k \in 1..6 : DOMAIN a[k] \subseteq Nat
    BY <1>1 DEF IsList
  <2>2. /\ i \in DOMAIN a[1] /\ b \in DOMAIN a[2] /\ c \in DOMAIN a[3]
        /\ d \in DOMAIN a[4] /\ e \in DOMAIN a[5] /\ r \in DOMAIN a[6] /\ a[6][r] = r
    BY <1>1, <1>2
  <2>3. x \in [1..6 -> Nat] /\ \A k \in 1..6 : x[k] \in DOMAIN a[k]
    BY <2>1, <2>2
  <2>4. \A k \in 1..6 : y[k] = a[k][x[k]]
    BY <1>2, <2>2
  <2> HIDE DEF x, y
  <2>5. PICK n \in 1..Size(a) : \A k \in 1..6 : Cells(s)[n][k] = a[k][x[k]]
    BY <1>5, <2>3
  <2>6. EntryOf(n, Cells(s)[n]) = EntryOf(n, y)
    <3> DEFINE c0 == Cells(s)[n]
    <3>1. \A k \in 1..6 : c0[k] = y[k]
      BY <2>4, <2>5
    <3>2. EntryOf(n, c0) = Entry(n, c0, y[5], y[6]) /\ EntryOf(n, y) = Entry(n, y, y[5], y[6])
      BY <3>1, EntryParts
    <3>3. \A k \in 1..4 : c0[k] = y[k]
      BY <3>1
    <3> HIDE DEF c0
    <3>4. Entry(n, c0, y[5], y[6]) = Entry(n, y, y[5], y[6])
      BY <3>3, EntrySame
    <3> QED BY <3>2, <3>4 DEF c0
  <2> QED BY <1>3, <2>6 DEF y
<1>9. \A n \in DOMAIN cells : n \in 1..Size(a)
  BY <1>3
<1> QED BY <1>3, <1>6, <1>7, <1>8, <1>9 DEF IsFullFactorial, axes, R, size, cells

\* Where ids are unique, an id stands for one value.
LEMMA OneValue ==
    ASSUME NEW axis, NEW v \in Range(axis), NEW w \in Range(axis)
    PROVE  IdsUnique(axis) /\ v.id = w.id => v = w
BY DEF IdsUnique, Range

\* Where ids are unique, cells with the same row of the results table differ at most
\* in the model parameters.
LEMMA RowsTell ==
    ASSUME NEW s \in Specs, Expandable(s),
           IdsUnique(s.scenarios), \A type \in Required : IdsUnique(Axis(s.factors, type)),
           NEW i \in DOMAIN expandMatrix(s), NEW j \in DOMAIN expandMatrix(s)
    PROVE  LET cells == expandMatrix(s) IN
              RowOf(cells[i]) = RowOf(cells[j]) =>
                 [cells[i] EXCEPT !.runId = j, !.params = cells[j].params] = cells[j]
<1> DEFINE a == LoopOrder(s)
           S == ValuesOf(s)
           cells == expandMatrix(s)
           c == Cells(s)[i]
           d == Cells(s)[j]
<1>1. /\ \A k \in 1..6 : IsList(a[k]) /\ Len(a[k]) # 0 /\ Range(a[k]) \subseteq S
      /\ a[1] = s.scenarios
      /\ a[2] = Axis(s.factors, "prompt_swap")
      /\ a[3] = Axis(s.factors, "extension_select")
      /\ a[4] = Axis(s.factors, "model_swap")
  BY AxesMade
<1>2. a = LoopOrder(s)
  OBVIOUS
<1>3. i \in 1..Size(a) /\ j \in 1..Size(a) /\ cells[i] = EntryOf(i, c) /\ cells[j] = EntryOf(j, d)
  BY MatrixDrawn
<1>4. \A k \in 1..4 : IdsUnique(a[k])
  BY <1>1 DEF Required
<1> HIDE DEF a, S, cells
<1>5. Combos(Cells(s), a, S, 6, Size(a))
  BY <1>1, <1>2, CellsMade
<1>6. \A k \in 1..6 : c[k] \in Range(a[k]) /\ d[k] \in Range(a[k])
  BY <1>3, <1>5 DEF Combos
<1> HIDE DEF c, d
<1>7. ASSUME RowOf(cells[i]) = RowOf(cells[j])
      PROVE  [cells[i] EXCEPT !.runId = j, !.params = cells[j].params] = cells[j]
  <2>1. /\ c[2].id = d[2].id /\ c[3].id = d[3].id /\ c[4].id = d[4].id /\ c[1].id = d[1].id
        /\ c[6] = d[6]
    BY <1>3, <1>7 DEF RowOf, EntryOf
  <2>2. c[1] = d[1] /\ c[2] = d[2] /\ c[3] = d[3] /\ c[4] = d[4]
    BY <1>4, <1>6, <2>1, OneValue
  <2>3. \A k \in 1..4 : d[k] = c[k]
    BY <2>2
  <2>4. EntryOf(j, d) = [EntryOf(i, c) EXCEPT !.runId = j, !.params = EntryOf(j, d).params]
    <3>1. cells[i] = Entry(i, c, c[5], c[6]) /\ cells[j] = Entry(j, d, d[5], c[6])
      BY <1>3, <2>1, EntryParts
    <3>2. [cells[i] EXCEPT !.runId = j, !.params = d[5]] = Entry(j, c, d[5], c[6])
      <4> DEFINE e == cells[i]
                 p == c[5]
                 q == d[5]
                 r == c[6]
      <4>1. e = Entry(i, c, p, r)
        BY <3>1
      <4> HIDE DEF e, p, q, r
      <4>2. SweptTo(e, j, q) = Entry(j, c, q, r)
        BY <4>1, EntryChanged
      <4> QED BY <4>2 DEF e, p, q, r, SweptTo
    <3>3. \A k \in 1..4 : c[k] = d[k]
      BY <2>3
    <3>4. Entry(j, c, d[5], c[6]) = Entry(j, d, d[5], c[6])
      BY <3>3, EntrySame
    <3>5. cells[j].params = d[5]
      BY <3>1 DEF Entry
    <3> QED BY <1>3, <3>1, <3>2, <3>4, <3>5
  <2> QED BY <1>3, <2>4
<1> QED BY <1>7 DEF cells

\* Both forms of the plan, once a spec has been accepted.
LEMMA PlanMade ==
    ASSUME spec \in Specs, Expandable(spec),
           NEW p, p = IF call = "single" THEN <<resolveFirstRun(spec)>> ELSE expandMatrix(spec)
    PROVE  /\ DOMAIN p \subseteq Nat
           /\ \A i \in DOMAIN p :
                 p[i].profileRef \in Profiles /\ p[i].scenarioRef \in Scenarios
<1>1. ASSUME NEW e, DrawnFrom(spec, e)
      PROVE  e.profileRef \in Profiles /\ e.scenarioRef \in Scenarios
  BY <1>1, RefsThere, SpecsAssumption DEF DrawnFrom, Profiles, Scenarios
<1>2. CASE call # "single"
  <2>1. DOMAIN p \subseteq Nat /\ \A i \in DOMAIN p : DrawnFrom(spec, p[i])
    BY <1>2, MatrixDrawn
  <2> QED BY <1>1, <2>1
<1>3. CASE call = "single"
  <2>1. DOMAIN <<resolveFirstRun(spec)>> = {1} /\ <<resolveFirstRun(spec)>>[1] = resolveFirstRun(spec)
    OBVIOUS
  <2>2. DrawnFrom(spec, resolveFirstRun(spec))
    BY FirstDrawn
  <2> QED BY <1>1, <1>3, <2>1, <2>2
<1> QED BY <1>2, <1>3

-----------------------------------------------------------------------------
(* Type correctness.                                                        *)

\* A run has asked for its profile exactly if a lane has taken it.
TakenOK == \A i \in DOMAIN plan : stage[i] = "waiting" <=> given[i].profile = None

TInv == TypeOK /\ PlanOK /\ TakenOK

LEMMA InitTyped == Init => TInv
BY DEF Init, TInv, TypeOK, PlanOK, TakenOK, ProfileIds, ScenarioIds, Given

\* Only Expand makes a new plan.
LEMMA ExpandTyped == TInv /\ Expand => TInv'
<1> SUFFICES ASSUME TInv, Expand PROVE TInv'
  OBVIOUS
<1>1. /\ DOMAIN plan' \subseteq Nat
      /\ \A i \in DOMAIN plan' :
            plan'[i].profileRef \in Profiles /\ plan'[i].scenarioRef \in Scenarios
  BY PlanMade DEF Expand, TInv, TypeOK
<1>2. PlanOK'
  BY <1>1 DEF PlanOK, Profiles, Scenarios
<1>3. stage' \in [DOMAIN plan' -> Stages]
  BY DEF Expand, Stages, Pending
<1>4. /\ (profileCache \in [ProfileIds -> Profiles \cup {None}])'
      /\ (scenarioCache \in [ScenarioIds -> Scenarios \cup {None}])'
  BY DEF Expand, Profiles, Scenarios
<1>5. (Nothing \in Given)'
  BY DEF Nothing, Given, Lists
<1>6. (given \in [DOMAIN plan -> Given])'
  BY <1>5 DEF Expand, Nothing
<1>7. registered' \in [DOMAIN plan' -> SUBSET Known]
  BY DEF Expand
<1>8. \A i \in DOMAIN plan' :
         given'[i].fate = None /\ given'[i].profile = None /\ stage'[i] = "waiting"
  BY DEF Expand, Nothing
<1>9. phase' = "running" /\ UNCHANGED <<spec, call, verdict>>
  BY DEF Expand
<1> QED BY <1>2, <1>3, <1>4, <1>6, <1>7, <1>8, <1>9 DEF TInv, TypeOK, TakenOK, Known

\* What a step of a run keeps.
LEMMA FrameTyped ==
    ASSUME TInv, UNCHANGED command
    PROVE  /\ PlanOK'
           /\ ProfileIds' = ProfileIds /\ ScenarioIds' = ScenarioIds /\ Given' = Given
           /\ spec' \in Specs /\ call' \in {"single", "matrix"}
           /\ verdict' \in {None, "OK", "FAIL"}
           /\ phase' \in {"idle", "accepted", "refused", "running", "previewed", "finished"}
BY DEF TInv, TypeOK, PlanOK, command, ProfileIds, ScenarioIds, Given, Lists

LEMMA EndTyped ==
    ASSUME TInv, NEW i \in DOMAIN plan, NEW from \in Pending \ {"waiting"}, At(i, from),
           NEW fate \in Causes \cup {"ok"},
           EndWith(i, fate), UNCHANGED <<caches, registered>>
    PROVE  TInv'
<1>1. /\ stage' \in [DOMAIN plan -> Stages]
      /\ stage' = [stage EXCEPT ![i] = "ended"]
  BY DEF EndWith, GoTo, TInv, TypeOK, Stages
<1>2. /\ given' \in [DOMAIN plan -> Given]
      /\ given' = [given EXCEPT ![i].fate = fate]
  <2>1. /\ given \in [DOMAIN plan -> Given] /\ given[i] \in Given
        /\ given' = [given EXCEPT ![i] = [given[i] EXCEPT !.fate = fate]]
    BY DEF EndWith, TInv, TypeOK
  <2>2. [given[i] EXCEPT !.fate = fate] \in Given
    BY <2>1 DEF Given
  <2> QED BY <2>1, <2>2
<1>3. \A j \in DOMAIN plan : given'[j].fate = None <=> stage'[j] # "ended"
  BY <1>1, <1>2, NoneFacts DEF TInv, TypeOK, Given
<1>4. \A j \in DOMAIN plan : given'[j].profile = given[j].profile
  BY <1>2 DEF TInv, TypeOK, Given
<1>5. TakenOK'
  BY <1>1, <1>4 DEF At, TInv, TypeOK, TakenOK, command, Pending
<1> QED
  BY <1>1, <1>2, <1>3, <1>5, FrameTyped DEF At, TInv, TypeOK, command, caches, Known

LEMMA ProfileTyped ==
    ASSUME TInv, NEW i \in DOMAIN plan, RequestProfile(i)
    PROVE  TInv'
<1> DEFINE ref == Cached(profileCache, plan[i].profile, plan[i].profileRef)
<1>1. ref \in Profiles /\ plan[i].profile \in ProfileIds
  BY DEF Cached, TInv, TypeOK, PlanOK, ProfileIds
<1>2. profileCache' \in [ProfileIds -> Profiles \cup {None}]
  BY <1>1 DEF RequestProfile, TInv, TypeOK
<1>3. /\ given' \in [DOMAIN plan -> Given]
      /\ \A j \in DOMAIN plan : j # i => given'[j] = given[j]
      /\ given'[i].fate = IF ProfileLoads(ref) THEN None ELSE "profile"
      /\ given'[i].profile = ref
  <2> DEFINE f == IF ProfileLoads(ref) THEN None ELSE "profile"
             g == [given[i] EXCEPT !.profile = ref, !.fate = f]
  <2>1. /\ given \in [DOMAIN plan -> Given] /\ given[i] \in Given
        /\ given' = [given EXCEPT ![i] = g]
    BY DEF RequestProfile, TInv, TypeOK
  <2>2. f \in Causes \cup {None, "ok"}
    BY DEF Causes
  <2>3. g \in Given /\ g.fate = f /\ g.profile = ref
    <3> DEFINE k == [given[i] EXCEPT !.profile = ref]
    <3>1. k \in Given /\ k.profile = ref
      BY <1>1, <2>1 DEF Given
    <3>2. g = [k EXCEPT !.fate = f]
      OBVIOUS
    <3> HIDE DEF f, k, g
    <3> QED BY <2>2, <3>1, <3>2 DEF Given
  <2>4. given' \in [DOMAIN plan -> Given] /\ given'[i].fate = f /\ given'[i].profile = ref
    <3> HIDE DEF g, f
    <3> QED BY <2>1, <2>3
  <2>5. \A j \in DOMAIN plan : j # i => given'[j] = given[j]
    <3> HIDE DEF g
    <3> QED BY <2>1
  <2> QED BY <2>4, <2>5
<1>4. stage' \in [DOMAIN plan -> Stages]
  BY DEF RequestProfile, GoTo, TInv, TypeOK, Stages, Pending
<1>5. \A j \in DOMAIN plan : given'[j].fate = None <=> stage'[j] # "ended"
  BY <1>3, NoneFacts DEF RequestProfile, GoTo, TInv, TypeOK, Causes
<1>6. TakenOK'
  BY <1>1, <1>3, NoneFacts DEF RequestProfile, At, GoTo, TInv, TypeOK, TakenOK, command
<1> QED
  BY <1>2, <1>3, <1>4, <1>5, <1>6, FrameTyped
  DEF RequestProfile, At, TInv, TypeOK, command, Known

LEMMA ScenarioTyped ==
    ASSUME TInv, NEW i \in DOMAIN plan, RequestScenario(i)
    PROVE  TInv'
<1> DEFINE ref == Cached(scenarioCache, plan[i].scenario, plan[i].scenarioRef)
<1>1. ref \in Scenarios /\ plan[i].scenario \in ScenarioIds
  BY DEF Cached, TInv, TypeOK, PlanOK, ScenarioIds
<1>2. scenarioCache' \in [ScenarioIds -> Scenarios \cup {None}]
  BY <1>1 DEF RequestScenario, TInv, TypeOK
<1>3. /\ given' \in [DOMAIN plan -> Given]
      /\ \A j \in DOMAIN plan :
            given'[j].fate = given[j].fate /\ given'[j].profile = given[j].profile
  <2>1. /\ given \in [DOMAIN plan -> Given] /\ given[i] \in Given
        /\ given' = [given EXCEPT ![i] = [given[i] EXCEPT !.scenario = ref]]
    BY DEF RequestScenario, TInv, TypeOK
  <2>2. /\ [given[i] EXCEPT !.scenario = ref] \in Given
        /\ [given[i] EXCEPT !.scenario = ref].fate = given[i].fate
        /\ [given[i] EXCEPT !.scenario = ref].profile = given[i].profile
    BY <1>1, <2>1 DEF Given
  <2> QED BY <2>1, <2>2
<1>4. stage' \in [DOMAIN plan -> Stages]
  BY DEF RequestScenario, GoTo, TInv, TypeOK, Stages, Pending
<1>5. \A j \in DOMAIN plan : given'[j].fate = None <=> stage'[j] # "ended"
  BY <1>3 DEF RequestScenario, At, GoTo, TInv, TypeOK
<1>6. TakenOK'
  BY <1>3 DEF RequestScenario, At, GoTo, TInv, TypeOK, TakenOK, command
<1> QED
  BY <1>2, <1>3, <1>4, <1>5, <1>6, FrameTyped
  DEF RequestScenario, At, TInv, TypeOK, command, Known

\* Steps that change neither a fate nor what has ended.
LEMMA StepTyped ==
    ASSUME TInv, NEW i \in DOMAIN plan, NEW from \in Pending \ {"waiting"},
           NEW to \in Pending \ {"waiting"}, At(i, from),
           stage' = [stage EXCEPT ![i] = to] \/ UNCHANGED stage,
           UNCHANGED caches,
           given' \in [DOMAIN plan -> Given],
           \A j \in DOMAIN plan :
              given'[j].fate = given[j].fate /\ given'[j].profile = given[j].profile,
           registered' \in [DOMAIN plan -> SUBSET Known]
    PROVE  TInv'
<1>1. stage' \in [DOMAIN plan -> Stages]
  BY DEF TInv, TypeOK, Stages
<1>2. \A j \in DOMAIN plan : given'[j].fate = None <=> stage'[j] # "ended"
  BY DEF At, TInv, TypeOK, Pending
<1>3. TakenOK'
  BY DEF At, TInv, TypeOK, TakenOK, command
<1> QED BY <1>1, <1>2, <1>3, FrameTyped DEF At, TInv, TypeOK, command, caches, Known

\* What is found for a scenario, once a run has its profile.
LEMMA ListsTyped ==
    ASSUME TInv, NEW i \in DOMAIN plan, stage[i] # "waiting"
    PROVE  LET p  == given[i].profile
               id == plan[i].scenario
           IN  /\ ExtensionsFor(p, id) \in Lists(ExtensionsFor)
               /\ ContextFor(p, id) \in Lists(ContextFor)
               /\ ToolsFor(p, id) \in Lists(ToolsFor)
<1>1. given[i].profile \in Profiles /\ plan[i].scenario \in ScenarioIds
  BY DEF TInv, TypeOK, TakenOK, Given, ScenarioIds
<1> QED BY <1>1 DEF Lists

LEMMA OpenTyped ==
    ASSUME TInv, NEW i \in DOMAIN plan, Open(i) PROVE TInv'
<1> DEFINE x == ExtensionsFor(given[i].profile, plan[i].scenario)
           g == [given[i] EXCEPT !.extensions = x]
<1>1. /\ given \in [DOMAIN plan -> Given] /\ given[i] \in Given
      /\ given' = [given EXCEPT ![i] = g]
  BY DEF Open, TInv, TypeOK
<1>2. x \in Lists(ExtensionsFor)
  BY ListsTyped DEF Open, At
<1>3. g \in Given /\ g.fate = given[i].fate /\ g.profile = given[i].profile
  <2> HIDE DEF x
  <2> QED BY <1>1, <1>2 DEF Given
<1>4. registered' \in [DOMAIN plan -> SUBSET Known]
  BY DEF Open, TInv, TypeOK, Known
<1> HIDE DEF x, g
<1>5. /\ given' \in [DOMAIN plan -> Given]
      /\ \A j \in DOMAIN plan :
            given'[j].fate = given[j].fate /\ given'[j].profile = given[j].profile
  BY <1>1, <1>3
<1> QED BY <1>4, <1>5, StepTyped DEF Open, GoTo, Pending

LEMMA ContextTyped ==
    ASSUME TInv, NEW i \in DOMAIN plan, AddContext(i) PROVE TInv'
<1> DEFINE c == ContextFor(given[i].profile, plan[i].scenario)
           g == [given[i] EXCEPT !.context = c]
<1>1. /\ given \in [DOMAIN plan -> Given] /\ given[i] \in Given
      /\ given' = [given EXCEPT ![i] = g]
  BY DEF AddContext, TInv, TypeOK
<1>2. c \in Lists(ContextFor)
  BY ListsTyped DEF AddContext, At
<1>3. g \in Given /\ g.fate = given[i].fate /\ g.profile = given[i].profile
  <2> HIDE DEF c
  <2> QED BY <1>1, <1>2 DEF Given
<1> HIDE DEF c, g
<1>4. /\ given' \in [DOMAIN plan -> Given]
      /\ \A j \in DOMAIN plan :
            given'[j].fate = given[j].fate /\ given'[j].profile = given[j].profile
  BY <1>1, <1>3
<1> QED BY <1>4, StepTyped DEF AddContext, GoTo, Pending, TInv, TypeOK

LEMMA PinTyped ==
    ASSUME TInv, NEW i \in DOMAIN plan, PinAgents(i) PROVE TInv'
BY StepTyped DEF PinAgents, GoTo, Pending, TInv, TypeOK

LEMMA SessionTyped ==
    ASSUME TInv, NEW i \in DOMAIN plan, RunSession(i) PROVE TInv'
<1> DEFINE t == ToolsFor(given[i].profile, plan[i].scenario)
           g == [given[i] EXCEPT !.tools = t, !.sessions = @ + 1]
<1>1. /\ given \in [DOMAIN plan -> Given] /\ given[i] \in Given
      /\ given' = [given EXCEPT ![i] = g]
  BY DEF RunSession, TInv, TypeOK
<1>2. t \in Lists(ToolsFor)
  BY ListsTyped DEF RunSession, At
<1>3. g \in Given /\ g.fate = given[i].fate /\ g.profile = given[i].profile
  <2> DEFINE k == [given[i] EXCEPT !.tools = t]
  <2>1. /\ k \in Given /\ k.fate = given[i].fate /\ k.profile = given[i].profile
        /\ g = [k EXCEPT !.sessions = @ + 1]
    <3> HIDE DEF t
    <3> QED BY <1>1, <1>2 DEF Given
  <2> HIDE DEF t, k, g
  <2> QED BY <2>1 DEF Given
<1> HIDE DEF t, g
<1>4. /\ given' \in [DOMAIN plan -> Given]
      /\ \A j \in DOMAIN plan :
            given'[j].fate = given[j].fate /\ given'[j].profile = given[j].profile
  BY <1>1, <1>3
<1> QED BY <1>4, StepTyped DEF RunSession, GoTo, Pending, TInv, TypeOK

LEMMA HarnessTyped ==
    ASSUME TInv, NEW i \in DOMAIN plan, RegisterHarness(i) PROVE TInv'
<1>1. registered' \in [DOMAIN plan -> SUBSET Known]
  BY DEF RegisterHarness, TInv, TypeOK, Known
<1> QED BY <1>1, StepTyped DEF RegisterHarness, GoTo, Pending, TInv, TypeOK

\* What a plugin registers.
LEMMA PluginKnown ==
    ASSUME TInv, NEW i \in DOMAIN plan, given[i].loaded < Len(spec.plugins),
           NextPlugin(i) # None
    PROVE  Registers(NextPlugin(i)) \subseteq Known
<1>1. given[i].loaded \in Nat /\ Len(spec.plugins) \in Nat
  BY PluginsListed DEF TInv, TypeOK, Given
<1>2. spec.plugins[given[i].loaded + 1] \in DOMAIN PluginModules
  BY <1>1, PluginsListed DEF TInv, TypeOK
<1> QED BY <1>2 DEF NextPlugin, Known

LEMMA PluginTyped ==
    ASSUME TInv, NEW i \in DOMAIN plan, LoadPlugin(i) PROVE TInv'
<1>1. registered' \in [DOMAIN plan -> SUBSET Known]
  BY PluginKnown DEF LoadPlugin, TInv, TypeOK
<1>2. /\ given' \in [DOMAIN plan -> Given]
      /\ \A j \in DOMAIN plan :
            given'[j].fate = given[j].fate /\ given'[j].profile = given[j].profile
  <2> DEFINE g == [given[i] EXCEPT !.loaded = @ + 1]
  <2>1. /\ given \in [DOMAIN plan -> Given] /\ given[i] \in Given
        /\ given' = [given EXCEPT ![i] = g]
    BY DEF LoadPlugin, TInv, TypeOK
  <2>2. g \in Given /\ g.fate = given[i].fate /\ g.profile = given[i].profile
    BY <2>1 DEF Given
  <2> HIDE DEF g
  <2> QED BY <2>1, <2>2
<1>3. "measure" \in Pending \ {"waiting"}
  BY DEF Pending
<1>4. At(i, "measure") /\ UNCHANGED stage /\ UNCHANGED caches
  BY DEF LoadPlugin
<1> QED BY <1>1, <1>2, <1>3, <1>4, StepTyped

LEMMA RunTyped ==
    ASSUME TInv, NEW i \in DOMAIN plan, RunStep(i) PROVE TInv'
<1>1. CASE RequestProfile(i)
  BY <1>1, ProfileTyped
<1>2. CASE RequestScenario(i)
  BY <1>2, ScenarioTyped
<1>3. CASE NoPrompt(i)
  BY <1>3, EndTyped DEF NoPrompt, Pending, Causes
<1>4. CASE NoStrategy(i)
  BY <1>4, EndTyped DEF NoStrategy, Pending, Causes
<1>5. CASE Open(i)
  BY <1>5, OpenTyped
<1>6. CASE RunSession(i)
  BY <1>6, SessionTyped
<1>7. CASE RegisterHarness(i)
  BY <1>7, HarnessTyped
<1>8. CASE LoadPlugin(i)
  BY <1>8, PluginTyped
<1>9. CASE PluginFails(i)
  BY <1>9, EndTyped DEF PluginFails, Pending, Causes
<1>10. CASE Measure(i)
  BY <1>10, EndTyped DEF Measure, Pending, Causes
<1>11. CASE AddContext(i)
  BY <1>11, ContextTyped
<1>12. CASE PinAgents(i)
  BY <1>12, PinTyped
<1>13. CASE ContextFails(i)
  BY <1>13, EndTyped DEF ContextFails, Pending, Causes
<1>14. CASE PinFails(i)
  BY <1>14, EndTyped DEF PinFails, Pending, Causes
<1>15. CASE NoModel(i) \/ NoExtension(i)
  BY <1>15, EndTyped DEF NoModel, NoExtension, Pending, Causes
<1> QED
  BY <1>1, <1>2, <1>3, <1>4, <1>5, <1>6, <1>7, <1>8, <1>9, <1>10, <1>11, <1>12, <1>13,
     <1>14, <1>15 DEF RunStep

\* Preparing a call and finishing one touch no run.
LEMMA CommandTyped ==
    ASSUME TInv,
           SpecValidate \/ (\E c \in {"single", "matrix"} : Prepare(c)) \/ ExpandThrows \/ Finish
              \/ UNCHANGED vars
    PROVE  TInv'
<1>1. UNCHANGED <<spec, plan, stage, caches, given, registered>>
  BY DEF SpecValidate, Prepare, ExpandThrows, Finish, vars, command
<1>2. /\ phase' \in {"idle", "accepted", "refused", "running", "previewed", "finished"}
      /\ call' \in {"single", "matrix"} /\ verdict' \in {None, "OK", "FAIL"}
  BY DEF SpecValidate, Prepare, ExpandThrows, Finish, vars, command, TInv, TypeOK
<1>3. /\ ProfileIds' = ProfileIds /\ ScenarioIds' = ScenarioIds /\ Given' = Given
      /\ Known' = Known
  BY <1>1 DEF ProfileIds, ScenarioIds, Given, Lists, Known
<1>4. PlanOK' /\ TakenOK'
  BY <1>1 DEF PlanOK, TakenOK, TInv
<1>5. TypeOK'
  BY <1>1, <1>2, <1>3 DEF TInv, TypeOK, caches
<1> QED BY <1>4, <1>5 DEF TInv

LEMMA NextTyped == TInv /\ [Next]_vars => TInv'
BY RunTyped, CommandTyped, ExpandTyped DEF Next

\* For every set of specs, files and plugins the dispatch is type correct.
THEOREM TypeCorrect == Spec => []TypeOK
<1>1. TInv => TypeOK
  BY DEF TInv
<1> QED BY <1>1, InitTyped, NextTyped, PTL DEF Spec

-----------------------------------------------------------------------------
(* Runs that share an id share their files.                                 *)

\* The first entry with its profile id.
First(i) == \A j \in DOMAIN plan : j < i => plan[j].profile # plan[i].profile

\* What a run was given is what its cache holds; a profile cache is filled by
\* the first entry with the id, and only once a lane has taken that entry.
CachesOK ==
    \A i \in DOMAIN plan :
        /\ given[i].profile # None => given[i].profile = profileCache[plan[i].profile]
        /\ First(i) /\ profileCache[plan[i].profile] # None =>
              /\ profileCache[plan[i].profile] = plan[i].profileRef
              /\ stage[i] # "waiting"
        /\ given[i].scenario # None =>
              given[i].scenario = scenarioCache[plan[i].scenario]
        /\ scenarioCache[plan[i].scenario] # None => \E k \in DOMAIN plan :
              /\ plan[k].scenario = plan[i].scenario
              /\ plan[k].scenarioRef = scenarioCache[plan[i].scenario]

LEMMA CachesStart == Init => CachesOK
BY DEF Init, CachesOK

LEMMA CachesEmpty ==
    ASSUME TInv, Expand PROVE CachesOK'
<1>1. \A i \in DOMAIN plan' :
         /\ given'[i].profile = None /\ given'[i].scenario = None
         /\ profileCache'[plan'[i].profile] = None
         /\ scenarioCache'[plan'[i].scenario] = None
  BY DEF Expand, Nothing, ProfileIds, ScenarioIds
<1> QED BY <1>1 DEF CachesOK

LEMMA CachesProfile ==
    ASSUME TInv, CachesOK, NEW i \in DOMAIN plan, RequestProfile(i)
    PROVE  CachesOK'
<1> DEFINE id == plan[i].profile
           ref == Cached(profileCache, id, plan[i].profileRef)
<1>1. /\ \A j \in DOMAIN plan : plan[j].profile \in ProfileIds
      /\ DOMAIN profileCache = ProfileIds /\ DOMAIN given = DOMAIN plan
      /\ DOMAIN stage = DOMAIN plan /\ DOMAIN plan \subseteq Nat
      /\ given[i] \in Given
  BY DEF TInv, TypeOK, PlanOK, ProfileIds
<1>2. /\ profileCache' = [profileCache EXCEPT ![id] = ref]
      /\ stage[i] = "waiting"
      /\ \A j \in DOMAIN plan : j < i => stage[j] # "waiting"
      /\ \A j \in DOMAIN plan : j # i => stage'[j] = stage[j]
      /\ stage'[i] # "waiting"
      /\ plan' = plan /\ scenarioCache' = scenarioCache
  BY <1>1 DEF RequestProfile, At, GoTo, command
<1>3. /\ \A j \in DOMAIN plan : j # i => given'[j] = given[j]
      /\ given'[i].profile = ref /\ given'[i].scenario = given[i].scenario
  BY <1>1 DEF RequestProfile, Given
<1>4. /\ \A j \in DOMAIN plan :
            profileCache'[plan[j].profile] =
               IF plan[j].profile = id THEN ref ELSE profileCache[plan[j].profile]
      /\ profileCache[id] # None => ref = profileCache[id]
  BY <1>1, <1>2 DEF Cached
<1>5. ASSUME NEW m \in DOMAIN plan, First(m), plan[m].profile = id
      PROVE  ref = plan[m].profileRef /\ stage'[m] # "waiting"
  <2>1. ~(i < m)
    BY <1>5 DEF First
  <2>2. CASE m = i
    <3>1. profileCache[id] = None
      BY <1>2, <1>5, <2>2 DEF CachesOK
    <3> QED BY <1>2, <2>2, <3>1 DEF Cached
  <2>3. CASE m < i
    <3>1. stage[m] # "waiting" /\ given[m].profile # None
      BY <1>2, <2>3 DEF TInv, TakenOK
    <3>2. profileCache[id] # None /\ profileCache[id] = plan[m].profileRef
      BY <1>5, <3>1 DEF CachesOK
    <3> QED BY <1>2, <1>4, <2>3, <3>1, <3>2
  <2> QED BY <1>1, <2>1, <2>2, <2>3
<1>6. \A j \in DOMAIN plan : First(j)' <=> First(j)
  BY <1>2 DEF First
<1>7. \A j \in DOMAIN plan :
         given'[j].profile # None => given'[j].profile = profileCache'[plan[j].profile]
  BY <1>3, <1>4 DEF CachesOK
<1>8. \A j \in DOMAIN plan : First(j) /\ profileCache'[plan[j].profile] # None =>
         profileCache'[plan[j].profile] = plan[j].profileRef /\ stage'[j] # "waiting"
  BY <1>2, <1>4, <1>5 DEF CachesOK
<1>9. \A j \in DOMAIN plan : given'[j].scenario = given[j].scenario
  BY <1>3
<1> HIDE DEF id, ref
<1> QED BY <1>2, <1>6, <1>7, <1>8, <1>9 DEF CachesOK

LEMMA CachesScenario ==
    ASSUME TInv, CachesOK, NEW i \in DOMAIN plan, RequestScenario(i)
    PROVE  CachesOK'
<1> DEFINE id == plan[i].scenario
           ref == Cached(scenarioCache, id, plan[i].scenarioRef)
<1>1. /\ \A j \in DOMAIN plan : plan[j].scenario \in ScenarioIds
      /\ DOMAIN scenarioCache = ScenarioIds /\ DOMAIN given = DOMAIN plan
      /\ DOMAIN stage = DOMAIN plan
      /\ given[i] \in Given
  BY DEF TInv, TypeOK, ScenarioIds
<1>2. /\ scenarioCache' = [scenarioCache EXCEPT ![id] = ref]
      /\ plan' = plan /\ profileCache' = profileCache
      /\ \A j \in DOMAIN plan : stage[j] # "waiting" => stage'[j] # "waiting"
  BY <1>1 DEF RequestScenario, At, GoTo, command
<1>3. /\ \A j \in DOMAIN plan : j # i => given'[j].scenario = given[j].scenario
      /\ \A j \in DOMAIN plan : given'[j].profile = given[j].profile
      /\ given'[i].scenario = ref
  BY <1>1 DEF RequestScenario, Given
<1>4. /\ \A j \in DOMAIN plan :
            scenarioCache'[plan[j].scenario] =
               IF plan[j].scenario = id THEN ref ELSE scenarioCache[plan[j].scenario]
      /\ scenarioCache[id] # None => ref = scenarioCache[id]
      /\ scenarioCache[id] = None => ref = plan[i].scenarioRef
  BY <1>1, <1>2 DEF Cached
<1>5. \E k \in DOMAIN plan : plan[k].scenario = id /\ plan[k].scenarioRef = ref
  BY <1>4 DEF CachesOK
<1>6. \A j \in DOMAIN plan : First(j)' <=> First(j)
  BY <1>2 DEF First
<1>7. \A j \in DOMAIN plan :
         given'[j].scenario # None => given'[j].scenario = scenarioCache'[plan[j].scenario]
  BY <1>3, <1>4 DEF CachesOK
<1>8. \A j \in DOMAIN plan : scenarioCache'[plan[j].scenario] # None =>
         \E k \in DOMAIN plan :
            /\ plan[k].scenario = plan[j].scenario
            /\ plan[k].scenarioRef = scenarioCache'[plan[j].scenario]
  BY <1>4, <1>5 DEF CachesOK
<1> HIDE DEF id, ref
<1> QED BY <1>2, <1>3, <1>6, <1>7, <1>8 DEF CachesOK

\* Other steps of a run fill no cache and hand out no files.
LEMMA CachesKept ==
    ASSUME TInv, CachesOK, UNCHANGED <<plan, caches>>,
           \A j \in DOMAIN plan :
              /\ given'[j].profile = given[j].profile
              /\ given'[j].scenario = given[j].scenario
              /\ stage[j] # "waiting" => stage'[j] # "waiting"
    PROVE  CachesOK'
<1>1. \A j \in DOMAIN plan : First(j)' <=> First(j)
  BY DEF First
<1> QED BY <1>1 DEF CachesOK, caches

\* The steps of a run between its files and its end.
Later(i) == \/ NoPrompt(i) \/ NoStrategy(i) \/ Open(i) \/ AddContext(i)
            \/ ContextFails(i) \/ PinAgents(i) \/ PinFails(i) \/ NoModel(i)
            \/ NoExtension(i) \/ RunSession(i)
            \/ RegisterHarness(i) \/ LoadPlugin(i) \/ PluginFails(i) \/ Measure(i)

LEMMA LaterKeeps ==
    ASSUME TInv, NEW i \in DOMAIN plan, Later(i)
    PROVE  /\ UNCHANGED <<plan, caches>>
           /\ \A j \in DOMAIN plan :
                 /\ given'[j].profile = given[j].profile
                 /\ given'[j].scenario = given[j].scenario
                 /\ stage[j] # "waiting" => stage'[j] # "waiting"
<1>1. /\ DOMAIN given = DOMAIN plan /\ DOMAIN stage = DOMAIN plan
      /\ given[i] \in Given
  BY DEF TInv, TypeOK
<1>2. ASSUME NEW fate, EndWith(i, fate)
      PROVE  \A j \in DOMAIN plan :
                 /\ given'[j].profile = given[j].profile
                 /\ given'[j].scenario = given[j].scenario
                 /\ stage[j] # "waiting" => stage'[j] # "waiting"
  BY <1>1, <1>2 DEF EndWith, GoTo, Given
<1>3. CASE NoPrompt(i) \/ NoStrategy(i) \/ PluginFails(i) \/ Measure(i)
  BY <1>2, <1>3 DEF NoPrompt, NoStrategy, PluginFails, Measure, At, command
<1>4. CASE Open(i)
  BY <1>1, <1>4 DEF Open, At, GoTo, command, Given
<1>5. CASE RunSession(i)
  BY <1>1, <1>5 DEF RunSession, At, GoTo, command, Given
<1>6. CASE RegisterHarness(i)
  BY <1>1, <1>6 DEF RegisterHarness, At, GoTo, command
<1>7. CASE LoadPlugin(i)
  BY <1>1, <1>7 DEF LoadPlugin, At, command, Given
<1>8. CASE AddContext(i)
  BY <1>1, <1>8 DEF AddContext, At, GoTo, command, Given
<1>9. CASE PinAgents(i)
  BY <1>1, <1>9 DEF PinAgents, At, GoTo, command
<1>10. CASE ContextFails(i) \/ PinFails(i) \/ NoModel(i) \/ NoExtension(i)
  BY <1>2, <1>10 DEF ContextFails, PinFails, NoModel, NoExtension, At, command
<1> QED BY <1>3, <1>4, <1>5, <1>6, <1>7, <1>8, <1>9, <1>10 DEF Later

LEMMA CachesNext == TInv /\ CachesOK /\ [Next]_vars => CachesOK'
<1> SUFFICES ASSUME TInv, CachesOK, [Next]_vars PROVE CachesOK'
  OBVIOUS
<1>1. CASE Expand
  BY <1>1, CachesEmpty
<1>2. ASSUME NEW i \in DOMAIN plan, RunStep(i) PROVE CachesOK'
  <2>1. CASE Later(i)
    BY <2>1, LaterKeeps, CachesKept
  <2> QED BY <1>2, <2>1, CachesProfile, CachesScenario DEF RunStep, Later
<1>3. CASE SpecValidate \/ (\E c \in {"single", "matrix"} : Prepare(c)) \/ ExpandThrows \/ Finish
             \/ UNCHANGED vars
  <2>1. UNCHANGED <<plan, stage, given, caches>>
    BY <1>3 DEF SpecValidate, Prepare, ExpandThrows, Finish, vars, command
  <2> QED BY <2>1, CachesKept
<1> QED BY <1>1, <1>2, <1>3 DEF Next

\* Runs that carry one id have the same files: for a profile those of the first
\* entry with the id, on every schedule.
THEOREM SharedFiles == Spec => []FilesFollowIds
<1>1. ASSUME TInv, CachesOK PROVE FilesFollowIds
  <2> SUFFICES ASSUME NEW i \in DOMAIN plan, NEW j \in DOMAIN plan
      PROVE  /\ plan[i].profile = plan[j].profile /\ given[i].profile # None =>
                  /\ given[j].profile \in {None, given[i].profile}
                  /\ First(j) => given[i].profile = plan[j].profileRef
             /\ plan[i].scenario = plan[j].scenario /\ given[i].scenario # None =>
                  given[j].scenario \in {None, given[i].scenario}
             /\ given[i].scenario # None => \E k \in DOMAIN plan :
                  /\ plan[k].scenario = plan[i].scenario
                  /\ plan[k].scenarioRef = given[i].scenario
    BY DEF FilesFollowIds, First
  <2> QED BY <1>1 DEF CachesOK
<1> QED
  BY <1>1, InitTyped, NextTyped, CachesStart, CachesNext, PTL DEF Spec

-----------------------------------------------------------------------------
(* Runs with the same files and prompt have the same fate.                  *)

\* The registries of a run that has loaded n plugins, and the next plugin.
PluginAt(n) == PluginModules[spec.plugins[n]]
Upto(n) == BuiltIn \cup HarnessRegisters
             \cup UNION {Registers(PluginAt(m)) : m \in 1..n}
Loads(n) ==
    LET adds == PluginAt(n + 1)
    IN  /\ adds # None
        /\ Registers(adds) \cap Upto(n) = {}
        /\ ~\E k, m \in DOMAIN adds : k # m /\ adds[k] = adds[m]

\* The fate of a run, from its own files and its entry in the plan.
FateOf(p, s, e) ==
    IF ~ProfileLoads(p) THEN "profile"
    ELSE IF e.prompt \notin ScenarioFiles[s].prompts THEN "prompt"
    ELSE IF spec.strategy # "git_worktree" THEN "strategy"
    ELSE IF ~ContextHolds(p, s, e.scenario) THEN "context"
    ELSE IF ~PinHolds(p, e.provider) THEN "pin"
    ELSE IF ~ModelFound(e.provider, e.modelId) THEN "model"
    ELSE IF ~ExtensionsLoad(p, e.scenario) THEN "extension"
    ELSE IF \E n \in 0..(Len(spec.plugins) - 1) : ~Loads(n) THEN "plugin"
    ELSE IF \A rule \in ProfileFiles[p].rules :
               <<"metricKind", rule.kind>> \in Upto(Len(spec.plugins)) /\ rule.fits THEN "ok"
    ELSE "rule"

\* How far a run has come towards it.
OnItsWay(i) ==
    LET p == given[i].profile
        s == given[i].scenario
    IN  /\ stage[i] \in Pending \ {"measure"} => given[i].loaded = 0
        /\ stage[i] \in Pending \ {"waiting"} => ProfileLoads(p)
        /\ stage[i] \in {"context", "pin", "session", "compose", "measure"} =>
              plan[i].prompt \in ScenarioFiles[s].prompts /\ spec.strategy = "git_worktree"
        /\ stage[i] \in {"pin", "session", "compose", "measure"} =>
              ContextHolds(p, s, plan[i].scenario)
        /\ stage[i] \in {"session", "compose", "measure"} => PinHolds(p, plan[i].provider)
        /\ stage[i] \in {"compose", "measure"} =>
              /\ ModelFound(plan[i].provider, plan[i].modelId)
              /\ ExtensionsLoad(p, plan[i].scenario)
        /\ stage[i] \in {"context", "pin", "session", "compose"} => registered[i] = BuiltIn
        /\ stage[i] = "measure" =>
              /\ given[i].loaded <= Len(spec.plugins)
              /\ registered[i] = Upto(given[i].loaded)
              /\ \A n \in 0..(given[i].loaded - 1) : Loads(n)
        /\ stage[i] = "ended" => given[i].fate = FateOf(p, s, plan[i])

FatesOK == \A i \in DOMAIN plan : OnItsWay(i)

LEMMA FatesStart == Init => FatesOK
BY DEF Init, FatesOK

LEMMA FatesEmpty ==
    ASSUME TInv, Expand PROVE FatesOK'
<1>1. \A i \in DOMAIN plan' : stage'[i] = "waiting" /\ given'[i].loaded = 0
  BY DEF Expand, Nothing
<1> QED BY <1>1 DEF FatesOK, OnItsWay

LEMMA UptoNext ==
    ASSUME NEW n \in Nat PROVE Upto(n + 1) = Upto(n) \cup Registers(PluginAt(n + 1))
<1>1. 1..(n + 1) = (1..n) \cup {n + 1}
  OBVIOUS
<1> QED BY <1>1 DEF Upto

LEMMA UptoNone == Upto(0) = BuiltIn \cup HarnessRegisters
<1>1. 1..0 = {}
  OBVIOUS
<1> QED BY <1>1 DEF Upto

\* The fates of the other runs do not move.
LEMMA OthersKept ==
    ASSUME TInv, FatesOK, NEW i \in DOMAIN plan, UNCHANGED command,
           OnItsWay(i)',
           \A j \in DOMAIN plan \ {i} :
              /\ given'[j] = given[j] /\ stage'[j] = stage[j]
              /\ registered'[j] = registered[j]
    PROVE  FatesOK'
<1>1. spec' = spec /\ plan' = plan
  BY DEF command
<1>2. \A n : Upto(n)' = Upto(n) /\ (Loads(n)' <=> Loads(n))
  BY <1>1 DEF Upto, Loads, PluginAt
<1>3. ASSUME NEW j \in DOMAIN plan \ {i} PROVE OnItsWay(j)'
  <2>1. OnItsWay(j)
    BY DEF FatesOK
  <2>2. /\ given'[j] = given[j] /\ stage'[j] = stage[j]
        /\ registered'[j] = registered[j]
    OBVIOUS
  <2>3. FateOf(given[j].profile, given[j].scenario, plan[j])' =
           FateOf(given[j].profile, given[j].scenario, plan[j])
    BY <1>1, <1>2, <2>2 DEF FateOf
  <2> QED BY <1>1, <1>2, <2>1, <2>2, <2>3 DEF OnItsWay
<1> QED BY <1>1, <1>3 DEF FatesOK

\* What the parts of OnItsWay are made of moves with no step of a run.
LEMMA FateFrame ==
    ASSUME UNCHANGED command
    PROVE  /\ spec' = spec /\ plan' = plan
           /\ \A n : Upto(n)' = Upto(n) /\ (Loads(n)' <=> Loads(n))
BY DEF command, Upto, Loads, PluginAt

LEMMA FateProfile ==
    ASSUME TInv, FatesOK, NEW i \in DOMAIN plan, RequestProfile(i)
    PROVE  FatesOK'
<1> DEFINE ref == Cached(profileCache, plan[i].profile, plan[i].profileRef)
<1>1. /\ DOMAIN given = DOMAIN plan /\ DOMAIN stage = DOMAIN plan
      /\ given[i] \in Given /\ given[i].loaded = 0 /\ stage[i] = "waiting"
  BY DEF TInv, TypeOK, FatesOK, OnItsWay, RequestProfile, At, Pending
<1>2. /\ UNCHANGED command /\ UNCHANGED registered
      /\ \A j \in DOMAIN plan \ {i} : given'[j] = given[j] /\ stage'[j] = stage[j]
      /\ stage'[i] = IF ProfileLoads(ref) THEN "scenario" ELSE "ended"
  BY <1>1 DEF RequestProfile, At, GoTo
<1>3. /\ given'[i].profile = ref /\ given'[i].loaded = 0
      /\ ~ProfileLoads(ref) => given'[i].fate = "profile"
  BY <1>1 DEF RequestProfile, Given
<1> HIDE DEF ref
<1>4. OnItsWay(i)'
  <2>1. CASE ProfileLoads(ref)
    BY <1>2, <1>3, <2>1 DEF OnItsWay, Pending
  <2>2. CASE ~ProfileLoads(ref)
    <3>1. stage'[i] = "ended" /\ given'[i].fate = "profile"
      BY <1>2, <1>3, <2>2
    <3>2. FateOf(given[i].profile, given[i].scenario, plan[i])' = "profile"
      BY <1>3, <2>2 DEF FateOf
    <3> QED BY <3>1, <3>2 DEF OnItsWay, Pending
  <2> QED BY <2>1, <2>2
<1> QED BY <1>2, <1>4, OthersKept

LEMMA FateScenario ==
    ASSUME TInv, FatesOK, NEW i \in DOMAIN plan, RequestScenario(i)
    PROVE  FatesOK'
<1>1. /\ DOMAIN given = DOMAIN plan /\ DOMAIN stage = DOMAIN plan
      /\ given[i] \in Given /\ stage[i] = "scenario"
      /\ given[i].loaded = 0 /\ ProfileLoads(given[i].profile)
  BY DEF TInv, TypeOK, FatesOK, OnItsWay, RequestScenario, At, Pending
<1>2. /\ UNCHANGED command /\ UNCHANGED registered
      /\ \A j \in DOMAIN plan \ {i} : given'[j] = given[j] /\ stage'[j] = stage[j]
      /\ stage'[i] = "dispatch"
  BY <1>1 DEF RequestScenario, At, GoTo
<1>3. given'[i].profile = given[i].profile /\ given'[i].loaded = 0
  BY <1>1 DEF RequestScenario, Given
<1>4. OnItsWay(i)'
  BY <1>1, <1>2, <1>3 DEF OnItsWay, Pending
<1> QED BY <1>2, <1>4, OthersKept

\* A run that ends with the fate its files give it.
LEMMA FateEnds ==
    ASSUME TInv, FatesOK, NEW i \in DOMAIN plan, UNCHANGED command,
           EndWith(i, FateOf(given[i].profile, given[i].scenario, plan[i])),
           UNCHANGED registered
    PROVE  FatesOK'
<1> DEFINE fate == FateOf(given[i].profile, given[i].scenario, plan[i])
<1>1. /\ DOMAIN given = DOMAIN plan /\ DOMAIN stage = DOMAIN plan
      /\ given[i] \in Given
  BY DEF TInv, TypeOK
<1>2. /\ \A j \in DOMAIN plan \ {i} : given'[j] = given[j] /\ stage'[j] = stage[j]
      /\ stage'[i] = "ended"
  BY <1>1 DEF EndWith, GoTo
<1>3. given' = [given EXCEPT ![i] = [given[i] EXCEPT !.fate = fate]]
  BY DEF EndWith
<1>4. /\ given'[i].fate = fate /\ given'[i].profile = given[i].profile
      /\ given'[i].scenario = given[i].scenario
  <2> HIDE DEF fate
  <2> QED BY <1>1, <1>3 DEF Given
<1>5. FateOf(given[i].profile, given[i].scenario, plan[i])' = fate
  BY <1>4, FateFrame DEF FateOf
<1> HIDE DEF fate
<1>6. OnItsWay(i)'
  BY <1>2, <1>4, <1>5 DEF OnItsWay, Pending
<1> QED BY <1>2, <1>6, OthersKept

LEMMA FateDispatch ==
    ASSUME TInv, FatesOK, NEW i \in DOMAIN plan, NoPrompt(i) \/ NoStrategy(i)
    PROVE  FatesOK'
<1>1. stage[i] = "dispatch" /\ UNCHANGED command /\ UNCHANGED registered
  BY DEF NoPrompt, NoStrategy, At
<1>2. ProfileLoads(given[i].profile)
  BY <1>1 DEF FatesOK, OnItsWay, Pending
<1>3. EndWith(i, FateOf(given[i].profile, given[i].scenario, plan[i]))
  BY <1>2 DEF NoPrompt, NoStrategy, FateOf
<1> QED BY <1>1, <1>3, FateEnds

LEMMA FateOpen ==
    ASSUME TInv, FatesOK, NEW i \in DOMAIN plan, Open(i)
    PROVE  FatesOK'
<1>1. /\ DOMAIN given = DOMAIN plan /\ DOMAIN stage = DOMAIN plan
      /\ DOMAIN registered = DOMAIN plan
      /\ given[i] \in Given /\ stage[i] = "dispatch"
      /\ given[i].loaded = 0 /\ ProfileLoads(given[i].profile)
  BY DEF TInv, TypeOK, FatesOK, OnItsWay, Open, At, Pending
<1>2. /\ UNCHANGED command
      /\ plan[i].prompt \in ScenarioFiles[given[i].scenario].prompts
      /\ spec.strategy = "git_worktree"
      /\ \A j \in DOMAIN plan \ {i} :
            /\ given'[j] = given[j] /\ stage'[j] = stage[j]
            /\ registered'[j] = registered[j]
      /\ stage'[i] = "context" /\ registered'[i] = BuiltIn
  BY <1>1 DEF Open, At, GoTo
<1>3. /\ given'[i].profile = given[i].profile /\ given'[i].loaded = 0
      /\ given'[i].scenario = given[i].scenario
  BY <1>1 DEF Open, Given
<1>4. OnItsWay(i)'
  BY <1>1, <1>2, <1>3, FateFrame DEF OnItsWay, Pending
<1> QED BY <1>2, <1>4, OthersKept

LEMMA FateContext ==
    ASSUME TInv, FatesOK, NEW i \in DOMAIN plan, AddContext(i)
    PROVE  FatesOK'
<1>1. /\ DOMAIN given = DOMAIN plan /\ DOMAIN stage = DOMAIN plan
      /\ given[i] \in Given /\ stage[i] = "context" /\ OnItsWay(i)
      /\ ContextHolds(given[i].profile, given[i].scenario, plan[i].scenario)
  BY DEF TInv, TypeOK, FatesOK, AddContext, At
<1>2. /\ UNCHANGED command /\ UNCHANGED registered
      /\ \A j \in DOMAIN plan \ {i} : given'[j] = given[j] /\ stage'[j] = stage[j]
      /\ stage'[i] = "pin"
  BY <1>1 DEF AddContext, At, GoTo
<1>3. /\ given'[i].profile = given[i].profile /\ given'[i].loaded = given[i].loaded
      /\ given'[i].scenario = given[i].scenario
  BY <1>1 DEF AddContext, Given
<1>4. OnItsWay(i)'
  BY <1>1, <1>2, <1>3, FateFrame DEF OnItsWay, Pending, BuiltIn
<1> QED BY <1>2, <1>4, OthersKept

LEMMA FatePin ==
    ASSUME TInv, FatesOK, NEW i \in DOMAIN plan, PinAgents(i)
    PROVE  FatesOK'
<1>1. /\ DOMAIN given = DOMAIN plan /\ DOMAIN stage = DOMAIN plan
      /\ stage[i] = "pin" /\ OnItsWay(i)
      /\ PinHolds(given[i].profile, plan[i].provider)
  BY DEF TInv, TypeOK, FatesOK, PinAgents, At
<1>2. /\ UNCHANGED command /\ UNCHANGED registered /\ given' = given
      /\ \A j \in DOMAIN plan \ {i} : stage'[j] = stage[j]
      /\ stage'[i] = "session"
  BY <1>1 DEF PinAgents, At, GoTo
<1>3. OnItsWay(i)'
  BY <1>1, <1>2, FateFrame DEF OnItsWay, Pending, BuiltIn
<1> QED BY <1>2, <1>3, OthersKept

\* The refusals on the way from the workspace to the session.
LEMMA FatePrepare ==
    ASSUME TInv, FatesOK, NEW i \in DOMAIN plan,
           ContextFails(i) \/ PinFails(i) \/ NoModel(i) \/ NoExtension(i)
    PROVE  FatesOK'
<1>1. /\ stage[i] \in {"context", "pin", "session"}
      /\ UNCHANGED command /\ UNCHANGED registered
  BY DEF ContextFails, PinFails, NoModel, NoExtension, At
<1>2. /\ OnItsWay(i) /\ ProfileLoads(given[i].profile)
      /\ plan[i].prompt \in ScenarioFiles[given[i].scenario].prompts
      /\ spec.strategy = "git_worktree"
  BY <1>1 DEF FatesOK, OnItsWay, Pending
<1>3. EndWith(i, FateOf(given[i].profile, given[i].scenario, plan[i]))
  <2>1. CASE ContextFails(i)
    BY <1>2, <2>1 DEF ContextFails, FateOf
  <2>2. CASE PinFails(i)
    <3>1. stage[i] = "pin"
      BY <2>2 DEF PinFails, At
    <3>2. ContextHolds(given[i].profile, given[i].scenario, plan[i].scenario)
      BY <1>2, <3>1 DEF OnItsWay
    <3> QED BY <1>2, <2>2, <3>2 DEF PinFails, FateOf
  <2>3. CASE NoModel(i) \/ NoExtension(i)
    <3>1. stage[i] = "session"
      BY <2>3 DEF NoModel, NoExtension, At
    <3>2. /\ ContextHolds(given[i].profile, given[i].scenario, plan[i].scenario)
          /\ PinHolds(given[i].profile, plan[i].provider)
      BY <1>2, <3>1 DEF OnItsWay
    <3> QED BY <1>2, <2>3, <3>2 DEF NoModel, NoExtension, FateOf
  <2> QED BY <2>1, <2>2, <2>3
<1> QED BY <1>1, <1>3, FateEnds

LEMMA FateSession ==
    ASSUME TInv, FatesOK, NEW i \in DOMAIN plan, RunSession(i)
    PROVE  FatesOK'
<1>1. /\ DOMAIN given = DOMAIN plan /\ DOMAIN stage = DOMAIN plan
      /\ given[i] \in Given /\ stage[i] = "session" /\ OnItsWay(i)
      /\ ModelFound(plan[i].provider, plan[i].modelId)
      /\ ExtensionsLoad(given[i].profile, plan[i].scenario)
  BY DEF TInv, TypeOK, FatesOK, RunSession, At
<1>2. /\ UNCHANGED command /\ UNCHANGED registered
      /\ \A j \in DOMAIN plan \ {i} : given'[j] = given[j] /\ stage'[j] = stage[j]
      /\ stage'[i] = "compose"
  BY <1>1 DEF RunSession, At, GoTo
<1>3. /\ given'[i].profile = given[i].profile /\ given'[i].loaded = given[i].loaded
      /\ given'[i].scenario = given[i].scenario
  BY <1>1 DEF RunSession, Given
<1>4. OnItsWay(i)'
  BY <1>1, <1>2, <1>3, FateFrame DEF OnItsWay, Pending, BuiltIn
<1> QED BY <1>2, <1>4, OthersKept

LEMMA FateHarness ==
    ASSUME TInv, FatesOK, NEW i \in DOMAIN plan, RegisterHarness(i)
    PROVE  FatesOK'
<1>1. /\ DOMAIN given = DOMAIN plan /\ DOMAIN stage = DOMAIN plan
      /\ DOMAIN registered = DOMAIN plan
      /\ stage[i] = "compose" /\ OnItsWay(i)
      /\ Len(spec.plugins) \in Nat
  BY PluginsListed DEF TInv, TypeOK, FatesOK, RegisterHarness, At
<1>2. /\ UNCHANGED command /\ given' = given
      /\ \A j \in DOMAIN plan \ {i} :
            stage'[j] = stage[j] /\ registered'[j] = registered[j]
      /\ stage'[i] = "measure" /\ registered'[i] = registered[i] \cup HarnessRegisters
  BY <1>1 DEF RegisterHarness, At, GoTo
<1>3. given[i].loaded = 0 /\ registered'[i] = Upto(0)
  BY <1>1, <1>2, UptoNone DEF OnItsWay, Pending
<1>4. \A n \in 0..(given[i].loaded - 1) : Loads(n)
  BY <1>3
<1>5. OnItsWay(i)'
  BY <1>1, <1>2, <1>3, <1>4, FateFrame DEF OnItsWay, Pending
<1> QED BY <1>2, <1>5, OthersKept

\* A run that measures: what it has loaded and what it has passed.
LEMMA AtMeasure ==
    ASSUME TInv, FatesOK, NEW i \in DOMAIN plan, At(i, "measure")
    PROVE  /\ ProfileLoads(given[i].profile) /\ spec.strategy = "git_worktree"
           /\ plan[i].prompt \in ScenarioFiles[given[i].scenario].prompts
           /\ ContextHolds(given[i].profile, given[i].scenario, plan[i].scenario)
           /\ PinHolds(given[i].profile, plan[i].provider)
           /\ ModelFound(plan[i].provider, plan[i].modelId)
           /\ ExtensionsLoad(given[i].profile, plan[i].scenario)
           /\ given[i].loaded \in 0..Len(spec.plugins) /\ Len(spec.plugins) \in Nat
           /\ registered[i] = Upto(given[i].loaded)
           /\ \A n \in 0..(given[i].loaded - 1) : Loads(n)
           /\ Loads(given[i].loaded) <=> NextPlugin(i) # None /\ ~Conflicts(i, NextPlugin(i))
<1>1. OnItsWay(i) /\ stage[i] = "measure"
  BY DEF FatesOK, At
<1>2. given[i].loaded \in Nat /\ Len(spec.plugins) \in Nat
  BY PluginsListed DEF TInv, TypeOK, Given
<1>3. registered[i] = Upto(given[i].loaded) /\ given[i].loaded <= Len(spec.plugins)
  BY <1>1 DEF OnItsWay
<1>4. Loads(given[i].loaded) <=> NextPlugin(i) # None /\ ~Conflicts(i, NextPlugin(i))
  BY <1>3 DEF Loads, NextPlugin, Conflicts, PluginAt
<1>5. /\ ProfileLoads(given[i].profile) /\ spec.strategy = "git_worktree"
      /\ plan[i].prompt \in ScenarioFiles[given[i].scenario].prompts
      /\ ContextHolds(given[i].profile, given[i].scenario, plan[i].scenario)
      /\ PinHolds(given[i].profile, plan[i].provider)
      /\ ModelFound(plan[i].provider, plan[i].modelId)
      /\ ExtensionsLoad(given[i].profile, plan[i].scenario)
      /\ \A n \in 0..(given[i].loaded - 1) : Loads(n)
  BY <1>1 DEF OnItsWay, Pending
<1> QED BY <1>2, <1>3, <1>4, <1>5

LEMMA FatePlugin ==
    ASSUME TInv, FatesOK, NEW i \in DOMAIN plan, LoadPlugin(i)
    PROVE  FatesOK'
<1> DEFINE n == given[i].loaded
<1>1. /\ DOMAIN given = DOMAIN plan /\ DOMAIN registered = DOMAIN plan
      /\ given[i] \in Given /\ stage[i] = "measure" /\ stage' = stage
      /\ UNCHANGED command /\ At(i, "measure")
  BY DEF TInv, TypeOK, LoadPlugin, At
<1>2. /\ n \in Nat /\ n < Len(spec.plugins) /\ Len(spec.plugins) \in Nat
      /\ Loads(n) /\ \A m \in 0..(n - 1) : Loads(m)
      /\ registered[i] = Upto(n)
  BY <1>1, AtMeasure DEF LoadPlugin
<1>3. /\ given' = [given EXCEPT ![i] = [given[i] EXCEPT !.loaded = n + 1]]
      /\ registered' = [registered EXCEPT ![i] = Upto(n) \cup Registers(PluginAt(n + 1))]
  BY <1>2 DEF LoadPlugin, NextPlugin, PluginAt
<1>4. /\ \A j \in DOMAIN plan \ {i} : given'[j] = given[j] /\ registered'[j] = registered[j]
      /\ registered'[i] = Upto(n + 1)
  BY <1>1, <1>2, <1>3, UptoNext
<1>5. /\ given'[i].loaded = n + 1 /\ given'[i].profile = given[i].profile
      /\ given'[i].scenario = given[i].scenario
  <2> HIDE DEF n
  <2> QED BY <1>1, <1>3 DEF Given
<1>6. \A m \in 0..(given'[i].loaded - 1) : Loads(m)'
  <2>1. \A m \in 0..n : Loads(m)
    BY <1>2
  <2> QED BY <1>1, <1>2, <1>5, <2>1, FateFrame
<1>7. Upto(given[i].loaded)' = Upto(n + 1) /\ spec' = spec /\ plan' = plan
  BY <1>1, <1>5, FateFrame DEF Upto, PluginAt
<1>8. given'[i].loaded <= Len(spec.plugins)
  BY <1>2, <1>5
<1> HIDE DEF n
<1>9. OnItsWay(i)'
  BY <1>1, <1>4, <1>5, <1>6, <1>7, <1>8, AtMeasure DEF OnItsWay, Pending
<1> QED BY <1>1, <1>4, <1>9, OthersKept

LEMMA FatePluginFails ==
    ASSUME TInv, FatesOK, NEW i \in DOMAIN plan, PluginFails(i)
    PROVE  FatesOK'
<1>1. At(i, "measure") /\ UNCHANGED command /\ UNCHANGED registered
  BY DEF PluginFails, At
<1>2. ~Loads(given[i].loaded) /\ given[i].loaded \in 0..(Len(spec.plugins) - 1)
  BY <1>1, AtMeasure DEF PluginFails
<1>3. FateOf(given[i].profile, given[i].scenario, plan[i]) = "plugin"
  BY <1>1, <1>2, AtMeasure DEF FateOf
<1>4. EndWith(i, FateOf(given[i].profile, given[i].scenario, plan[i]))
  BY <1>3 DEF PluginFails
<1> QED BY <1>1, <1>4, FateEnds

LEMMA FateMeasure ==
    ASSUME TInv, FatesOK, NEW i \in DOMAIN plan, Measure(i)
    PROVE  FatesOK'
<1>1. /\ At(i, "measure") /\ UNCHANGED command /\ UNCHANGED registered
      /\ given[i].loaded = Len(spec.plugins)
  BY DEF Measure, At
<1>2. \A n \in 0..(Len(spec.plugins) - 1) : Loads(n)
  BY <1>1, AtMeasure
<1>3. RulesResolve(i) <=> \A rule \in ProfileFiles[given[i].profile].rules :
                             /\ <<"metricKind", rule.kind>> \in Upto(Len(spec.plugins))
                             /\ rule.fits
  BY <1>1, AtMeasure DEF RulesResolve
<1>4. FateOf(given[i].profile, given[i].scenario, plan[i]) =
         IF RulesResolve(i) THEN "ok" ELSE "rule"
  BY <1>1, <1>2, <1>3, AtMeasure DEF FateOf
<1>5. EndWith(i, FateOf(given[i].profile, given[i].scenario, plan[i]))
  BY <1>4 DEF Measure
<1> QED BY <1>1, <1>5, FateEnds

LEMMA FatesNext == TInv /\ FatesOK /\ [Next]_vars => FatesOK'
<1> SUFFICES ASSUME TInv, FatesOK, [Next]_vars PROVE FatesOK'
  OBVIOUS
<1>1. CASE Expand
  BY <1>1, FatesEmpty
<1>2. ASSUME NEW i \in DOMAIN plan, RunStep(i) PROVE FatesOK'
  BY <1>2, FateProfile, FateScenario, FateDispatch, FateOpen, FateContext, FatePin,
     FatePrepare, FateSession, FateHarness, FatePlugin, FatePluginFails, FateMeasure DEF RunStep
<1>3. CASE SpecValidate \/ (\E c \in {"single", "matrix"} : Prepare(c)) \/ ExpandThrows \/ Finish
             \/ UNCHANGED vars
  <2>1. UNCHANGED <<spec, plan, stage, given, registered>>
    BY <1>3 DEF SpecValidate, Prepare, ExpandThrows, Finish, vars, command
  <2>2. \A n : Upto(n)' = Upto(n) /\ (Loads(n)' <=> Loads(n))
    BY <2>1 DEF Upto, Loads, PluginAt
  <2>3. ASSUME NEW j \in DOMAIN plan PROVE OnItsWay(j)'
    <3>1. OnItsWay(j)
      BY DEF FatesOK
    <3>2. FateOf(given[j].profile, given[j].scenario, plan[j])' =
             FateOf(given[j].profile, given[j].scenario, plan[j])
      BY <2>1, <2>2 DEF FateOf
    <3> QED BY <2>1, <2>2, <3>1, <3>2 DEF OnItsWay
  <2> QED BY <2>1, <2>3 DEF FatesOK
<1> QED BY <1>1, <1>2, <1>3 DEF Next

\* Runs of the same files, scenario id, prompt and model end alike, whichever came first and however
\* their steps interleaved: the process, caches and modules they share make no
\* difference, because a fate is a function of a run's own files.
THEOREM FatesAgree == Spec => []SameFate
<1>1. ASSUME TInv, FatesOK PROVE SameFate
  <2> SUFFICES ASSUME NEW i \in DOMAIN plan, NEW j \in DOMAIN plan,
                      given[i].fate # None, given[j].fate # None,
                      given[i].profile = given[j].profile,
                      given[i].scenario = given[j].scenario,
                      plan[i].scenario = plan[j].scenario,
                      plan[i].prompt = plan[j].prompt,
                      plan[i].provider = plan[j].provider,
                      plan[i].modelId = plan[j].modelId
      PROVE  given[i].fate = given[j].fate
    BY DEF SameFate
  <2>1. stage[i] = "ended" /\ stage[j] = "ended"
    BY <1>1 DEF TInv, TypeOK
  <2>2. /\ given[i].fate = FateOf(given[i].profile, given[i].scenario, plan[i])
        /\ given[j].fate = FateOf(given[j].profile, given[j].scenario, plan[j])
    BY <1>1, <2>1 DEF FatesOK, OnItsWay
  <2> QED BY <2>2 DEF FateOf
<1> QED BY <1>1, InitTyped, NextTyped, FatesStart, FatesNext, PTL DEF Spec
-----------------------------------------------------------------------------
(* What was checked before the first run, and what its plan was made of.    *)

\* prepareRunContext has let the spec through.
Accepted == Parses(spec) /\ Valid(spec) /\ ProvidersOf(spec) \subseteq Keys

\* The plan is one of the two forms, in the phases that have it that of the call.
PlanIs ==
    /\ phase \in {"accepted", "running", "previewed", "finished"} => Accepted
    /\ phase \in {"running", "previewed", "finished"} =>
          /\ Expandable(spec)
          /\ plan = IF call = "single" THEN <<resolveFirstRun(spec)>> ELSE expandMatrix(spec)
    /\ phase = "previewed" => call = "single"
    /\ phase = "finished" => call = "matrix"
    /\ phase \in {"previewed", "finished"} =>
          \A i \in DOMAIN plan : stage[i] = "ended"
    /\ plan # <<>> =>
          /\ Accepted /\ Expandable(spec)
          /\ plan \in {<<resolveFirstRun(spec)>>, expandMatrix(spec)}
    /\ verdict # None => warnings = IF Parses(spec) THEN NotCovered(spec) ELSE {}
    /\ verdict = "OK" => BinariesThere(spec)

\* A run that has come to one of these stages, or ended with one of these fates.
Past(i, stages, fates) ==
    stage[i] \in stages \/ (stage[i] = "ended" /\ given[i].fate \in fates)
Paid(i)     == Past(i, {"compose", "measure"}, {"ok", "plugin", "rule"})
Upfronted(i) == Past(i, {"pin", "session", "compose", "measure"},
                     {"pin", "model", "extension", "ok", "plugin", "rule"})
Opened(i)   == Past(i, {"context", "pin", "session", "compose", "measure"},
                    {"context", "pin", "model", "extension", "ok", "plugin", "rule"})
Sited(i)    == Past(i, Pending \ {"waiting", "scenario"},
                    (Causes \cup {"ok"}) \ {"profile"})

\* What a run has been given follows from where it is, or from how it ended.
GivenAsFar(i) ==
    LET g  == given[i]
        id == plan[i].scenario
    IN  /\ g.scenario # None <=> Sited(i)
        /\ g.extensions = IF Opened(i) THEN ExtensionsFor(g.profile, id) ELSE <<>>
        /\ g.context    = IF Upfronted(i) THEN ContextFor(g.profile, id) ELSE <<>>
        /\ g.tools      = IF Paid(i) THEN ToolsFor(g.profile, id) ELSE <<>>
        /\ g.sessions   = IF Paid(i) THEN 1 ELSE 0
GivenOK == \A i \in DOMAIN plan : GivenAsFar(i)

\* What an entry will end with, if its own files are the ones it is given.
Foreseen(e) ==
    LET fate == FateOf(e.profileRef, e.scenarioRef, e)
    IN  [prompt |-> e.prompt, provider |-> e.provider, modelId |-> e.modelId,
         profile |-> e.profileRef,
         scenario |-> IF fate = "profile" THEN None ELSE e.scenarioRef,
         extensions |-> IF fate \in {"profile", "prompt", "strategy"} THEN <<>>
                        ELSE ExtensionsFor(e.profileRef, e.scenario),
         context |-> IF fate \in {"profile", "prompt", "strategy", "context"} THEN <<>>
                     ELSE ContextFor(e.profileRef, e.scenario),
         tools |-> IF fate \in {"ok", "plugin", "rule"}
                   THEN ToolsFor(e.profileRef, e.scenario) ELSE <<>>,
         sessions |-> IF fate \in {"ok", "plugin", "rule"} THEN 1 ELSE 0,
         fate |-> fate]

\* A preview is what the first entry of the matrix will end with.
PreviewOK ==
    preview # None /\ IdsUnique(spec.scenarios) =>
        Expandable(spec) /\ preview = Foreseen(resolveFirstRun(spec))

LEMMA PlanIsStart == Init => PlanIs
BY FilesAssumption DEF Init, PlanIs

\* Only the command moves what PlanIs speaks of.
LEMMA PlanIsNext == TInv /\ PlanIs /\ [Next]_vars => PlanIs'
<1> SUFFICES ASSUME TInv, PlanIs, [Next]_vars PROVE PlanIs'
  OBVIOUS
<1>1. spec' = spec
  BY DEF Next, SpecValidate, Prepare, Expand, ExpandThrows, Finish, vars, command, RunStep,
     RequestProfile, RequestScenario, NoPrompt, NoStrategy, Open, AddContext, ContextFails,
     PinAgents, PinFails, NoModel, NoExtension, RunSession, RegisterHarness, LoadPlugin,
     PluginFails, Measure, At
<1>2. (Accepted' <=> Accepted) /\ (Expandable(spec)' <=> Expandable(spec))
  BY <1>1 DEF Accepted
<1>3. CASE SpecValidate
  <2>1. verdict' = "OK" => BinariesThere(spec)
    BY <1>3, FilesAssumption DEF SpecValidate
  <2>2. warnings' = IF Parses(spec) THEN NotCovered(spec) ELSE {}
    BY <1>3 DEF SpecValidate
  <2>3. UNCHANGED <<phase, call, plan, stage>>
    BY <1>3 DEF SpecValidate
  <2> QED BY <1>1, <1>2, <2>1, <2>2, <2>3 DEF PlanIs
<1>4. CASE \E c \in {"single", "matrix"} : Prepare(c)
  <2>1. UNCHANGED <<plan, stage, verdict, warnings>>
    BY <1>4 DEF Prepare
  <2>2. phase' \in {"accepted", "refused"} /\ (phase' = "accepted" => Accepted)
    BY <1>4 DEF Prepare, Accepted
  <2> QED BY <1>1, <1>2, <2>1, <2>2 DEF PlanIs
<1>5. CASE Expand
  <2>1. UNCHANGED <<call, verdict, warnings>> /\ phase' = "running" /\ Accepted /\ Expandable(spec)
    BY <1>5 DEF Expand, PlanIs
  <2>2. plan' = IF call = "single" THEN <<resolveFirstRun(spec)>> ELSE expandMatrix(spec)
    BY <1>5 DEF Expand
  <2> QED BY <1>1, <1>2, <2>1, <2>2 DEF PlanIs
<1>6. CASE ExpandThrows
  <2>1. UNCHANGED <<call, verdict, warnings, plan, stage>> /\ phase' = "refused"
    BY <1>6 DEF ExpandThrows
  <2> QED BY <1>1, <1>2, <2>1 DEF PlanIs
<1>7. CASE Finish
  <2>1. UNCHANGED <<call, verdict, warnings, plan, stage>> /\ phase = "running"
    BY <1>7 DEF Finish
  <2>2. /\ \A i \in DOMAIN plan : stage[i] = "ended"
        /\ phase' = IF call = "single" THEN "previewed" ELSE "finished"
    BY <1>7 DEF Finish
  <2>3. call \in {"single", "matrix"}
    BY DEF TInv, TypeOK
  <2> QED BY <1>1, <1>2, <2>1, <2>2, <2>3 DEF PlanIs
<1>8. ASSUME NEW i \in DOMAIN plan, RunStep(i) PROVE PlanIs'
  <2>1. UNCHANGED command /\ phase = "running"
    BY <1>8 DEF RunStep,
       RequestProfile, RequestScenario, NoPrompt, NoStrategy, Open, AddContext, ContextFails,
       PinAgents, PinFails, NoModel, NoExtension, RunSession, RegisterHarness, LoadPlugin,
       PluginFails, Measure, At
  <2> QED BY <1>1, <1>2, <2>1 DEF PlanIs, command
<1>9. CASE UNCHANGED vars
  BY <1>1, <1>2, <1>9 DEF PlanIs, vars, command
<1> QED BY <1>3, <1>4, <1>5, <1>6, <1>7, <1>8, <1>9 DEF Next

-----------------------------------------------------------------------------
(* What the runs have been given.                                           *)

LEMMA GivenStart == Init => GivenOK
BY DEF Init, GivenOK

LEMMA GivenEmpty ==
    ASSUME TInv, Expand PROVE GivenOK'
<1>1. \A i \in DOMAIN plan' : stage'[i] = "waiting" /\ given'[i] = Nothing
  BY DEF Expand
<1> QED BY <1>1 DEF GivenOK, GivenAsFar, Nothing, Sited, Opened, Upfronted, Paid, Past, Pending

\* A step of one run gives nothing to another.
LEMMA GivenOthers ==
    ASSUME TInv, GivenOK, NEW i \in DOMAIN plan, UNCHANGED command, GivenAsFar(i)',
           \A j \in DOMAIN plan \ {i} : given'[j] = given[j] /\ stage'[j] = stage[j]
    PROVE  GivenOK'
<1>1. plan' = plan
  BY DEF command
<1>2. ASSUME NEW j \in DOMAIN plan \ {i} PROVE GivenAsFar(j)'
  <2>1. GivenAsFar(j) /\ given'[j] = given[j] /\ stage'[j] = stage[j]
    BY DEF GivenOK
  <2> QED BY <1>1, <2>1 DEF GivenAsFar, Sited, Opened, Upfronted, Paid, Past
<1> QED BY <1>1, <1>2 DEF GivenOK

LEMMA GivenProfile ==
    ASSUME TInv, GivenOK, NEW i \in DOMAIN plan, RequestProfile(i)
    PROVE  GivenOK'
<1> DEFINE ref == Cached(profileCache, plan[i].profile, plan[i].profileRef)
           fate == IF ProfileLoads(ref) THEN None ELSE "profile"
<1>1. /\ DOMAIN given = DOMAIN plan /\ DOMAIN stage = DOMAIN plan
      /\ given[i] \in Given /\ stage[i] = "waiting" /\ GivenAsFar(i)
      /\ UNCHANGED command
  BY DEF TInv, TypeOK, GivenOK, RequestProfile, At
<1>2. /\ \A j \in DOMAIN plan \ {i} : given'[j] = given[j] /\ stage'[j] = stage[j]
      /\ stage'[i] = IF ProfileLoads(ref) THEN "scenario" ELSE "ended"
  BY <1>1 DEF RequestProfile, GoTo
<1>3. given'[i] = [given[i] EXCEPT !.profile = ref, !.fate = fate]
  BY <1>1 DEF RequestProfile
<1> HIDE DEF ref, fate
<1>4. /\ given'[i].scenario = given[i].scenario /\ given'[i].extensions = given[i].extensions
      /\ given'[i].context = given[i].context /\ given'[i].tools = given[i].tools
      /\ given'[i].sessions = given[i].sessions /\ given'[i].fate = fate
  BY <1>1, <1>3 DEF Given
<1>5. /\ given[i].scenario = None /\ given[i].extensions = <<>> /\ given[i].context = <<>>
      /\ given[i].tools = <<>> /\ given[i].sessions = 0
  BY <1>1 DEF GivenAsFar, Sited, Opened, Upfronted, Paid, Past, Pending
<1>6. ~Sited(i)' /\ ~Opened(i)' /\ ~Upfronted(i)' /\ ~Paid(i)'
  BY <1>2, <1>4 DEF Sited, Opened, Upfronted, Paid, Past, Pending, Causes, fate
<1>7. GivenAsFar(i)'
  BY <1>4, <1>5, <1>6 DEF GivenAsFar
<1> QED BY <1>1, <1>2, <1>7, GivenOthers

LEMMA GivenScenario ==
    ASSUME TInv, GivenOK, NEW i \in DOMAIN plan, RequestScenario(i)
    PROVE  GivenOK'
<1> DEFINE ref == Cached(scenarioCache, plan[i].scenario, plan[i].scenarioRef)
<1>1. /\ DOMAIN given = DOMAIN plan /\ DOMAIN stage = DOMAIN plan
      /\ given[i] \in Given /\ stage[i] = "scenario" /\ GivenAsFar(i)
      /\ UNCHANGED command
  BY DEF TInv, TypeOK, GivenOK, RequestScenario, At
<1>2. /\ \A j \in DOMAIN plan \ {i} : given'[j] = given[j] /\ stage'[j] = stage[j]
      /\ stage'[i] = "dispatch"
  BY <1>1 DEF RequestScenario, GoTo
<1>3. given'[i] = [given[i] EXCEPT !.scenario = ref]
  BY <1>1 DEF RequestScenario
<1>4. ref # None
  <2>1. plan[i].scenarioRef \in Scenarios
    BY DEF TInv, PlanOK
  <2> QED BY <2>1, NoneFacts DEF Cached
<1> HIDE DEF ref
<1>5. /\ given'[i].scenario # None /\ given'[i].extensions = given[i].extensions
      /\ given'[i].context = given[i].context /\ given'[i].tools = given[i].tools
      /\ given'[i].sessions = given[i].sessions
  BY <1>1, <1>3, <1>4 DEF Given
<1>6. /\ given[i].extensions = <<>> /\ given[i].context = <<>>
      /\ given[i].tools = <<>> /\ given[i].sessions = 0
  BY <1>1 DEF GivenAsFar, Opened, Upfronted, Paid, Past
<1>7. Sited(i)' /\ ~Opened(i)' /\ ~Upfronted(i)' /\ ~Paid(i)'
  BY <1>2 DEF Sited, Opened, Upfronted, Paid, Past, Pending
<1>8. GivenAsFar(i)'
  BY <1>5, <1>6, <1>7 DEF GivenAsFar
<1> QED BY <1>1, <1>2, <1>8, GivenOthers

\* An end gives nothing more, and its fate says what was given before.
LEMMA GivenEnds ==
    ASSUME TInv, GivenOK, NEW i \in DOMAIN plan, UNCHANGED command, NEW fate, EndWith(i, fate),
           \/ stage[i] = "dispatch" /\ fate \in {"prompt", "strategy"}
           \/ stage[i] = "context" /\ fate = "context"
           \/ stage[i] = "pin" /\ fate = "pin"
           \/ stage[i] = "session" /\ fate \in {"model", "extension"}
           \/ stage[i] = "measure" /\ fate \in {"plugin", "rule", "ok"}
    PROVE  GivenOK'
<1>1. /\ DOMAIN given = DOMAIN plan /\ DOMAIN stage = DOMAIN plan
      /\ given[i] \in Given /\ GivenAsFar(i) /\ plan' = plan
  BY DEF TInv, TypeOK, GivenOK, command
<1>2. /\ \A j \in DOMAIN plan \ {i} : given'[j] = given[j] /\ stage'[j] = stage[j]
      /\ stage'[i] = "ended" /\ given'[i] = [given[i] EXCEPT !.fate = fate]
  BY <1>1 DEF EndWith, GoTo
<1>3. /\ given'[i].scenario = given[i].scenario /\ given'[i].extensions = given[i].extensions
      /\ given'[i].context = given[i].context /\ given'[i].tools = given[i].tools
      /\ given'[i].sessions = given[i].sessions /\ given'[i].profile = given[i].profile
      /\ given'[i].fate = fate
  BY <1>1, <1>2 DEF Given
<1>4. /\ (Sited(i)' <=> Sited(i)) /\ (Opened(i)' <=> Opened(i))
      /\ (Upfronted(i)' <=> Upfronted(i)) /\ (Paid(i)' <=> Paid(i))
  BY <1>2, <1>3 DEF Sited, Opened, Upfronted, Paid, Past, Pending, Causes
<1>5. GivenAsFar(i)'
  BY <1>1, <1>3, <1>4 DEF GivenAsFar
<1> QED BY <1>1, <1>2, <1>5, GivenOthers

LEMMA GivenOpen ==
    ASSUME TInv, GivenOK, NEW i \in DOMAIN plan, Open(i)
    PROVE  GivenOK'
<1> DEFINE list == ExtensionsFor(given[i].profile, plan[i].scenario)
<1>1. /\ DOMAIN given = DOMAIN plan /\ DOMAIN stage = DOMAIN plan
      /\ given[i] \in Given /\ stage[i] = "dispatch" /\ GivenAsFar(i)
      /\ UNCHANGED command /\ plan' = plan
  BY DEF TInv, TypeOK, GivenOK, Open, At, command
<1>2. /\ \A j \in DOMAIN plan \ {i} : given'[j] = given[j] /\ stage'[j] = stage[j]
      /\ stage'[i] = "context" /\ given'[i] = [given[i] EXCEPT !.extensions = list]
  BY <1>1 DEF Open, GoTo
<1> HIDE DEF list
<1>3. /\ given'[i].scenario = given[i].scenario /\ given'[i].extensions = list
      /\ given'[i].context = given[i].context /\ given'[i].tools = given[i].tools
      /\ given'[i].sessions = given[i].sessions /\ given'[i].profile = given[i].profile
  BY <1>1, <1>2 DEF Given
<1>4. given[i].context = <<>> /\ given[i].tools = <<>> /\ given[i].sessions = 0
  BY <1>1 DEF GivenAsFar, Upfronted, Paid, Past
<1>5. given[i].scenario # None
  BY <1>1 DEF GivenAsFar, Sited, Past, Pending
<1>6. Sited(i)' /\ Opened(i)' /\ ~Upfronted(i)' /\ ~Paid(i)'
  BY <1>2 DEF Sited, Opened, Upfronted, Paid, Past, Pending
<1>7. GivenAsFar(i)'
  BY <1>1, <1>3, <1>4, <1>5, <1>6 DEF GivenAsFar, list
<1> QED BY <1>1, <1>2, <1>7, GivenOthers

LEMMA GivenContext ==
    ASSUME TInv, GivenOK, NEW i \in DOMAIN plan, AddContext(i)
    PROVE  GivenOK'
<1> DEFINE list == ContextFor(given[i].profile, plan[i].scenario)
<1>1. /\ DOMAIN given = DOMAIN plan /\ DOMAIN stage = DOMAIN plan
      /\ given[i] \in Given /\ stage[i] = "context" /\ GivenAsFar(i)
      /\ UNCHANGED command /\ plan' = plan
  BY DEF TInv, TypeOK, GivenOK, AddContext, At, command
<1>2. /\ \A j \in DOMAIN plan \ {i} : given'[j] = given[j] /\ stage'[j] = stage[j]
      /\ stage'[i] = "pin" /\ given'[i] = [given[i] EXCEPT !.context = list]
  BY <1>1 DEF AddContext, GoTo
<1> HIDE DEF list
<1>3. /\ given'[i].scenario = given[i].scenario /\ given'[i].extensions = given[i].extensions
      /\ given'[i].context = list /\ given'[i].tools = given[i].tools
      /\ given'[i].sessions = given[i].sessions /\ given'[i].profile = given[i].profile
  BY <1>1, <1>2 DEF Given
<1>4. /\ given[i].tools = <<>> /\ given[i].sessions = 0
      /\ given[i].extensions = ExtensionsFor(given[i].profile, plan[i].scenario)
  BY <1>1 DEF GivenAsFar, Opened, Paid, Past
<1>5. given[i].scenario # None
  BY <1>1 DEF GivenAsFar, Sited, Past, Pending
<1>6. Sited(i)' /\ Opened(i)' /\ Upfronted(i)' /\ ~Paid(i)'
  BY <1>2 DEF Sited, Opened, Upfronted, Paid, Past, Pending
<1>7. GivenAsFar(i)'
  BY <1>1, <1>3, <1>4, <1>5, <1>6 DEF GivenAsFar, list
<1> QED BY <1>1, <1>2, <1>7, GivenOthers

LEMMA GivenSession ==
    ASSUME TInv, GivenOK, NEW i \in DOMAIN plan, RunSession(i)
    PROVE  GivenOK'
<1> DEFINE list == ToolsFor(given[i].profile, plan[i].scenario)
<1>1. /\ DOMAIN given = DOMAIN plan /\ DOMAIN stage = DOMAIN plan
      /\ given[i] \in Given /\ stage[i] = "session" /\ GivenAsFar(i)
      /\ UNCHANGED command /\ plan' = plan
  BY DEF TInv, TypeOK, GivenOK, RunSession, At, command
<1>2. /\ given[i].sessions = 0
      /\ given[i].extensions = ExtensionsFor(given[i].profile, plan[i].scenario)
      /\ given[i].context = ContextFor(given[i].profile, plan[i].scenario)
  BY <1>1 DEF GivenAsFar, Opened, Upfronted, Paid, Past
<1>3. given[i].scenario # None
  BY <1>1 DEF GivenAsFar, Sited, Past, Pending
<1>4. /\ \A j \in DOMAIN plan \ {i} : given'[j] = given[j] /\ stage'[j] = stage[j]
      /\ stage'[i] = "compose"
      /\ given'[i] = [given[i] EXCEPT !.tools = list, !.sessions = given[i].sessions + 1]
  BY <1>1 DEF RunSession, GoTo
<1> HIDE DEF list
<1>5. /\ given'[i].scenario = given[i].scenario /\ given'[i].extensions = given[i].extensions
      /\ given'[i].context = given[i].context /\ given'[i].tools = list
      /\ given'[i].sessions = 1 /\ given'[i].profile = given[i].profile
  BY <1>1, <1>2, <1>4 DEF Given
<1>6. Sited(i)' /\ Opened(i)' /\ Upfronted(i)' /\ Paid(i)'
  BY <1>4 DEF Sited, Opened, Upfronted, Paid, Past, Pending
<1>7. GivenAsFar(i)'
  BY <1>1, <1>2, <1>3, <1>5, <1>6 DEF GivenAsFar, list
<1> QED BY <1>1, <1>4, <1>7, GivenOthers

\* The steps that give nothing.
LEMMA GivenMoves ==
    ASSUME TInv, GivenOK, NEW i \in DOMAIN plan,
           PinAgents(i) \/ RegisterHarness(i) \/ LoadPlugin(i)
    PROVE  GivenOK'
<1>1. /\ DOMAIN given = DOMAIN plan /\ DOMAIN stage = DOMAIN plan
      /\ given[i] \in Given /\ GivenAsFar(i)
  BY DEF TInv, TypeOK, GivenOK
<1>2. /\ UNCHANGED command /\ plan' = plan
      /\ \/ stage[i] = "pin" /\ stage'[i] = "session"
         \/ stage[i] = "compose" /\ stage'[i] = "measure"
         \/ stage[i] = "measure" /\ stage'[i] = "measure"
      /\ \A j \in DOMAIN plan \ {i} : given'[j] = given[j] /\ stage'[j] = stage[j]
      /\ given'[i] = given[i] \/ given'[i] = [given[i] EXCEPT !.loaded = given[i].loaded + 1]
  BY <1>1 DEF PinAgents, RegisterHarness, LoadPlugin, At, GoTo, command
<1>3. /\ given'[i].scenario = given[i].scenario /\ given'[i].extensions = given[i].extensions
      /\ given'[i].context = given[i].context /\ given'[i].tools = given[i].tools
      /\ given'[i].sessions = given[i].sessions /\ given'[i].profile = given[i].profile
  BY <1>1, <1>2 DEF Given
<1>4. /\ (Sited(i)' <=> Sited(i)) /\ (Opened(i)' <=> Opened(i))
      /\ (Upfronted(i)' <=> Upfronted(i)) /\ (Paid(i)' <=> Paid(i))
  BY <1>2 DEF Sited, Opened, Upfronted, Paid, Past, Pending
<1>5. GivenAsFar(i)'
  BY <1>1, <1>2, <1>3, <1>4 DEF GivenAsFar
<1> QED BY <1>2, <1>5, GivenOthers

LEMMA GivenNext == TInv /\ GivenOK /\ [Next]_vars => GivenOK'
<1> SUFFICES ASSUME TInv, GivenOK, [Next]_vars PROVE GivenOK'
  OBVIOUS
<1>1. CASE Expand
  BY <1>1, GivenEmpty
<1>2. ASSUME NEW i \in DOMAIN plan, RunStep(i) PROVE GivenOK'
  <2>1. CASE NoPrompt(i) \/ NoStrategy(i) \/ ContextFails(i) \/ PinFails(i) \/ NoModel(i)
               \/ NoExtension(i) \/ PluginFails(i) \/ Measure(i)
    <3>1. UNCHANGED command
      BY <2>1 DEF NoPrompt, NoStrategy, ContextFails, PinFails, NoModel, NoExtension,
         PluginFails, Measure, At
    <3>2. \E fate : /\ EndWith(i, fate)
                    /\ \/ stage[i] = "dispatch" /\ fate \in {"prompt", "strategy"}
                       \/ stage[i] = "context" /\ fate = "context"
                       \/ stage[i] = "pin" /\ fate = "pin"
                       \/ stage[i] = "session" /\ fate \in {"model", "extension"}
                       \/ stage[i] = "measure" /\ fate \in {"plugin", "rule", "ok"}
      BY <2>1 DEF NoPrompt, NoStrategy, ContextFails, PinFails, NoModel, NoExtension,
         PluginFails, Measure, At
    <3> QED BY <3>1, <3>2, GivenEnds
  <2> QED BY <1>2, <2>1, GivenProfile, GivenScenario, GivenOpen, GivenContext, GivenSession,
             GivenMoves DEF RunStep
<1>3. CASE SpecValidate \/ (\E c \in {"single", "matrix"} : Prepare(c)) \/ ExpandThrows \/ Finish
             \/ UNCHANGED vars
  <2>1. UNCHANGED <<plan, stage, given>>
    BY <1>3 DEF SpecValidate, Prepare, ExpandThrows, Finish, vars, command
  <2> QED BY <2>1 DEF GivenOK, GivenAsFar, Sited, Opened, Upfronted, Paid, Past
<1> QED BY <1>1, <1>2, <1>3 DEF Next

-----------------------------------------------------------------------------
(* The preview.                                                             *)

AllOK == TInv /\ CachesOK /\ FatesOK /\ PlanIs /\ GivenOK

\* Every entry is made of levels of an accepted spec.
LEMMA PlanDrawn ==
    ASSUME TInv, PlanIs
    PROVE  /\ \A i \in DOMAIN plan : /\ Accepted /\ Expandable(spec)
                                     /\ DrawnFrom(spec, plan[i]) /\ i \in Nat \ {0}
           /\ phase \in {"running", "previewed", "finished"} => 1 \in DOMAIN plan
<1> DEFINE single == <<resolveFirstRun(spec)>>
<1>1. spec \in Specs
  BY DEF TInv, TypeOK
<1>2. ASSUME Expandable(spec)
      PROVE  /\ 1 \in DOMAIN expandMatrix(spec)
             /\ \A i \in DOMAIN expandMatrix(spec) :
                   DrawnFrom(spec, expandMatrix(spec)[i]) /\ i \in Nat \ {0}
  <2>1. 1 \in DOMAIN expandMatrix(spec)
    BY <1>1, <1>2, FirstDrawn
  <2>2. \A i \in DOMAIN expandMatrix(spec) :
           DrawnFrom(spec, expandMatrix(spec)[i]) /\ i \in Nat \ {0}
    BY <1>1, <1>2, MatrixDrawn
  <2> QED BY <2>1, <2>2
<1>3. ASSUME Expandable(spec)
      PROVE  DOMAIN single = {1} /\ DrawnFrom(spec, single[1])
  <2>1. DOMAIN single = {1} /\ single[1] = resolveFirstRun(spec)
    OBVIOUS
  <2>2. DrawnFrom(spec, resolveFirstRun(spec))
    BY <1>1, <1>3, FirstDrawn
  <2> QED BY <2>1, <2>2
<1> HIDE DEF single
<1>4. ASSUME NEW i \in DOMAIN plan
      PROVE  Accepted /\ Expandable(spec) /\ DrawnFrom(spec, plan[i]) /\ i \in Nat \ {0}
  <2>1. plan # <<>>
    OBVIOUS
  <2>2. Accepted /\ Expandable(spec) /\ plan \in {single, expandMatrix(spec)}
    BY <2>1 DEF PlanIs, single
  <2>3. CASE plan = single
    BY <1>3, <2>2, <2>3
  <2>4. CASE plan = expandMatrix(spec)
    BY <1>2, <2>2, <2>4
  <2> QED BY <2>2, <2>3, <2>4
<1>5. ASSUME phase \in {"running", "previewed", "finished"} PROVE 1 \in DOMAIN plan
  <2>1. Expandable(spec) /\ plan \in {single, expandMatrix(spec)}
    BY <1>5 DEF PlanIs, single
  <2> QED BY <1>2, <1>3, <2>1
<1> QED BY <1>4, <1>5

\* The directory of a scenario is that of a scenario of the spec with the same id.
LEMMA ScenarioDrawn ==
    ASSUME TInv, CachesOK, PlanIs, NEW i \in DOMAIN plan, given[i].scenario # None
    PROVE  \E m \in DOMAIN spec.scenarios :
              /\ spec.scenarios[m].id = plan[i].scenario
              /\ spec.scenarios[m].ref = given[i].scenario
<1>1. PICK k \in DOMAIN plan : /\ plan[k].scenario = plan[i].scenario
                               /\ plan[k].scenarioRef = given[i].scenario
  BY DEF CachesOK
<1>2. DrawnFrom(spec, plan[k])
  BY PlanDrawn
<1> QED BY <1>1, <1>2 DEF DrawnFrom

\* An ended run: its fate, and which files it has.
LEMMA EndedRun ==
    ASSUME AllOK, NEW i \in DOMAIN plan, given[i].fate # None
    PROVE  /\ stage[i] = "ended" /\ given[i].fate \in Causes \cup {"ok"}
           /\ given[i].fate = FateOf(given[i].profile, given[i].scenario, plan[i])
           /\ given[i].profile \in Profiles
           /\ given[i].fate # "profile" => given[i].scenario # None
<1>1. given[i] \in Given /\ stage[i] = "ended" /\ given[i].profile # None
  BY DEF AllOK, TInv, TypeOK, TakenOK
<1>2. given[i].fate \in Causes \cup {"ok"} /\ given[i].profile \in Profiles
  BY <1>1 DEF Given
<1>3. given[i].fate = FateOf(given[i].profile, given[i].scenario, plan[i])
  BY <1>1 DEF AllOK, FatesOK, OnItsWay
<1>4. given[i].fate # "profile" => given[i].scenario # None
  BY <1>1, <1>2 DEF AllOK, GivenOK, GivenAsFar, Sited, Past
<1> QED BY <1>1, <1>2, <1>3, <1>4

\* The first entry ends as foreseen.
LEMMA FirstForeseen ==
    ASSUME AllOK, 1 \in DOMAIN plan, stage[1] = "ended", IdsUnique(spec.scenarios)
    PROVE  Outcome(1) = Foreseen(plan[1])
<1> DEFINE e == plan[1]
           g == given[1]
<1>1. g.fate # None
  BY DEF AllOK, TInv, TypeOK
<1>2. /\ g.fate \in Causes \cup {"ok"} /\ g.fate = FateOf(g.profile, g.scenario, e)
      /\ g.profile \in Profiles /\ (g.fate # "profile" => g.scenario # None)
  BY <1>1, EndedRun
<1>3. g.profile = e.profileRef
  <2>1. First(1)
    BY PlanDrawn DEF First, AllOK
  <2>2. g.profile # None
    BY <1>2, NoneFacts
  <2> QED BY <2>1, <2>2 DEF AllOK, CachesOK
<1>4. ASSUME g.scenario # None PROVE g.scenario = e.scenarioRef
  <2>1. PICK m \in DOMAIN spec.scenarios :
           spec.scenarios[m].id = e.scenario /\ spec.scenarios[m].ref = g.scenario
    BY <1>4, ScenarioDrawn DEF AllOK
  <2>2. PICK k \in DOMAIN spec.scenarios :
           e.scenario = spec.scenarios[k].id /\ e.scenarioRef = spec.scenarios[k].ref
    BY PlanDrawn DEF DrawnFrom, AllOK
  <2>3. k = m
    BY <2>1, <2>2 DEF IdsUnique
  <2> QED BY <2>1, <2>2, <2>3
<1>5. g.fate = FateOf(e.profileRef, e.scenarioRef, e)
  <2>1. CASE g.fate = "profile"
    <3>1. ~ProfileLoads(e.profileRef)
      BY <1>2, <1>3, <2>1 DEF FateOf
    <3> QED BY <2>1, <3>1 DEF FateOf
  <2>2. CASE g.fate # "profile"
    BY <1>2, <1>3, <1>4, <2>2
  <2> QED BY <2>1, <2>2
<1>6. /\ (g.scenario # None <=> g.fate # "profile")
      /\ g.extensions = IF g.fate \in {"profile", "prompt", "strategy"} THEN <<>>
                        ELSE ExtensionsFor(g.profile, e.scenario)
      /\ g.context = IF g.fate \in {"profile", "prompt", "strategy", "context"} THEN <<>>
                     ELSE ContextFor(g.profile, e.scenario)
      /\ g.tools = IF g.fate \in {"ok", "plugin", "rule"}
                   THEN ToolsFor(g.profile, e.scenario) ELSE <<>>
      /\ g.sessions = IF g.fate \in {"ok", "plugin", "rule"} THEN 1 ELSE 0
  <2>1. GivenAsFar(1)
    BY DEF AllOK, GivenOK
  <2>2. /\ Sited(1) <=> g.fate # "profile"
        /\ Opened(1) <=> g.fate \notin {"profile", "prompt", "strategy"}
        /\ Upfronted(1) <=> g.fate \notin {"profile", "prompt", "strategy", "context"}
        /\ Paid(1) <=> g.fate \in {"ok", "plugin", "rule"}
    BY <1>2 DEF Sited, Opened, Upfronted, Paid, Past, Causes, Pending
  <2> QED BY <2>1, <2>2 DEF GivenAsFar
<1> HIDE DEF e, g
<1>7. Outcome(1) = [prompt |-> e.prompt, provider |-> e.provider, modelId |-> e.modelId,
         profile |-> g.profile, scenario |-> g.scenario, extensions |-> g.extensions,
         context |-> g.context, tools |-> g.tools, sessions |-> g.sessions, fate |-> g.fate]
  BY DEF Outcome, e, g
<1>8. Outcome(1) = Foreseen(e)
  <2>1. g.scenario = IF g.fate = "profile" THEN None ELSE e.scenarioRef
    BY <1>4, <1>6
  <2> DEFINE fate == FateOf(e.profileRef, e.scenarioRef, e)
  <2>2. g.fate = fate
    BY <1>5
  <2>3. Foreseen(e) = [prompt |-> e.prompt, provider |-> e.provider, modelId |-> e.modelId,
         profile |-> e.profileRef,
         scenario |-> IF fate = "profile" THEN None ELSE e.scenarioRef,
         extensions |-> IF fate \in {"profile", "prompt", "strategy"} THEN <<>>
                        ELSE ExtensionsFor(e.profileRef, e.scenario),
         context |-> IF fate \in {"profile", "prompt", "strategy", "context"} THEN <<>>
                     ELSE ContextFor(e.profileRef, e.scenario),
         tools |-> IF fate \in {"ok", "plugin", "rule"}
                   THEN ToolsFor(e.profileRef, e.scenario) ELSE <<>>,
         sessions |-> IF fate \in {"ok", "plugin", "rule"} THEN 1 ELSE 0,
         fate |-> fate]
    BY DEF Foreseen
  <2> HIDE DEF fate
  <2> QED BY <1>3, <1>6, <1>7, <2>1, <2>2, <2>3
<1> QED BY <1>8 DEF e

\* The single run foresees what the first run of the matrix does.
LEMMA SameForeseen ==
    ASSUME NEW s \in Specs, Expandable(s)
    PROVE  Foreseen(resolveFirstRun(s)) = Foreseen(expandMatrix(s)[1])
<1> DEFINE d == resolveFirstRun(s)
           e == expandMatrix(s)[1]
<1>1. /\ d.scenario = e.scenario /\ d.scenarioRef = e.scenarioRef /\ d.prompt = e.prompt
      /\ d.profile = e.profile /\ d.profileRef = e.profileRef
      /\ d.provider = e.provider /\ d.modelId = e.modelId
  BY FirstDrawn
<1> HIDE DEF d, e
<1>2. FateOf(d.profileRef, d.scenarioRef, d) = FateOf(e.profileRef, e.scenarioRef, e)
  BY <1>1 DEF FateOf
<1>3. Foreseen(d) = Foreseen(e)
  BY <1>1, <1>2 DEF Foreseen
<1> QED BY <1>3 DEF d, e

LEMMA PreviewNext == AllOK /\ PreviewOK /\ [Next]_vars => PreviewOK'
<1> SUFFICES ASSUME AllOK, PreviewOK, [Next]_vars PROVE PreviewOK'
  OBVIOUS
<1>1. spec' = spec
  BY DEF Next, SpecValidate, Prepare, Expand, ExpandThrows, Finish, vars, command, RunStep,
     RequestProfile, RequestScenario, NoPrompt, NoStrategy, Open, AddContext, ContextFails,
     PinAgents, PinFails, NoModel, NoExtension, RunSession, RegisterHarness, LoadPlugin,
     PluginFails, Measure, At
<1>2. Foreseen(resolveFirstRun(spec))' = Foreseen(resolveFirstRun(spec))
  BY <1>1 DEF Foreseen, FateOf, Upto, Loads, PluginAt
<1>3. CASE preview' = preview
  BY <1>1, <1>2, <1>3 DEF PreviewOK
<1>4. CASE Finish /\ call = "single"
  <2>1. phase = "running" /\ preview' = Outcome(1) /\ \A i \in DOMAIN plan : stage[i] = "ended"
    BY <1>4 DEF Finish
  <2>2. plan = <<resolveFirstRun(spec)>> /\ Expandable(spec)
    BY <1>4, <2>1 DEF AllOK, PlanIs
  <2>3. 1 \in DOMAIN plan /\ plan[1] = resolveFirstRun(spec)
    BY <2>2
  <2>4. IdsUnique(spec.scenarios) => Outcome(1) = Foreseen(plan[1])
    BY <2>1, <2>3, FirstForeseen
  <2> QED BY <1>1, <1>2, <2>1, <2>2, <2>3, <2>4 DEF PreviewOK
<1>5. preview' = preview \/ (Finish /\ call = "single")
  BY DEF Next, SpecValidate, Prepare, Expand, ExpandThrows, Finish, vars, command, RunStep,
     RequestProfile, RequestScenario, NoPrompt, NoStrategy, Open, AddContext, ContextFails,
     PinAgents, PinFails, NoModel, NoExtension, RunSession, RegisterHarness, LoadPlugin,
     PluginFails, Measure, At
<1> QED BY <1>3, <1>4, <1>5

\* All parts of the invariant.
LEMMA AllAlways == Spec => [](AllOK /\ PreviewOK)
<1>1. Init => AllOK /\ PreviewOK
  BY InitTyped, CachesStart, FatesStart, PlanIsStart, GivenStart DEF AllOK, PreviewOK, Init
<1>2. AllOK /\ PreviewOK /\ [Next]_vars => (AllOK /\ PreviewOK)'
  <2>1. AllOK /\ [Next]_vars => AllOK'
    BY NextTyped, CachesNext, FatesNext, PlanIsNext, GivenNext DEF AllOK
  <2> QED BY <2>1, PreviewNext
<1> QED BY <1>1, <1>2, PTL DEF Spec

\* facet run --single previews the first run of the matrix: in every state, so on every
\* schedule of the matrix, that run has what the single run had and ends as it did,
\* unless a scenario id is used twice.
THEOREM PreviewsHold == Spec => []PreviewHolds
<1>1. ASSUME AllOK, PreviewOK PROVE PreviewHolds
  <2> SUFFICES ASSUME phase = "finished", preview # None, IdsUnique(spec.scenarios)
               PROVE  Outcome(1) = preview
    BY DEF PreviewHolds
  <2>1. /\ Expandable(spec) /\ call = "matrix" /\ spec \in Specs
        /\ \A i \in DOMAIN plan : stage[i] = "ended"
    BY <1>1 DEF AllOK, PlanIs, TInv, TypeOK
  <2>2. plan = expandMatrix(spec)
    BY <1>1, <2>1 DEF AllOK, PlanIs
  <2>3. 1 \in DOMAIN plan
    BY <1>1, PlanDrawn DEF AllOK
  <2>4. Outcome(1) = Foreseen(plan[1])
    BY <1>1, <2>1, <2>3, FirstForeseen
  <2>5. Foreseen(resolveFirstRun(spec)) = Foreseen(expandMatrix(spec)[1])
    BY <2>1, SameForeseen
  <2> QED BY <1>1, <2>2, <2>4, <2>5 DEF PreviewOK
<1> QED BY <1>1, AllAlways, PTL

\* The matrix of every accepted spec is the full factorial of its axes, and rows of the
\* results table that read the same are runs of the same files and model.
THEOREM MatrixIsWhole == Spec => []MatrixIsFactorial
<1>1. ASSUME AllOK PROVE MatrixIsFactorial
  <2> SUFFICES ASSUME phase = "running", call = "matrix" PROVE MatrixIsFactorial
    BY DEF MatrixIsFactorial
  <2>1. Expandable(spec) /\ plan = expandMatrix(spec) /\ spec \in Specs
    BY <1>1 DEF AllOK, PlanIs, TInv, TypeOK
  <2>2. IsFullFactorial(spec, plan)
    BY <2>1, MatrixFull
  <2>3. ASSUME IdsUnique(spec.scenarios),
               \A type \in Required : IdsUnique(Axis(spec.factors, type)),
               NEW i \in DOMAIN plan, NEW j \in DOMAIN plan, RowOf(plan[i]) = RowOf(plan[j])
        PROVE  [plan[i] EXCEPT !.runId = j, !.params = plan[j].params] = plan[j]
    BY <2>1, <2>3, RowsTell
  <2> QED BY <2>2, <2>3 DEF MatrixIsFactorial
<1> QED BY <1>1, AllAlways, PTL

-----------------------------------------------------------------------------
(* The causes of failures.                                                  *)

\* A list with a repetition has fewer values than entries.
LEMMA FewerValues ==
    ASSUME NEW adds, Len(adds) \in Nat, DOMAIN adds = 1..Len(adds),
           NEW k \in DOMAIN adds, NEW m \in DOMAIN adds, k # m, adds[k] = adds[m]
    PROVE  Cardinality(Registers(adds)) < Len(adds)
<1> DEFINE L == Len(adds)
           S == (1..L) \ {m}
           T == Registers(adds)
           f == [x \in S |-> adds[x]]
<1>1. L \in Nat /\ m \in 1..L /\ k \in S /\ DOMAIN adds = 1..L
  OBVIOUS
<1>2. IsFiniteSet(1..L) /\ Cardinality(1..L) = L
  <2>1. 1 \in Int /\ L \in Int
    OBVIOUS
  <2> HIDE DEF L
  <2> QED BY <1>1, <2>1, FS_Interval
<1>3. IsFiniteSet(S) /\ Cardinality(S) = L - 1
  <2> HIDE DEF L
  <2> QED BY <1>1, <1>2, FS_RemoveElement
<1>4. f \in Surjection(S, T)
  <2>1. \A x \in S : adds[x] \in T
    BY <1>1 DEF Registers
  <2>2. ASSUME NEW t \in T PROVE \E x \in S : adds[x] = t
    <3>1. PICK x \in 1..L : adds[x] = t
      BY <1>1 DEF Registers
    <3> QED BY <1>1, <3>1
  <2> HIDE DEF S, T
  <2>3. f \in [S -> T]
    BY <2>1
  <2> QED BY <2>2, <2>3 DEF Surjection
<1> HIDE DEF L, S, T, f
<1>5. IsFiniteSet(T) /\ Cardinality(T) <= Cardinality(S)
  BY <1>3, <1>4, FS_Surjection
<1>6. Cardinality(T) \in Nat
  BY <1>5, FS_CardinalityType
<1>7. Cardinality(T) < L
  BY <1>1, <1>3, <1>5, <1>6
<1> QED BY <1>7 DEF T, L

\* Why a spec whose plugins do not all load cannot have them all.
LEMMA PluginCause ==
    ASSUME spec \in Specs, NEW n \in 0..(Len(spec.plugins) - 1), ~Loads(n)
    PROVE  \E k \in DOMAIN spec.plugins : Unloadable(k)
<1>1. /\ Len(spec.plugins) \in Nat /\ DOMAIN spec.plugins = 1..Len(spec.plugins)
      /\ \A k \in DOMAIN spec.plugins : spec.plugins[k] \in DOMAIN PluginModules
  BY PluginsListed
<1>2. CASE \E k \in DOMAIN spec.plugins : PluginAt(k) = None
  BY <1>2 DEF PluginAt, Unloadable
<1>3. CASE \A k \in DOMAIN spec.plugins : PluginAt(k) # None
  <2> DEFINE adds == PluginAt(n + 1)
             earlier == {PluginAt(m) : m \in 1..n} \ {None}
             taken == BuiltIn \cup HarnessRegisters \cup UNION {Registers(e) : e \in earlier}
  <2>1. n \in Nat /\ n + 1 \in DOMAIN spec.plugins /\ (n + 1) - 1 = n
    BY <1>1
  <2>2. taken = Upto(n)
    <3>1. \A m \in 1..n : PluginAt(m) # None
      BY <1>1, <1>3, <2>1
    <3>2. earlier = {PluginAt(m) : m \in 1..n}
      BY <3>1
    <3>3. {Registers(e) : e \in {PluginAt(m) : m \in 1..n}}
             = {Registers(PluginAt(m)) : m \in 1..n}
      OBVIOUS
    <3> QED BY <3>2, <3>3 DEF Upto
  <2>3. adds # None /\ Len(adds) \in Nat /\ DOMAIN adds = 1..Len(adds)
    BY <1>1, <1>3, <2>1, PluginsAssumption DEF PluginAt
  <2>4. \/ Registers(adds) \cap Upto(n) # {}
        \/ \E k, m \in DOMAIN adds : k # m /\ adds[k] = adds[m]
    BY <2>3 DEF Loads
  <2>5. \/ Registers(adds) \cap taken # {}
        \/ Cardinality(Registers(adds)) < Len(adds)
    <3> HIDE DEF adds, taken
    <3> QED BY <2>2, <2>3, <2>4, FewerValues
  <2>6. /\ adds = PluginModules[spec.plugins[n + 1]]
        /\ earlier = {PluginModules[spec.plugins[m]] : m \in 1..((n + 1) - 1)} \ {None}
    BY <2>1 DEF PluginAt
  <2> HIDE DEF adds, earlier
  <2>7. Unloadable(n + 1)
    BY <2>5, <2>6, Zenon DEF Unloadable
  <2> QED BY <2>1, <2>7
<1> QED BY <1>2, <1>3

\* A profile that was not replaced is one of the levels the validator looked at.
LEMMA NotReplaced ==
    ASSUME NEW ref
    PROVE  Replaced(ref) \/ \E k \in DOMAIN LastLevels(spec, "extension_select") :
                               LastLevels(spec, "extension_select")[k].ref = ref
BY DEF Replaced

\* The causes of the refusals before the session.
LEMMA EarlyCauses ==
    ASSUME AllOK, NEW i \in DOMAIN plan, given[i].fate # None
    PROVE  FilesCause(i)
<1> DEFINE p == given[i].profile
           s == given[i].scenario
           id == plan[i].scenario
           fate == given[i].fate
<1>1. fate = FateOf(p, s, plan[i]) /\ p \in Profiles /\ (fate # "profile" => s # None)
  BY EndedRun
<1>2. Accepted /\ Valid(spec)
  BY PlanDrawn DEF AllOK, Accepted
<1>3. ASSUME fate = "profile" PROVE ~ProfileFiles[p].readable \/ Replaced(p)
  <2>1. ~ProfileLoads(p)
    BY <1>1, <1>3 DEF FateOf
  <2> QED BY <1>2, <2>1, NotReplaced DEF ProfileLoads, Valid, ExtensionsValid
<1>4. ASSUME fate = "context"
      PROVE  \E k \in DOMAIN ContextFor(p, id) :
                s \in ContextFor(p, id)[k].failsIn /\ (ContextFor(p, id)[k].missing => Replaced(p))
  <2>1. ~ContextHolds(p, s, id)
    BY <1>1, <1>4 DEF FateOf
  <2>2. PICK k \in DOMAIN ContextFor(p, id) : s \in ContextFor(p, id)[k].failsIn
    BY <2>1 DEF ContextHolds
  <2>3. k \in DOMAIN ProfileFiles[p].upfront /\ ContextFor(p, id)[k] = ProfileFiles[p].upfront[k]
    BY DEF ContextFor, Applying
  <2>4. ProfileFiles[p].upfront[k].missing => Replaced(p)
    BY <1>2, <2>3, NotReplaced DEF Valid, ContextThere
  <2> QED BY <2>2, <2>3, <2>4
<1>5. ASSUME fate = "pin"
      PROVE  LET agents == ProfileFiles[p].agents IN
                \/ Replaced(p)
                \/ agents.entries = "links"
                \/ agents.inherits /\ plan[i].provider \notin UserModels
  <2>1. ~PinHolds(p, plan[i].provider)
    BY <1>1, <1>5 DEF FateOf
  <2>2. ProfileFiles[p].agents # None
    BY <2>1 DEF PinHolds
  <2>3. ProfileFiles[p].agents.entries \in {"files", "links", "none"}
    BY <1>1, <2>2, ProfilesAssumption DEF Profiles
  <2>4. ProfileFiles[p].agents.entries = "none" => Replaced(p)
    BY <1>2, <2>2, NotReplaced DEF Valid, AgentsThere
  <2> QED BY <2>1, <2>3, <2>4 DEF PinHolds
<1>6. ASSUME fate = "prompt", NEW k \in DOMAIN LastLevels(spec, "prompt_swap")
      PROVE  LastLevels(spec, "prompt_swap")[k].id # plan[i].prompt
  <2>1. plan[i].prompt \notin ScenarioFiles[s].prompts
    BY <1>1, <1>6 DEF FateOf
  <2>2. s # None
    BY <1>1, <1>6
  <2>3. PICK m \in DOMAIN spec.scenarios : spec.scenarios[m].ref = s
    BY <2>2, ScenarioDrawn DEF AllOK
  <2>4. LastLevels(spec, "prompt_swap")[k].id \in ScenarioFiles[s].prompts
    BY <1>2, <2>3 DEF Valid, PromptsDeclared
  <2> QED BY <2>1, <2>4
<1> QED BY <1>3, <1>4, <1>5, <1>6 DEF FilesCause

\* Only a run whose model Pi knows, with a key for its provider, has cost a session.
LEMMA PaidRun ==
    ASSUME AllOK, NEW j \in DOMAIN plan, given[j].sessions # 0
    PROVE  /\ Paid(j) /\ given[j].sessions = 1
           /\ ModelFound(plan[j].provider, plan[j].modelId)
           /\ ProfileLoads(given[j].profile) /\ given[j].profile \in Profiles
           /\ given[j].scenario # None
           /\ plan[j].provider \in Keys
<1>1. GivenAsFar(j) /\ OnItsWay(j)
  BY DEF AllOK, GivenOK, FatesOK
<1>2. Paid(j) /\ given[j].sessions = 1 /\ Sited(j)
  BY <1>1 DEF GivenAsFar, Paid, Sited, Past, Causes, Pending
<1>3. ModelFound(plan[j].provider, plan[j].modelId) /\ ProfileLoads(given[j].profile)
  <2>1. CASE stage[j] \in {"compose", "measure"}
    BY <1>1, <2>1 DEF OnItsWay, Pending
  <2>2. CASE stage[j] = "ended" /\ given[j].fate \in {"ok", "plugin", "rule"}
    <3>1. given[j].fate = FateOf(given[j].profile, given[j].scenario, plan[j])
      BY <1>1, <2>2 DEF OnItsWay
    <3> QED BY <2>2, <3>1 DEF FateOf
  <2> QED BY <1>2, <2>1, <2>2 DEF Paid, Past
<1>4. given[j].profile \in Profiles
  <2>1. stage[j] # "waiting" /\ given[j] \in Given
    BY <1>2 DEF Paid, Past, AllOK, TInv, TypeOK
  <2>2. given[j].profile # None
    BY <2>1 DEF AllOK, TInv, TakenOK
  <2> QED BY <2>1, <2>2 DEF Given
<1>5. plan[j].provider \in Keys
  <2>1. Accepted /\ DrawnFrom(spec, plan[j])
    BY PlanDrawn DEF AllOK
  <2>2. plan[j].provider \in ProvidersOf(spec)
    BY <2>1 DEF DrawnFrom, ProvidersOf
  <2> QED BY <2>1, <2>2 DEF Accepted
<1> QED BY <1>1, <1>2, <1>3, <1>4, <1>5 DEF GivenAsFar

\* The causes of the other refusals, and their price.
LEMMA LateCauses ==
    ASSUME AllOK, NEW i \in DOMAIN plan, given[i].fate # None
    PROVE  ServiceCause(i)
<1> DEFINE p == given[i].profile
           s == given[i].scenario
           fate == given[i].fate
<1>1. fate = FateOf(p, s, plan[i]) /\ stage[i] = "ended" /\ spec \in Specs
  BY EndedRun DEF AllOK, TInv, TypeOK
<1>2. ASSUME fate = "model", NEW j \in DOMAIN plan,
             plan[j].provider = plan[i].provider, plan[j].modelId = plan[i].modelId
      PROVE  given[j].sessions = 0
  <2>1. ~ModelFound(plan[i].provider, plan[i].modelId)
    BY <1>1, <1>2 DEF FateOf
  <2> QED BY <1>2, <2>1, PaidRun
<1>3. ASSUME fate = "plugin" PROVE \E k \in DOMAIN spec.plugins : Unloadable(k)
  <2>1. \E n \in 0..(Len(spec.plugins) - 1) : ~Loads(n)
    BY <1>1, <1>3 DEF FateOf
  <2> QED BY <1>1, <2>1, PluginCause
<1>4. ASSUME fate = "rule"
      PROVE  \E rule \in ProfileFiles[p].rules : UnknownKind(rule.kind) \/ ~rule.fits
  <2>1. PICK rule \in ProfileFiles[p].rules :
           <<"metricKind", rule.kind>> \notin Upto(Len(spec.plugins)) \/ ~rule.fits
    BY <1>1, <1>4 DEF FateOf
  <2>2. CASE ~rule.fits
    BY <2>2
  <2>3. CASE <<"metricKind", rule.kind>> \notin Upto(Len(spec.plugins))
    <3>1. rule.kind \notin PiKinds
      BY <2>3 DEF Upto, HarnessRegisters
    <3>2. \A k \in DOMAIN spec.plugins :
             <<"metricKind", rule.kind>> \notin Registers(PluginAt(k))
      BY <1>1, <2>3, PluginsListed DEF Upto
    <3> QED BY <3>1, <3>2 DEF PluginAt, UnknownKind
  <2> QED BY <2>1, <2>2, <2>3
<1>5. fate \in {"ok", "plugin", "rule"} => spec.strategy = "git_worktree"
  BY <1>1 DEF FateOf
<1>6. given[i].sessions = 1 <=> fate \in {"ok", "plugin", "rule"}
  <2>1. Paid(i) <=> fate \in {"ok", "plugin", "rule"}
    BY <1>1 DEF Paid, Past
  <2> QED BY <2>1 DEF AllOK, GivenOK, GivenAsFar
<1>7. given[i].sessions > 0 => plan[i].provider \in Keys
  <2>1. given[i].sessions \in Nat
    BY DEF AllOK, TInv, TypeOK, Given
  <2> QED BY <2>1, PaidRun
<1> QED BY <1>2, <1>3, <1>4, <1>5, <1>6, <1>7 DEF ServiceCause

\* What the validator checks is never refused at dispatch, and every refusal has one of
\* the causes it does not see; only plugins and rules fail after the session is paid.
THEOREM CausesKnown == Spec => []FailuresHaveACause
<1>1. ASSUME AllOK PROVE FailuresHaveACause
  <2> SUFFICES ASSUME NEW i \in DOMAIN plan PROVE FilesCause(i) /\ ServiceCause(i)
    BY DEF FailuresHaveACause
  <2>1. CASE given[i].fate = None
    <3>1. given[i].sessions > 0 => plan[i].provider \in Keys
      <4>1. given[i].sessions \in Nat
        BY <1>1 DEF AllOK, TInv, TypeOK, Given
      <4> QED BY <1>1, <4>1, PaidRun
    <3>2. given[i].fate \notin {"ok"} \cup Causes
      BY <2>1, NoneFacts
    <3> QED BY <2>1, <3>1, <3>2 DEF FilesCause, ServiceCause, Causes
  <2>2. CASE given[i].fate # None
    BY <1>1, <2>2, EarlyCauses, LateCauses
  <2> QED BY <2>1, <2>2
<1> QED BY <1>1, AllAlways, PTL

-----------------------------------------------------------------------------
(* The warnings of facet spec validate.                                     *)

\* The levels that the validator sees are a list.
LEMMA LevelsListed ==
    ASSUME NEW s \in Specs, NEW type
    PROVE  LET levels == LastLevels(s, type)
           IN  Len(levels) \in Nat /\ DOMAIN levels = 1..Len(levels)
<1> DEFINE fs == s.factors
           ks == OfKind(fs, type)
<1>1. CASE ks = {}
  BY <1>1 DEF LastLevels
<1>2. CASE ks # {}
  <2>1. Len(fs) \in Nat /\ ks \in SUBSET (1..Len(fs))
    BY FactorsListed DEF Listed, OfKind
  <2>2. Topmost(ks) \in 1..Len(fs)
    BY ONLY <1>2, <2>1, LastOfSome
  <2>3. fs[Topmost(ks)].levels \in Seq(Levels(fs))
    BY <2>2, FactorsListed DEF Listed
  <2>4. LastLevels(s, type) = fs[Topmost(ks)].levels
    BY <1>2 DEF LastLevels, Topmost
  <2> QED BY <2>3, <2>4
<1> QED BY <1>1, <1>2

\* The validator reads the binaries of a level with the id it is asked for.
LEMMA ManifestRead ==
    ASSUME spec \in Specs, NEW k \in DOMAIN LastLevels(spec, "extension_select")
    PROVE  LET levels == LastLevels(spec, "extension_select")
           IN  \E m \in DOMAIN levels :
                  levels[m].id = levels[k].id /\ ManifestOf(spec, levels[k].id) = levels[m].ref
<1> DEFINE levels == LastLevels(spec, "extension_select")
           L == Len(levels)
           same == {n \in DOMAIN levels : levels[n].id = levels[k].id}
           T == {L - n : n \in same}
           IsLast(n) == /\ levels[n].id = levels[k].id
                        /\ \A m \in DOMAIN levels : levels[m].id = levels[k].id => m <= n
<1>1. L \in Nat /\ DOMAIN levels = 1..L /\ k \in same /\ same \subseteq 1..L
  BY LevelsListed
<1> HIDE DEF L
<1>2. T \in SUBSET Nat /\ T # {}
  BY <1>1
<1>3. PICK x \in T : \A y \in T : x <= y
  <2> HIDE DEF T
  <2> QED BY <1>2, Least
<1>4. PICK n \in same : x = L - n
  OBVIOUS
<1>5. \A m \in same : L - n <= L - m
  BY <1>3, <1>4
<1>6. \A m \in same : m <= n
  BY <1>1, <1>5
<1>7. n \in DOMAIN levels /\ IsLast(n)
  BY <1>6
<1> DEFINE j == CHOOSE m \in DOMAIN levels : IsLast(m)
<1>8. j \in DOMAIN levels /\ IsLast(j)
  <2> HIDE DEF IsLast, levels
  <2> QED BY <1>7
<1>9. ManifestOf(spec, levels[k].id) = levels[j].ref
  BY DEF ManifestOf
<1> QED BY <1>8, <1>9

\* A run without tools was warned of.
LEMMA WarnedOf ==
    ASSUME AllOK, NEW i \in DOMAIN plan, verdict # None, given[i].sessions # 0,
           given[i].tools = <<>>, ~Replaced(given[i].profile)
    PROVE  \E w \in warnings : w[1].ref = given[i].profile /\ w[2] = plan[i].scenario
<1> DEFINE p == given[i].profile
           id == plan[i].scenario
           tools == ProfileFiles[p].tools
<1>1. Paid(i) /\ ProfileFiles[p].readable /\ p \in Profiles
  BY PaidRun DEF ProfileLoads
<1>2. ToolsFor(p, id) = <<>>
  BY <1>1 DEF AllOK, GivenOK, GivenAsFar
<1>3. \A k \in DOMAIN tools : ~AppliesTo(tools[k], id)
  <2>1. DOMAIN ToolsFor(p, id) = {k \in DOMAIN tools : AppliesTo(tools[k], id)}
    BY DEF ToolsFor, Applying
  <2>2. DOMAIN ToolsFor(p, id) = {}
    BY <1>2
  <2> QED BY <2>1, <2>2
<1>4. \E k \in DOMAIN tools : ~Ungated(tools[k])
  BY <1>1, <1>3, ProfilesAssumption DEF AppliesTo, Profiles
<1>5. PICK k \in DOMAIN LastLevels(spec, "extension_select") :
         LastLevels(spec, "extension_select")[k].ref = p
  BY NotReplaced
<1>6. Accepted /\ DrawnFrom(spec, plan[i])
  BY PlanDrawn DEF AllOK
<1>7. id \in ScenarioIdsOf(spec)
  BY <1>6 DEF DrawnFrom, ScenarioIdsOf
<1> DEFINE level == LastLevels(spec, "extension_select")[k]
           w == <<level, id>>
<1>8. w \in LastProfiles(spec) \X ScenarioIdsOf(spec) /\ w[1].ref = p /\ w[2] = id
  BY <1>5, <1>7 DEF LastProfiles
<1> HIDE DEF level, w
<1>9. w \in NotCovered(spec)
  BY <1>1, <1>2, <1>4, <1>8 DEF NotCovered
<1>10. warnings = NotCovered(spec)
  BY <1>6 DEF AllOK, PlanIs, Accepted
<1> QED BY <1>8, <1>9, <1>10

\* What the validator has not said is no surprise in a paid session: a run without
\* tools was warned of, and after an OK the binaries are there, but for the profiles
\* that the validator does not see.
THEOREM WarningsTold == Spec => []GatesWarned
<1>1. ASSUME AllOK PROVE GatesWarned
  <2> SUFFICES ASSUME NEW i \in DOMAIN plan, verdict # None, given[i].sessions > 0
      PROVE
            /\ given[i].tools = <<>> =>
                  \/ \E w \in warnings :
                        w[1].ref = given[i].profile /\ w[2] = plan[i].scenario
                  \/ Replaced(given[i].profile)
            /\ verdict = "OK" =>
                  /\ ScenarioFiles[given[i].scenario].binaries \subseteq OnPath
                  /\ \/ BinariesFor(given[i].profile, plan[i].scenario) \subseteq OnPath
                     \/ Replaced(given[i].profile)
                     \/ \E k, m \in DOMAIN LastLevels(spec, "extension_select") :
                          LET levels == LastLevels(spec, "extension_select")
                          IN  /\ levels[k].ref = given[i].profile /\ levels[k].id = levels[m].id
                              /\ levels[m].ref # given[i].profile
    BY DEF GatesWarned
  <2>1. given[i].sessions # 0 /\ spec \in Specs
    BY <1>1 DEF AllOK, TInv, TypeOK
  <2>2. given[i].tools = <<>> =>
           \/ \E w \in warnings : w[1].ref = given[i].profile /\ w[2] = plan[i].scenario
           \/ Replaced(given[i].profile)
    BY <1>1, <2>1, WarnedOf
  <2>3. ASSUME verdict = "OK"
        PROVE  ScenarioFiles[given[i].scenario].binaries \subseteq OnPath
    <3>1. given[i].scenario # None
      BY <1>1, <2>1, PaidRun
    <3>2. PICK m \in DOMAIN spec.scenarios : spec.scenarios[m].ref = given[i].scenario
      BY <1>1, <3>1, ScenarioDrawn DEF AllOK
    <3> QED BY <1>1, <2>3, <3>2 DEF AllOK, PlanIs, BinariesThere
  <2>4. ASSUME verdict = "OK", ~Replaced(given[i].profile)
        PROVE  \/ BinariesFor(given[i].profile, plan[i].scenario) \subseteq OnPath
               \/ \E k, m \in DOMAIN LastLevels(spec, "extension_select") :
                    LET levels == LastLevels(spec, "extension_select")
                    IN  /\ levels[k].ref = given[i].profile /\ levels[k].id = levels[m].id
                        /\ levels[m].ref # given[i].profile
    <3> DEFINE levels == LastLevels(spec, "extension_select")
    <3>1. PICK k \in DOMAIN levels : levels[k].ref = given[i].profile
      BY <2>4, NotReplaced
    <3>2. PICK m \in DOMAIN levels :
             levels[m].id = levels[k].id /\ ManifestOf(spec, levels[k].id) = levels[m].ref
      BY <2>1, ManifestRead
    <3>3. PICK n \in DOMAIN spec.scenarios : spec.scenarios[n].id = plan[i].scenario
      BY <1>1, PlanDrawn DEF DrawnFrom, AllOK
    <3>4. BinariesFor(levels[m].ref, plan[i].scenario) \subseteq OnPath
      BY <1>1, <2>4, <3>2, <3>3 DEF AllOK, PlanIs, BinariesThere
    <3> HIDE DEF levels
    <3>5. CASE levels[m].ref = given[i].profile
      BY <3>4, <3>5
    <3>6. CASE levels[m].ref # given[i].profile
      BY <3>1, <3>2, <3>6 DEF levels
    <3> QED BY <3>5, <3>6
  <2> QED BY <2>2, <2>3, <2>4
<1> QED BY <1>1, AllAlways, PTL

-----------------------------------------------------------------------------
(* The two expansions of a matrix.  A draft of the registry path is made   *)
(* of a prompt, a profile, a model and parameters, and so is a cell.       *)

Blank == [id |-> "", ref |-> "", provider |-> "", model_id |-> ""]

Made(p, e, m, q) ==
    [promptId |-> p.id, profileId |-> e.id, profileRef |-> e.ref, modelLevelId |-> m.id,
     provider |-> m.provider, modelInternalId |-> m.model_id, harnessParams |-> q]

LEMMA MadeOfParts ==
    /\ EmptyDraft = Made(Blank, Blank, Blank, NoParams)
    /\ \A n, c : DraftOf(EntryOf(n, c)) = Made(c[2], c[3], c[4], c[5])
BY DEF EmptyDraft, Made, Blank, DraftOf, EntryOf

\* Every kind of factor replaces its own part.
LEMMA ApplyMade ==
    ASSUME NEW f, NEW l, NEW v, v = [factor |-> f, level |-> l],
           NEW p, NEW e, NEW m, NEW q
    PROVE  /\ TypeOf(f) = "prompt_swap" => Apply(Made(p, e, m, q), v) = Made(l, e, m, q)
           /\ TypeOf(f) = "extension_select" => Apply(Made(p, e, m, q), v) = Made(p, l, m, q)
           /\ TypeOf(f) = "model_swap" => Apply(Made(p, e, m, q), v) = Made(p, e, l, q)
           /\ TypeOf(f) = "model_param" =>
                 Apply(Made(p, e, m, q), v) = Made(p, e, m, Bind(q, f.param, l.value))
<1>1. v.factor = f /\ v.level = l
  OBVIOUS
<1>2. ASSUME TypeOf(f) = "prompt_swap" PROVE Apply(Made(p, e, m, q), v) = Made(l, e, m, q)
  <2>1. Apply(Made(p, e, m, q), v) = [Made(p, e, m, q) EXCEPT !.promptId = l.id]
    BY <1>1, <1>2 DEF Apply
  <2> QED BY <2>1 DEF Made
<1>3. ASSUME TypeOf(f) = "extension_select"
      PROVE  Apply(Made(p, e, m, q), v) = Made(p, l, m, q)
  <2>1. Apply(Made(p, e, m, q), v) =
           [Made(p, e, m, q) EXCEPT !.profileId = l.id, !.profileRef = l.ref]
    BY <1>1, <1>3 DEF Apply
  <2> QED BY <2>1 DEF Made
<1>4. ASSUME TypeOf(f) = "model_swap" PROVE Apply(Made(p, e, m, q), v) = Made(p, e, l, q)
  <2>1. Apply(Made(p, e, m, q), v) =
           [Made(p, e, m, q) EXCEPT !.modelLevelId = l.id, !.provider = l.provider,
                                    !.modelInternalId = l.model_id]
    BY <1>1, <1>4 DEF Apply
  <2> QED BY <2>1 DEF Made
<1>5. ASSUME TypeOf(f) = "model_param"
      PROVE  Apply(Made(p, e, m, q), v) = Made(p, e, m, Bind(q, f.param, l.value))
  <2>1. Apply(Made(p, e, m, q), v) =
           [Made(p, e, m, q) EXCEPT !.harnessParams = Bind(@, f.param, l.value)]
    BY <1>1, <1>5 DEF Apply
  <2> QED BY <2>1 DEF Made
<1> QED BY <1>2, <1>3, <1>4, <1>5

Kinds == Required \cup {"model_param"}

\* Factors that have been parsed.
Typed(fs) ==
    Listed(fs) /\ \A k \in 1..Len(fs) : HasType(fs[k]) /\ TypeOf(fs[k]) \in Kinds

\* The values of the axes of the registry path, and what can be made of them.
FactorValues(fs) ==
    {[factor |-> fs[k], level |-> l] : k \in 1..Len(fs), l \in Levels(fs)}
Drafts(fs) ==
    {Made(p, e, m, q) : p \in Levels(fs) \cup {Blank}, e \in Levels(fs) \cup {Blank},
                        m \in Levels(fs) \cup {Blank}, q \in ParamSets(fs)}

LEMMA ApplyTyped ==
    ASSUME NEW fs, Typed(fs), NEW d \in Drafts(fs), NEW v \in FactorValues(fs)
    PROVE  Apply(d, v) \in Drafts(fs)
<1>1. PICK k \in 1..Len(fs), l \in Levels(fs) : v = [factor |-> fs[k], level |-> l]
  BY DEF FactorValues
<1> DEFINE B == Levels(fs) \cup {Blank}
<1>2. PICK p \in B, e \in B, m \in B, q \in ParamSets(fs) : d = Made(p, e, m, q)
  BY DEF Drafts
<1>3. Bind(q, fs[k].param, l.value) \in ParamSets(fs)
  <2>1. fs[k].param \in Params(fs) /\ l.value \in LevelValues(fs)
    BY DEF Params, LevelValues, Typed, Listed
  <2> QED BY <2>1, BindTyped
<1>4. TypeOf(fs[k]) \in Kinds /\ l \in B
  BY DEF Typed
<1> DEFINE f == fs[k]
<1>5. /\ TypeOf(f) = "prompt_swap" => Apply(d, v) = Made(l, e, m, q)
      /\ TypeOf(f) = "extension_select" => Apply(d, v) = Made(p, l, m, q)
      /\ TypeOf(f) = "model_swap" => Apply(d, v) = Made(p, e, l, q)
      /\ TypeOf(f) = "model_param" => Apply(d, v) = Made(p, e, m, Bind(q, f.param, l.value))
  BY <1>1, <1>2, ApplyMade
<1> HIDE DEF B
<1>6. \A p1 \in B, e1 \in B, m1 \in B, q1 \in ParamSets(fs) : Made(p1, e1, m1, q1) \in Drafts(fs)
  BY DEF Drafts, B
<1> HIDE DEF f
<1> QED BY <1>2, <1>3, <1>4, <1>5, <1>6 DEF Kinds, Required, f

\* The draft of a combination.
Drafted(c) == FoldLeft(Apply, EmptyDraft, c)
Applied(c, fs) == [k \in 1..Len(c) |-> [d \in Drafts(fs) |-> Apply(d, c[k])]]

LEMMA DraftRuns ==
    ASSUME NEW fs, Typed(fs), NEW c \in Seq(FactorValues(fs))
    PROVE  \E acc \in [0..Len(c) -> Drafts(fs)] :
              Runs(acc, Len(c), EmptyDraft, Applied(c, fs)) /\ Drafted(c) = acc[Len(c)]
<1> DEFINE n == Len(c)
           S == Drafts(fs)
           F == Applied(c, fs)
           Same(it) == it = [s \in SUBSET (1..n) |->
                               IF s = {} THEN EmptyDraft
                               ELSE Apply(it[s \ {Topmost(s)}], c[Topmost(s)])]
           it == CHOOSE g : Same(g)
<1>0. n \in Nat /\ DOMAIN c = 1..n /\ EmptyDraft \in S
  <2>1. NoParams \in [{} -> LevelValues(fs)] /\ {} \in SUBSET Params(fs)
    BY DEF NoParams
  <2>2. NoParams \in ParamSets(fs)
    BY <2>1 DEF ParamSets
  <2>3. \A q \in ParamSets(fs) : Made(Blank, Blank, Blank, q) \in Drafts(fs)
    BY DEF Drafts
  <2> QED BY <2>2, <2>3, MadeOfParts
<1>1. F \in [1..n -> [S -> S]]
  <2>1. \A k \in 1..n, d \in S : Apply(d, c[k]) \in S
    BY ApplyTyped
  <2> HIDE DEF S, n
  <2> QED BY <2>1 DEF Applied, S, n
<1>2. Drafted(c) = it[1..n]
  BY <1>0 DEF Drafted, FoldLeft, MapThenFoldSet, Topmost
<1>a. \A k \in 1..n, d \in S : F[k][d] = Apply(d, c[k])
  BY DEF Applied
<1> HIDE DEF n, S, F
<1>3. \E g : FoldsTo(g, n, S, EmptyDraft, F)
  BY ONLY <1>0, <1>1, FoldMade
<1>4. PICK g : FoldsTo(g, n, S, EmptyDraft, F)
  BY <1>3
<1>5. Same(g)
  <2>1. ASSUME NEW s \in SUBSET (1..n), s # {}
        PROVE  g[s] = Apply(g[s \ {Topmost(s)}], c[Topmost(s)])
    <3>1. Topmost(s) \in 1..n /\ s \ {Topmost(s)} \in SUBSET (1..n)
      BY <1>0, <2>1, LastOfSome
    <3>2. g[s \ {Topmost(s)}] \in S
      BY <1>4, <3>1 DEF FoldsTo
    <3> QED BY <1>4, <1>a, <2>1, <3>1, <3>2 DEF FoldsTo
  <2> QED BY <1>4, <2>1 DEF FoldsTo
<1>6. Same(it)
  BY <1>5
<1> HIDE DEF it
<1>7. it[{}] = EmptyDraft
  BY <1>6
<1>8. Folding(it, n, S, EmptyDraft, F)
  BY <1>0, <1>6, <1>7, <1>a, LastOfSome DEF Folding
<1> DEFINE base == EmptyDraft
<1>b. n \in Nat /\ base \in S /\ Folding(it, n, S, base, F)
  BY <1>0, <1>8
<1> HIDE DEF base
<1>9. \E acc \in [0..n -> S] : Runs(acc, n, base, F) /\ it[1..n] = acc[n]
  BY ONLY <1>1, <1>b, FoldRuns
<1> QED BY <1>2, <1>9 DEF n, S, F, base

\* A draft is made value by value.
LEMMA DraftGrows ==
    ASSUME NEW fs, Typed(fs), NEW c \in Seq(FactorValues(fs)), NEW v \in FactorValues(fs)
    PROVE  /\ Drafted(<<>>) = EmptyDraft
           /\ Drafted(Append(c, v)) = Apply(Drafted(c), v)
<1> DEFINE n == Len(c)
           b == Append(c, v)
<1>1. /\ n \in Nat /\ b \in Seq(FactorValues(fs)) /\ Len(b) = n + 1
      /\ \A k \in 1..n : b[k] = c[k]
      /\ b[n + 1] = v
  BY AppendComponents
<1> HIDE DEF b
<1>2. PICK acc \in [0..n -> Drafts(fs)] :
         Runs(acc, n, EmptyDraft, Applied(c, fs)) /\ Drafted(c) = acc[n]
  BY DraftRuns
<1>3. PICK bcc \in [0..(n + 1) -> Drafts(fs)] :
         Runs(bcc, n + 1, EmptyDraft, Applied(b, fs)) /\ Drafted(b) = bcc[n + 1]
  <2>1. \E bcc \in [0..Len(b) -> Drafts(fs)] :
           Runs(bcc, Len(b), EmptyDraft, Applied(b, fs)) /\ Drafted(b) = bcc[Len(b)]
    BY <1>1, DraftRuns
  <2> QED BY <1>1, <2>1
<1>4. \A k \in 1..n : Applied(c, fs)[k] = Applied(b, fs)[k]
  BY <1>1 DEF Applied
<1>5. acc[n] = bcc[n]
  <2>1. n + 1 \in Nat /\ n <= n + 1
    BY <1>1
  <2> HIDE DEF n
  <2> QED BY <1>1, <1>2, <1>3, <1>4, <2>1, SameRuns
<1>6. bcc[n + 1] = Applied(b, fs)[n + 1][bcc[n]] /\ bcc[n] \in Drafts(fs)
  BY <1>1, <1>3 DEF Runs
<1>7. Applied(b, fs)[n + 1][bcc[n]] = Apply(bcc[n], v)
  BY <1>1, <1>6 DEF Applied
<1>8. Drafted(<<>>) = EmptyDraft
  <2>1. <<>> \in Seq(FactorValues(fs)) /\ Len(<<>>) = 0
    OBVIOUS
  <2>2. PICK ecc \in [0..0 -> Drafts(fs)] :
           Runs(ecc, 0, EmptyDraft, Applied(<<>>, fs)) /\ Drafted(<<>>) = ecc[0]
    BY <2>1, DraftRuns
  <2> QED BY <2>2 DEF Runs
<1> QED BY <1>2, <1>3, <1>5, <1>6, <1>7, <1>8 DEF b

\* Which combination and which of L values meet at a position.
Row(i, L) == ((i - 1) \div L) + 1
Col(i, L) == ((i - 1) % L) + 1

Nested(new, cells, axis, L) ==
    /\ Len(new) = Len(cells) * L
    /\ \A n \in 1..(Len(cells) * L) :
          /\ Row(n, L) \in 1..Len(cells) /\ Col(n, L) \in 1..L
          /\ new[n] = Append(cells[Row(n, L)], axis[Col(n, L)])

LEMMA ExtendTyped ==
    ASSUME NEW V, NEW cells \in Seq(Seq(V)), NEW L \in Nat \ {0}, NEW axis \in [1..L -> V]
    PROVE  Extend(cells, axis) \in Seq(Seq(V)) /\ Nested(Extend(cells, axis), cells, axis, L)
<1> DEFINE N == Len(cells)
           p(n) == ((n - 1) \div L) + 1
           v(n) == ((n - 1) % L) + 1
           new == Extend(cells, axis)
<1>1. Len(axis) = L /\ N \in Nat /\ \A m \in 1..N : cells[m] \in Seq(V)
  BY ListLen
<1>2. /\ N * L \in Nat
      /\ \A n \in 1..(N * L) : p(n) \in 1..N /\ v(n) \in 1..L
      /\ new = [n \in 1..(N * L) |-> Append(cells[p(n)], axis[v(n)])]
  <2>1. LET size == Len(cells)
            M    == Len(axis)
        IN  /\ size * M \in Nat
            /\ \A n \in 1..(size * M) :
                  ((n - 1) \div M) + 1 \in 1..size /\ ((n - 1) % M) + 1 \in 1..M
            /\ Extend(cells, axis) = [n \in 1..(size * M) |->
                  Append(cells[((n - 1) \div M) + 1], axis[((n - 1) % M) + 1])]
    BY <1>1, ExtendAt
  <2> QED BY <1>1, <2>1
<1> HIDE DEF N, p, v, new
<1>3. \A n \in 1..(N * L) : Append(cells[p(n)], axis[v(n)]) \in Seq(V)
  BY <1>1, <1>2, AppendComponents
<1>4. new \in [1..(N * L) -> Seq(V)]
  BY <1>2, <1>3
<1>5. new \in Seq(Seq(V)) /\ Len(new) = N * L
  BY <1>2, <1>4, ListLen
<1>6. \A n \in 1..(N * L) : new[n] = Append(cells[p(n)], axis[v(n)])
  BY <1>2
<1> QED BY <1>2, <1>5, <1>6 DEF N, p, v, new, Nested, Row, Col

LEMMA ValuesOfFactor ==
    ASSUME NEW fs, Listed(fs), NEW k \in 1..Len(fs)
    PROVE  /\ Len(fs[k].levels) \in Nat \ {0}
           /\ AxisValues(fs[k]) \in [1..Len(fs[k].levels) -> FactorValues(fs)]
           /\ \A m \in 1..Len(fs[k].levels) :
                 AxisValues(fs[k])[m] = [factor |-> fs[k], level |-> fs[k].levels[m]]
<1> DEFINE L == Len(fs[k].levels)
<1>1. L \in Nat \ {0} /\ \A m \in 1..L : fs[k].levels[m] \in Levels(fs)
  BY DEF Listed
<1>2. AxisValues(fs[k]) = [m \in 1..L |-> [factor |-> fs[k], level |-> fs[k].levels[m]]]
  BY DEF AxisValues
<1> HIDE DEF L
<1>3. \A m \in 1..L : [factor |-> fs[k], level |-> fs[k].levels[m]] \in FactorValues(fs)
  BY <1>1 DEF FactorValues
<1> QED BY <1>1, <1>2, <1>3 DEF L

\* The nested loops over the axes of the factors, one factor after the other.
Looped(fs) ==
    [k \in 1..Len(fs) |-> [c \in Seq(Seq(FactorValues(fs))) |-> Extend(c, AxisValues(fs[k]))]]

LEMMA ProductRuns ==
    ASSUME NEW fs, Listed(fs)
    PROVE  \E acc \in [0..Len(fs) -> Seq(Seq(FactorValues(fs)))] :
              /\ Runs(acc, Len(fs), << <<>> >>, Looped(fs))
              /\ Product([k \in 1..Len(fs) |-> AxisValues(fs[k])]) = acc[Len(fs)]
<1> DEFINE n == Len(fs)
           S == Seq(Seq(FactorValues(fs)))
           F == Looped(fs)
           base == << <<>> >>
           axes == [k \in 1..n |-> AxisValues(fs[k])]
           Same(it) == it = [s \in SUBSET (1..n) |->
                               IF s = {} THEN base
                               ELSE Extend(it[s \ {Topmost(s)}], axes[Topmost(s)])]
           it == CHOOSE g : Same(g)
<1>0. n \in Nat /\ DOMAIN axes = 1..n /\ base \in S
  BY DEF Listed
<1>1. F \in [1..n -> [S -> S]]
  <2>1. \A k \in 1..n, c \in S : Extend(c, AxisValues(fs[k])) \in S
    <3> SUFFICES ASSUME NEW k \in 1..n, NEW c \in S PROVE Extend(c, AxisValues(fs[k])) \in S
      OBVIOUS
    <3> DEFINE axis == AxisValues(fs[k])
               L == Len(fs[k].levels)
               V == FactorValues(fs)
    <3>1. L \in Nat \ {0} /\ axis \in [1..L -> V] /\ c \in Seq(Seq(V))
      BY ValuesOfFactor
    <3> HIDE DEF axis, L, V
    <3>2. Extend(c, axis) \in Seq(Seq(V))
      BY <3>1, ExtendTyped
    <3> QED BY <3>2 DEF axis, V
  <2> HIDE DEF S, n
  <2> QED BY <2>1 DEF Looped, S, n
<1>2. Product(axes) = it[1..n]
  <2>1. Len(axes) = n
    <3>1. axes \in [1..n -> {AxisValues(fs[k]) : k \in 1..n}]
      OBVIOUS
    <3> HIDE DEF axes, n
    <3> QED BY <1>0, <3>1, ListLen
  <2> HIDE DEF n, axes, base
  <2> QED BY <1>0, <2>1 DEF Product, FoldLeft, MapThenFoldSet, Topmost, base
<1>a. \A k \in 1..n, c \in S : F[k][c] = Extend(c, axes[k])
  BY DEF Looped
<1> HIDE DEF n, S, F, base, axes
<1>3. \E g : FoldsTo(g, n, S, base, F)
  BY ONLY <1>0, <1>1, FoldMade
<1>4. PICK g : FoldsTo(g, n, S, base, F)
  BY <1>3
<1>5. Same(g)
  <2>1. ASSUME NEW s \in SUBSET (1..n), s # {}
        PROVE  g[s] = Extend(g[s \ {Topmost(s)}], axes[Topmost(s)])
    <3>1. Topmost(s) \in 1..n /\ s \ {Topmost(s)} \in SUBSET (1..n)
      BY <1>0, <2>1, LastOfSome
    <3>2. g[s \ {Topmost(s)}] \in S
      BY <1>4, <3>1 DEF FoldsTo
    <3> QED BY <1>4, <1>a, <2>1, <3>1, <3>2 DEF FoldsTo
  <2> QED BY <1>4, <2>1 DEF FoldsTo
<1>6. Same(it)
  BY <1>5
<1> HIDE DEF it
<1>7. it[{}] = base
  BY <1>6
<1>8. Folding(it, n, S, base, F)
  BY <1>0, <1>6, <1>7, <1>a, LastOfSome DEF Folding
<1>9. \E acc \in [0..n -> S] : Runs(acc, n, base, F) /\ it[1..n] = acc[n]
  BY ONLY <1>0, <1>1, <1>8, FoldRuns
<1> QED BY <1>2, <1>9 DEF n, S, F, base, axes

\* How far expandMatrixWithRegistry has come after k factors: a draft for every
\* draft before and every level of the factor.
DraftLoop(D, fs) ==
    /\ D[0] = <<EmptyDraft>>
    /\ \A k \in 0..Len(fs) : D[k] \in Seq(Drafts(fs))
    /\ \A k \in 0..(Len(fs) - 1) :
          LET f == fs[k + 1]
              L == Len(f.levels)
          IN  /\ Len(D[k + 1]) = Len(D[k]) * L
              /\ \A i \in 1..(Len(D[k]) * L) :
                    D[k + 1][i] = Apply(D[k][Row(i, L)],
                                        [factor |-> f, level |-> f.levels[Col(i, L)]])
    /\ expandMatrixWithRegistry(fs) = D[Len(fs)]

LEMMA DraftsRun ==
    ASSUME NEW fs, Typed(fs)
    PROVE  \E D : DraftLoop(D, fs)
<1> DEFINE n == Len(fs)
           V == FactorValues(fs)
<1>0. Listed(fs) /\ n \in Nat
  BY DEF Typed, Listed
<1>1. PICK acc \in [0..n -> Seq(Seq(V))] :
              /\ Runs(acc, n, << <<>> >>, Looped(fs))
              /\ Product([k \in 1..n |-> AxisValues(fs[k])]) = acc[n]
  BY <1>0, ProductRuns
<1> DEFINE D == [k \in 0..n |-> [i \in 1..Len(acc[k]) |-> Drafted(acc[k][i])]]
<1>2. \A k \in 0..n : acc[k] \in Seq(Seq(V)) /\ Len(acc[k]) \in Nat
         /\ \A i \in 1..Len(acc[k]) : acc[k][i] \in Seq(V)
  BY <1>1
<1>3. \A k \in 0..n : D[k] \in Seq(Drafts(fs)) /\ Len(D[k]) = Len(acc[k])
         /\ \A i \in 1..Len(acc[k]) : D[k][i] = Drafted(acc[k][i])
  <2> SUFFICES ASSUME NEW k \in 0..n
               PROVE  D[k] \in Seq(Drafts(fs)) /\ Len(D[k]) = Len(acc[k])
                        /\ \A i \in 1..Len(acc[k]) : D[k][i] = Drafted(acc[k][i])
    OBVIOUS
  <2>1. ASSUME NEW c \in Seq(V) PROVE Drafted(c) \in Drafts(fs)
    <3>1. PICK b \in [0..Len(c) -> Drafts(fs)] : Drafted(c) = b[Len(c)]
      BY DraftRuns
    <3> QED BY <3>1
  <2>2. D[k] \in [1..Len(acc[k]) -> Drafts(fs)]
    BY <1>2, <2>1
  <2>3. D[k] \in Seq(Drafts(fs)) /\ Len(D[k]) = Len(acc[k])
    <3> HIDE DEF D
    <3> QED BY <1>2, <2>2, ListLen
  <2> QED BY <2>3
<1>4. D[0] = <<EmptyDraft>>
  <2>1. acc[0] = << <<>> >> /\ 0 \in 0..n
    BY <1>0, <1>1 DEF Runs
  <2>2. Drafted(<<>>) = EmptyDraft
    <3>1. <<>> \in Seq(V) /\ Len(<<>>) = 0
      OBVIOUS
    <3>2. PICK b \in [0..0 -> Drafts(fs)] :
             Runs(b, 0, EmptyDraft, Applied(<<>>, fs)) /\ Drafted(<<>>) = b[0]
      BY <3>1, DraftRuns
    <3> QED BY <3>2 DEF Runs
  <2>3. Len(acc[0]) = 1 /\ acc[0][1] = <<>>
    BY <2>1
  <2> HIDE DEF D
  <2>4. D[0] \in Seq(Drafts(fs)) /\ Len(D[0]) = 1 /\ D[0][1] = EmptyDraft
    <3>1. /\ D[0] \in Seq(Drafts(fs)) /\ Len(D[0]) = Len(acc[0])
          /\ \A i \in 1..Len(acc[0]) : D[0][i] = Drafted(acc[0][i])
      BY ONLY <1>3, <2>1
    <3>2. 1 \in 1..Len(acc[0])
      BY <2>3
    <3>3. D[0][1] = Drafted(acc[0][1])
      BY ONLY <3>1, <3>2
    <3> QED BY ONLY <2>2, <2>3, <3>1, <3>3
  <2> HIDE DEF D
  <2> QED BY <2>4
<1>5. ASSUME NEW k \in 0..(n - 1)
      PROVE  LET f == fs[k + 1]
                 L == Len(f.levels)
             IN  /\ Len(D[k + 1]) = Len(D[k]) * L
                 /\ \A i \in 1..(Len(D[k]) * L) :
                       D[k + 1][i] = Apply(D[k][Row(i, L)],
                                           [factor |-> f, level |-> f.levels[Col(i, L)]])
  <2> DEFINE f == fs[k + 1]
             L == Len(f.levels)
             axis == AxisValues(f)
  <2>1. k \in 0..n /\ k + 1 \in 0..n /\ k + 1 \in 1..n
    BY <1>0
  <2>2. /\ L \in Nat \ {0} /\ axis \in [1..L -> V]
        /\ \A m \in 1..L : axis[m] = [factor |-> f, level |-> f.levels[m]]
    BY <1>0, <2>1, ValuesOfFactor
  <2>3. acc[k + 1] = Extend(acc[k], axis)
    BY <1>1, <1>2, <2>1 DEF Runs, Looped
  <2> HIDE DEF f, L, axis, V, D, n
  <2>4. Nested(acc[k + 1], acc[k], axis, L)
    <3> DEFINE cells == acc[k]
    <3>1. cells \in Seq(Seq(V)) /\ L \in Nat \ {0} /\ axis \in [1..L -> V]
      BY <1>2, <2>1, <2>2
    <3> HIDE DEF cells
    <3>2. Nested(Extend(cells, axis), cells, axis, L)
      BY ONLY <3>1, ExtendTyped
    <3> QED BY <2>3, <3>2 DEF cells
  <2>5. ASSUME NEW i \in 1..(Len(D[k]) * L)
        PROVE  D[k + 1][i] = Apply(D[k][Row(i, L)],
                                   [factor |-> f, level |-> f.levels[Col(i, L)]])
    <3>1. /\ Row(i, L) \in 1..Len(acc[k]) /\ Col(i, L) \in 1..L /\ i \in 1..Len(acc[k + 1])
          /\ acc[k + 1][i] = Append(acc[k][Row(i, L)], axis[Col(i, L)])
      BY <1>3, <2>1, <2>4 DEF Nested
    <3>2. acc[k][Row(i, L)] \in Seq(V) /\ axis[Col(i, L)] \in V
      BY <1>2, <2>1, <2>2, <3>1
    <3>3. Drafted(acc[k + 1][i]) = Apply(Drafted(acc[k][Row(i, L)]), axis[Col(i, L)])
      BY <3>1, <3>2, DraftGrows DEF V
    <3> QED BY <1>3, <2>1, <2>2, <3>1, <3>3
  <2>6. Len(D[k + 1]) = Len(D[k]) * L
    BY <1>3, <2>1, <2>4 DEF Nested
  <2> QED BY <2>5, <2>6 DEF f, L
<1>6. expandMatrixWithRegistry(fs) = D[n]
  <2>1. expandMatrixWithRegistry(fs) =
           [i \in 1..Len(Product([k \in 1..Len(fs) |-> AxisValues(fs[k])])) |->
              Drafted(Product([k \in 1..Len(fs) |-> AxisValues(fs[k])])[i])]
    BY DEF expandMatrixWithRegistry, Drafted
  <2>2. n \in 0..n
    BY <1>0
  <2> QED BY <1>1, <2>1, <2>2
<1>7. DraftLoop(D, fs)
  <2> HIDE DEF D
  <2> QED BY <1>3, <1>4, <1>5, <1>6 DEF DraftLoop
<1> QED BY <1>7

-----------------------------------------------------------------------------
(* Four lists and their combinations: a tuple of positions, one for every  *)
(* list.                                                                   *)

LEMMA RowCol ==
    ASSUME NEW N \in Nat, NEW L \in Nat \ {0}, NEW i \in 1..(N * L)
    PROVE  Row(i, L) \in 1..N /\ Col(i, L) \in 1..L /\ i = (Row(i, L) - 1) * L + Col(i, L)
<1>1. N * L \in Nat
  OBVIOUS
<1>2. i - 1 \in Nat /\ i - 1 < N * L
  BY <1>1
<1>3. /\ (i - 1) \div L \in Nat /\ (i - 1) % L \in 0..(L - 1)
      /\ i - 1 = ((i - 1) \div L) * L + ((i - 1) % L)
  BY <1>2, DivMod
<1>4. (i - 1) \div L < N
  BY <1>2, DivBelow
<1> DEFINE d == (i - 1) \div L
           r == (i - 1) % L
<1>5. d \in Nat /\ r \in 0..(L - 1) /\ i - 1 = d * L + r /\ d < N
  BY <1>3, <1>4
<1>6. Row(i, L) = d + 1 /\ Col(i, L) = r + 1
  BY DEF Row, Col
<1> HIDE DEF d, r
<1>7. Row(i, L) - 1 = d
  BY <1>5, <1>6
<1>8. d * L \in Nat
  BY <1>5
<1> QED BY <1>5, <1>6, <1>7, <1>8

Lengths == [1..4 -> Nat \ {0}]
Tuples(len) == {x \in Lengths : \A t \in 1..4 : x[t] <= len[t]}
Volume(len) == len[1] * len[2] * len[3] * len[4]

\* Where a tuple stands in four nested loops, the last one fastest.
Place(len, x) ==
    (((x[1] - 1) * len[2] + x[2] - 1) * len[3] + x[3] - 1) * len[4] + x[4]

\* Every tuple belongs to one position.
Coordinates(co, N, len) ==
    /\ N = Volume(len)
    /\ co \in [1..N -> Tuples(len)]
    /\ \A i, j \in 1..N : co[i] = co[j] => i = j
    /\ \A x \in Tuples(len) : \E i \in 1..N : co[i] = x

InPlace(co, N, len) == \A i \in 1..N : Place(len, co[i]) = i

\* One more loop, over L values that multiply list t.
Longer(len, t, L) == [len EXCEPT ![t] = @ * L]
Further(co, N, t, L) ==
    [i \in 1..(N * L) |-> [co[Row(i, L)] EXCEPT ![t] = (@ - 1) * L + Col(i, L)]]

LEMMA VolumeLonger ==
    ASSUME NEW len \in Lengths, NEW t \in 1..4, NEW L \in Nat \ {0}
    PROVE  /\ Longer(len, t, L) \in Lengths
           /\ Volume(len) \in Nat \ {0}
           /\ Volume(Longer(len, t, L)) = Volume(len) * L
<1>1. \A x, y \in Nat \ {0} : x * y \in Nat \ {0}
  OBVIOUS
<1>2. Longer(len, t, L) \in Lengths
  BY <1>1 DEF Longer, Lengths
<1>3. len[1] \in Nat \ {0} /\ len[2] \in Nat \ {0} /\ len[3] \in Nat \ {0} /\ len[4] \in Nat \ {0}
  BY DEF Lengths
<1>4. Volume(len) \in Nat \ {0}
  BY <1>1, <1>3 DEF Volume
<1> DEFINE a == len[1]
           b == len[2]
           c == len[3]
           d == len[4]
           v == Longer(len, t, L)
<1>5. \A u \in 1..4 : v[u] = IF u = t THEN len[u] * L ELSE len[u]
  BY DEF Longer, Lengths
<1>6. Volume(v) = v[1] * v[2] * v[3] * v[4] /\ Volume(len) = a * b * c * d
  BY DEF Volume
<1> HIDE DEF v
<1>7. /\ t = 1 => v[1] = a * L /\ v[2] = b /\ v[3] = c /\ v[4] = d
      /\ t = 2 => v[1] = a /\ v[2] = b * L /\ v[3] = c /\ v[4] = d
      /\ t = 3 => v[1] = a /\ v[2] = b /\ v[3] = c * L /\ v[4] = d
      /\ t = 4 => v[1] = a /\ v[2] = b /\ v[3] = c /\ v[4] = d * L
  BY <1>5
<1> HIDE DEF a, b, c, d
<1>8. a \in Nat /\ b \in Nat /\ c \in Nat /\ d \in Nat
  BY <1>3 DEF a, b, c, d
<1>9. /\ (a * L) * b * c * d = (a * b * c * d) * L
      /\ a * (b * L) * c * d = (a * b * c * d) * L
      /\ a * b * (c * L) * d = (a * b * c * d) * L
      /\ a * b * c * (d * L) = (a * b * c * d) * L
  BY <1>8
<1>10. Volume(v) = Volume(len) * L
  <2>1. t = 1 \/ t = 2 \/ t = 3 \/ t = 4
    OBVIOUS
  <2>2. CASE t = 1
    BY ONLY <1>6, <1>7, <1>9, <2>2
  <2>3. CASE t = 2
    BY ONLY <1>6, <1>7, <1>9, <2>3
  <2>4. CASE t = 3
    BY ONLY <1>6, <1>7, <1>9, <2>4
  <2>5. CASE t = 4
    BY ONLY <1>6, <1>7, <1>9, <2>5
  <2> QED BY <2>1, <2>2, <2>3, <2>4, <2>5
<1> QED BY <1>2, <1>4, <1>10 DEF v

\* Such a loop keeps every tuple at one position.
LEMMA CoordinatesKept ==
    ASSUME NEW len \in Lengths, NEW N, NEW co, Coordinates(co, N, len),
           NEW t \in 1..4, NEW L \in Nat \ {0}
    PROVE  Coordinates(Further(co, N, t, L), N * L, Longer(len, t, L))
<1> DEFINE new == Further(co, N, t, L)
           more == Longer(len, t, L)
           M == N * L
           x(i) == co[Row(i, L)]
<1>1. N \in Nat \ {0} /\ M = Volume(more) /\ more \in Lengths /\ M \in Nat
  <2>1. N = Volume(len)
    BY DEF Coordinates
  <2>2. more \in Lengths /\ Volume(len) \in Nat \ {0} /\ Volume(more) = Volume(len) * L
    BY VolumeLonger
  <2> HIDE DEF more
  <2>3. N * L \in Nat
    BY <2>1, <2>2
  <2> QED BY <2>1, <2>2, <2>3
<1>2. \A i \in 1..M : /\ Row(i, L) \in 1..N /\ Col(i, L) \in 1..L
                      /\ i = (Row(i, L) - 1) * L + Col(i, L)
                      /\ x(i) \in Tuples(len)
  BY <1>1, RowCol DEF Coordinates
<1>3. \A i \in 1..M : /\ new[i] = [x(i) EXCEPT ![t] = (@ - 1) * L + Col(i, L)]
                      /\ x(i) \in [1..4 -> Nat \ {0}]
  BY <1>2 DEF Further, Tuples, Lengths
<1>a. \A i \in 1..M : /\ DOMAIN new[i] = 1..4
                      /\ new[i][t] = (x(i)[t] - 1) * L + Col(i, L)
                      /\ \A u \in 1..4 : u # t => new[i][u] = x(i)[u]
  BY <1>3
<1>4. DOMAIN new = 1..M
  BY DEF Further
<1>m. /\ more[t] = len[t] * L
      /\ \A u \in 1..4 : u # t => more[u] = len[u]
  BY DEF Longer, Lengths
<1> HIDE DEF new, more, M, x
<1>5. \A i \in 1..M : new[i][t] \in 1..(len[t] * L)
  <2> SUFFICES ASSUME NEW i \in 1..M PROVE new[i][t] \in 1..(len[t] * L)
    OBVIOUS
  <2> DEFINE y == x(i)[t]
             c == Col(i, L)
             m == len[t]
  <2>1. y \in 1..m /\ c \in 1..L /\ m \in Nat
    BY <1>2 DEF Tuples, Lengths
  <2>2. new[i][t] = (y - 1) * L + c
    BY <1>a
  <2> HIDE DEF y, c, m
  <2>3. (y - 1) * L + c \in 1..(m * L)
    BY <2>1, PositionOf
  <2> QED BY <2>2, <2>3 DEF m
<1>6. ASSUME NEW i \in 1..M PROVE new[i] \in Tuples(more)
  <2>1. \A u \in 1..4 : new[i][u] \in Nat \ {0} /\ new[i][u] <= more[u]
    <3> SUFFICES ASSUME NEW u \in 1..4 PROVE new[i][u] \in Nat \ {0} /\ new[i][u] <= more[u]
      OBVIOUS
    <3>1. CASE u = t
      <4>1. len[t] * L \in Nat
        BY DEF Lengths
      <4> QED BY <1>5, <1>m, <3>1, <4>1
    <3>2. CASE u # t
      BY <1>2, <1>a, <1>m, <3>2 DEF Tuples, Lengths
    <3> QED BY <3>1, <3>2
  <2>2. new[i] \in [1..4 -> Nat \ {0}]
    <3>1. new[i] = [u \in 1..4 |-> new[i][u]]
      BY <1>3
    <3> QED BY <2>1, <3>1
  <2> QED BY <2>1, <2>2 DEF Tuples, Lengths
<1>7. new \in [1..M -> Tuples(more)]
  <2>1. new = [i \in 1..M |-> new[i]]
    BY DEF new, Further, M
  <2> QED BY <1>6, <2>1
<1>8. ASSUME NEW i \in 1..M, NEW j \in 1..M, new[i] = new[j] PROVE i = j
  <2> DEFINE y == x(i)[t] - 1
             z == x(j)[t] - 1
             c == Col(i, L) - 1
             d == Col(j, L) - 1
  <2>1. y \in Nat /\ z \in Nat /\ c \in 0..(L - 1) /\ d \in 0..(L - 1)
    BY <1>2 DEF Tuples, Lengths
  <2>2. y * L + (c + 1) = z * L + (d + 1)
    BY <1>a, <1>2, <1>8
  <2> HIDE DEF y, z, c, d
  <2>3. y * L + c = z * L + d
    BY <2>1, <2>2
  <2>4. y = z /\ c = d
    <3>1. (y * L + c) \div L = y /\ (y * L + c) % L = c
      BY <2>1, DivUnique
    <3>2. (z * L + d) \div L = z /\ (z * L + d) % L = d
      BY <2>1, DivUnique
    <3> QED BY <2>3, <3>1, <3>2
  <2>5. x(i)[t] = x(j)[t] /\ Col(i, L) = Col(j, L)
    BY <1>2, <2>4 DEF y, z, c, d, Tuples, Lengths
  <2>6. \A u \in 1..4 : x(i)[u] = x(j)[u]
    BY <1>8, <1>a, <2>5
  <2>7. x(i) = x(j)
    <3>1. x(i) = [u \in 1..4 |-> x(i)[u]] /\ x(j) = [u \in 1..4 |-> x(j)[u]]
      BY <1>3
    <3>2. [u \in 1..4 |-> x(i)[u]] = [u \in 1..4 |-> x(j)[u]]
      BY <2>6
    <3> QED BY <3>1, <3>2
  <2>8. Row(i, L) = Row(j, L)
    BY <1>2, <2>7 DEF x, Coordinates
  <2> QED BY <1>2, <2>5, <2>8
<1>9. ASSUME NEW y \in Tuples(more) PROVE \E i \in 1..M : new[i] = y
  <2> DEFINE p == Row(y[t], L)
             c == Col(y[t], L)
             w == [y EXCEPT ![t] = p]
  <2>1. y \in [1..4 -> Nat \ {0}] /\ \A u \in 1..4 : y[u] <= more[u]
    BY DEF Tuples, Lengths
  <2>2. y[t] \in 1..(len[t] * L) /\ len[t] \in Nat
    BY <1>m, <2>1 DEF Lengths
  <2>3. p \in 1..len[t] /\ c \in 1..L /\ y[t] = (p - 1) * L + c
    BY <2>2, RowCol
  <2> HIDE DEF p, c
  <2>4. w \in Tuples(len)
    <3>1. w \in [1..4 -> Nat \ {0}]
      BY <2>1, <2>3
    <3>2. \A u \in 1..4 : w[u] <= len[u]
      BY <1>m, <2>1, <2>3
    <3> QED BY <3>1, <3>2 DEF Tuples, Lengths
  <2>5. PICK k \in 1..N : co[k] = w
    BY <2>4 DEF Coordinates
  <2> DEFINE i == (k - 1) * L + c
  <2>6. i \in 1..M /\ Row(i, L) = k /\ Col(i, L) = c
    <3>1. i = (k - 1) * L + c
      OBVIOUS
    <3> HIDE DEF i
    <3> QED BY <1>1, <2>3, <3>1, PositionOf DEF Row, Col, M
  <2> HIDE DEF i
  <2>7. x(i) = w
    BY <2>5, <2>6 DEF x
  <2>8. \A u \in 1..4 : new[i][u] = y[u]
    <3>1. w[t] = p /\ \A u \in 1..4 : u # t => w[u] = y[u]
      BY <2>1
    <3> HIDE DEF w
    <3>2. new[i][t] = (w[t] - 1) * L + c
      BY <1>a, <2>6, <2>7
    <3> QED BY <1>a, <2>3, <2>6, <2>7, <3>1, <3>2
  <2>9. new[i] = y
    <3>1. new[i] \in [1..4 -> Nat \ {0}]
      BY <1>6, <2>6 DEF Tuples, Lengths
    <3> QED BY <2>1, <2>8, <3>1
  <2> QED BY <2>6, <2>9
<1> QED BY <1>1, <1>7, <1>8, <1>9 DEF Coordinates, new, more, M

\* If no list behind the one that is multiplied has a second value, the positions
\* stay those of nested loops.
LEMMA PlacesKept ==
    ASSUME NEW len \in Lengths, NEW N, NEW co, Coordinates(co, N, len),
           NEW t \in 1..4, NEW L \in Nat \ {0},
           InPlace(co, N, len), \A u \in 1..4 : u > t => len[u] = 1
    PROVE  InPlace(Further(co, N, t, L), N * L, Longer(len, t, L))
<1> SUFFICES ASSUME NEW i \in 1..(N * L)
             PROVE  Place(Longer(len, t, L), Further(co, N, t, L)[i]) = i
  BY DEF InPlace
<1> DEFINE x == co[Row(i, L)]
           c == Col(i, L)
           r == Row(i, L)
           y == Further(co, N, t, L)[i]
           more == Longer(len, t, L)
<1>1. N \in Nat
  BY VolumeLonger DEF Coordinates
<1>2. r \in 1..N /\ c \in 1..L /\ i = (r - 1) * L + c
  BY <1>1, RowCol
<1>3. x \in Tuples(len) /\ Place(len, x) = r
  BY <1>2 DEF Coordinates, InPlace
<1>4. y = [x EXCEPT ![t] = (@ - 1) * L + c]
  BY DEF Further
<1> HIDE DEF x, c, r, y, more
<1> DEFINE x1 == x[1]
           x2 == x[2]
           x3 == x[3]
           x4 == x[4]
           n2 == len[2]
           n3 == len[3]
           n4 == len[4]
<1>5. /\ x \in [1..4 -> Nat \ {0}] /\ \A u \in 1..4 : x[u] <= len[u]
      /\ len \in [1..4 -> Nat \ {0}]
  BY <1>3 DEF Tuples, Lengths
<1>6. /\ x1 \in Nat \ {0} /\ x2 \in Nat \ {0} /\ x3 \in Nat \ {0} /\ x4 \in Nat \ {0}
      /\ n2 \in Nat \ {0} /\ n3 \in Nat \ {0} /\ n4 \in Nat \ {0}
  BY <1>5
<1>7. r = (((x1 - 1) * n2 + x2 - 1) * n3 + x3 - 1) * n4 + x4
  BY <1>3 DEF Place
<1>8. \A u \in 1..4 : /\ y[u] = IF u = t THEN (x[t] - 1) * L + c ELSE x[u]
                      /\ more[u] = IF u = t THEN len[t] * L ELSE len[u]
  BY <1>4, <1>5 DEF more, Longer
<1> DEFINE place == Place(more, y)
<1>9. place = (((y[1] - 1) * more[2] + y[2] - 1) * more[3] + y[3] - 1) * more[4] + y[4]
  BY DEF Place
<1>10. \A u \in 1..4 : u > t => x[u] = 1 /\ len[u] = 1
  BY <1>5
<1>11. CASE t = 4
  <2>1. place = (((x1 - 1) * n2 + x2 - 1) * n3 + x3 - 1) * (n4 * L) + ((x4 - 1) * L + c)
    BY <1>8, <1>9, <1>11
  <2> DEFINE A == ((x1 - 1) * n2 + x2 - 1) * n3 + x3 - 1
  <2>2. A \in Int
    BY <1>6
  <2>3. place = A * (n4 * L) + ((x4 - 1) * L + c) /\ r = A * n4 + x4
    BY <1>7, <2>1
  <2> HIDE DEF A, x1, x2, x3, x4, n2, n3, n4, place
  <2>4. A * (n4 * L) + ((x4 - 1) * L + c) = (A * n4 + x4 - 1) * L + c
    BY <1>2, <1>6, <2>2
  <2>5. r - 1 = A * n4 + x4 - 1
    BY <1>6, <2>2, <2>3
  <2>6. place = (r - 1) * L + c
    BY ONLY <2>3, <2>4, <2>5
  <2> QED BY <1>2, <2>6 DEF y, more, place
<1>12. CASE t = 3
  <2>1. n4 = 1 /\ x4 = 1
    BY <1>10, <1>12
  <2>2. place =
           (((x1 - 1) * n2 + x2 - 1) * (n3 * L) + ((x3 - 1) * L + c) - 1) * n4 + x4
    BY <1>8, <1>9, <1>12
  <2> DEFINE A == (x1 - 1) * n2 + x2 - 1
  <2>3. A \in Int
    BY <1>6
  <2>4. place = (A * (n3 * L) + ((x3 - 1) * L + c) - 1) * n4 + x4
           /\ r = (A * n3 + x3 - 1) * n4 + x4
    BY <1>7, <2>2
  <2> HIDE DEF A, x1, x2, x3, x4, n2, n3, n4, place
  <2>5. (A * (n3 * L) + ((x3 - 1) * L + c) - 1) * 1 + 1 = (A * n3 + x3 - 1) * L + c
    BY <1>2, <1>6, <2>3
  <2>6. r - 1 = A * n3 + x3 - 1
    BY <1>6, <2>1, <2>3, <2>4
  <2>7. place = (A * (n3 * L) + ((x3 - 1) * L + c) - 1) * 1 + 1
    BY ONLY <2>1, <2>4
  <2>8. place = (r - 1) * L + c
    BY ONLY <2>5, <2>6, <2>7
  <2> QED BY <1>2, <2>8 DEF y, more, place
<1>13. CASE t = 2
  <2>1. n4 = 1 /\ x4 = 1 /\ n3 = 1 /\ x3 = 1
    BY <1>10, <1>13
  <2>2. place =
           (((x1 - 1) * (n2 * L) + ((x2 - 1) * L + c) - 1) * n3 + x3 - 1) * n4 + x4
    BY <1>8, <1>9, <1>13
  <2> DEFINE A == x1 - 1
  <2>3. A \in Int
    BY <1>6
  <2>4. place = ((A * (n2 * L) + ((x2 - 1) * L + c) - 1) * n3 + x3 - 1) * n4 + x4
           /\ r = ((A * n2 + x2 - 1) * n3 + x3 - 1) * n4 + x4
    BY <1>7, <2>2
  <2> HIDE DEF A, x1, x2, x3, x4, n2, n3, n4, place
  <2>5. ((A * (n2 * L) + ((x2 - 1) * L + c) - 1) * 1 + 1 - 1) * 1 + 1 = (A * n2 + x2 - 1) * L + c
    BY <1>2, <1>6, <2>3
  <2>6. r - 1 = A * n2 + x2 - 1
    BY <1>6, <2>1, <2>3, <2>4
  <2>7. place = ((A * (n2 * L) + ((x2 - 1) * L + c) - 1) * 1 + 1 - 1) * 1 + 1
    BY ONLY <2>1, <2>4
  <2>8. place = (r - 1) * L + c
    BY ONLY <2>5, <2>6, <2>7
  <2> QED BY <1>2, <2>8 DEF y, more, place
<1>14. CASE t = 1
  <2>1. n4 = 1 /\ x4 = 1 /\ n3 = 1 /\ x3 = 1 /\ n2 = 1 /\ x2 = 1
    BY <1>10, <1>14
  <2>2. place =
           (((((x1 - 1) * L + c) - 1) * n2 + x2 - 1) * n3 + x3 - 1) * n4 + x4
    BY <1>8, <1>9, <1>14
  <2> HIDE DEF x1, x2, x3, x4, n2, n3, n4, place
  <2>3. (((((x1 - 1) * L + c) - 1) * 1 + 1 - 1) * 1 + 1 - 1) * 1 + 1 = (x1 - 1) * L + c
    BY <1>2, <1>6
  <2>4. r = x1
    BY <1>6, <1>7, <2>1
  <2>5. place = (x1 - 1) * L + c
    BY <2>1, <2>2, <2>3
  <2> QED BY <1>2, <2>4, <2>5 DEF y, more, place
<1> QED BY <1>11, <1>12, <1>13, <1>14

\* One value in every list: one tuple.
Singles == [u \in 1..4 |-> 1]
Start == [i \in 1..1 |-> Singles]

LEMMA StartPlaced == Coordinates(Start, 1, Singles) /\ InPlace(Start, 1, Singles)
<1>1. Singles \in Lengths /\ \A u \in 1..4 : Singles[u] = 1
  BY DEF Singles, Lengths
<1>2. Volume(Singles) = 1 /\ Place(Singles, Singles) = 1
  BY <1>1 DEF Volume, Place
<1>3. ASSUME NEW x \in Tuples(Singles) PROVE x = Singles
  <2>1. x \in [1..4 -> Nat \ {0}] /\ \A u \in 1..4 : x[u] <= Singles[u]
    BY DEF Tuples, Lengths
  <2>2. \A u \in 1..4 : x[u] = 1
    BY <1>1, <2>1
  <2>3. x = [u \in 1..4 |-> x[u]]
    BY <2>1
  <2> QED BY <2>2, <2>3 DEF Singles
<1>4. Singles \in Tuples(Singles)
  <2>1. \A u \in 1..4 : Singles[u] <= Singles[u]
    BY <1>1
  <2> QED BY <1>1, <2>1 DEF Tuples
<1>5. Start \in [1..1 -> Tuples(Singles)] /\ \A i \in 1..1 : i = 1 /\ Start[i] = Singles
  BY <1>4 DEF Start
<1> QED BY <1>2, <1>3, <1>5 DEF Coordinates, InPlace

\* The draft of one value of every list.
MakeAt(a, x) == Made(a[1][x[1]], a[2][x[2]], a[3][x[3]], a[4][x[4]])

-----------------------------------------------------------------------------
(* The cells of the first scenario, as tuples of positions on the axes of   *)
(* prompts, profiles, models and parameters.                                *)

\* The lengths of the first t of these axes.
UptoAxis(a, t) == [u \in 1..4 |-> IF u <= t THEN Len(a[u + 1]) ELSE 1]

\* The cells of the scenario after the loops over the first t axes.
Reached(cells, a, S, t, co, N) ==
    /\ Coordinates(co, N, UptoAxis(a, t)) /\ InPlace(co, N, UptoAxis(a, t))
    /\ UptoAxis(a, t) \in Lengths
    /\ Len(cells) \in Nat /\ N <= Len(cells)
    /\ \A p \in 1..N : /\ cells[p] \in Seq(S) /\ Len(cells[p]) = t + 1
                       /\ \A u \in 1..t : cells[p][u + 1] = a[u + 1][co[p][u]]

LEMMA ReachedFurther ==
    ASSUME NEW S, NEW a, NEW t \in 0..3, NEW cells, NEW co, NEW N, Reached(cells, a, S, t, co, N),
           NEW axis, axis = a[t + 2], IsList(axis), Len(axis) # 0, Range(axis) \subseteq S
    PROVE  Reached(Extend(cells, axis), a, S, t + 1,
                   Further(co, N, t + 1, Len(axis)), N * Len(axis))
<1> DEFINE L == Len(axis)
           u1 == t + 1
           len == UptoAxis(a, t)
           more == UptoAxis(a, t + 1)
           next == Further(co, N, u1, L)
           new == Extend(cells, axis)
<1>1. /\ L \in Nat \ {0} /\ u1 \in 1..4 /\ len \in Lengths /\ DOMAIN axis = 1..L
      /\ Coordinates(co, N, len) /\ InPlace(co, N, len) /\ Len(cells) \in Nat
      /\ N \in Nat /\ N <= Len(cells)
  <2>1. Coordinates(co, N, len) /\ len \in Lengths
    BY DEF Reached
  <2>2. N \in Nat
    <3>1. Volume(len) \in Nat \ {0}
      BY <2>1, VolumeLonger, 1 \in 1..4, 1 \in Nat \ {0}
    <3> QED BY <2>1, <3>1 DEF Coordinates
  <2> QED BY <2>1, <2>2 DEF Reached, IsList
<1>2. more = Longer(len, u1, L)
  <2>1. /\ \A u \in 1..4 : len[u] = IF u <= t THEN Len(a[u + 1]) ELSE 1
        /\ \A u \in 1..4 : more[u] = IF u <= t + 1 THEN Len(a[u + 1]) ELSE 1
        /\ more = [u \in 1..4 |-> more[u]]
    BY DEF UptoAxis
  <2>2. Longer(len, u1, L) = [u \in 1..4 |-> IF u = u1 THEN len[u] * L ELSE len[u]]
    BY <1>1 DEF Longer, Lengths
  <2> HIDE DEF len, more
  <2>3. len[u1] * L = L /\ more[u1] = L
    <3>1. len[u1] = 1
      BY <1>1, <2>1
    <3>2. u1 + 1 = t + 2 /\ u1 <= t + 1
      OBVIOUS
    <3>3. more[u1] = Len(a[t + 2])
      BY <1>1, <2>1, <3>2
    <3> QED BY <1>1, <3>1, <3>3
  <2>4. \A u \in 1..4 : u # u1 => more[u] = len[u]
    BY <2>1
  <2> QED BY <2>1, <2>2, <2>3, <2>4
<1>3. Coordinates(next, N * L, more) /\ more \in Lengths /\ InPlace(next, N * L, more)
  <2>1. \A u \in 1..4 : u > u1 => len[u] = 1
    BY DEF UptoAxis
  <2> HIDE DEF len, more, L, u1, next
  <2>2. Coordinates(next, N * L, more) /\ InPlace(next, N * L, more)
    BY <1>1, <1>2, <2>1, CoordinatesKept, PlacesKept DEF next
  <2> QED BY <1>1, <1>2, <2>2, VolumeLonger
<1>4. /\ Len(new) = Len(cells) * L /\ Len(new) \in Nat
      /\ \A n \in 1..(Len(cells) * L) : new[n] = Append(cells[Row(n, L)], axis[Col(n, L)])
  <2>1. new = [n \in 1..(Len(cells) * L) |-> Append(cells[Row(n, L)], axis[Col(n, L)])]
    BY DEF Extend, Nest, Row, Col
  <2> HIDE DEF new, L
  <2>2. Len(cells) * L \in Nat
    BY <1>1
  <2>3. new \in [1..(Len(cells) * L) -> {new[n] : n \in 1..(Len(cells) * L)}]
    BY <2>1
  <2>4. Len(new) = Len(cells) * L
    BY <2>2, <2>3, ListLen
  <2> QED BY <2>1, <2>2, <2>4
<1>5. N * L <= Len(cells) * L /\ N * L \in Nat /\ Len(cells) * L \in Nat
  BY <1>1, MoreTimes
<1> HIDE DEF L
<1>6. ASSUME NEW p \in 1..(N * L)
      PROVE  /\ new[p] \in Seq(S) /\ Len(new[p]) = u1 + 1
             /\ \A u \in 1..u1 : new[p][u + 1] = a[u + 1][next[p][u]]
  <2> DEFINE r == Row(p, L)
             c == Col(p, L)
             v == axis[c]
             cell == cells[r]
  <2>1. r \in 1..N /\ c \in 1..L
    BY <1>1, RowCol
  <2>2. new[p] = Append(cell, v)
    BY <1>4, <1>5
  <2>3. v \in S
    BY <1>1, <2>1 DEF Range
  <2>4. /\ cell \in Seq(S) /\ Len(cell) = t + 1
        /\ \A u \in 1..t : cell[u + 1] = a[u + 1][co[r][u]]
    BY <2>1 DEF Reached
  <2>5. co[r] \in [1..4 -> Nat \ {0}] /\ \A u \in 1..4 : co[r][u] <= len[u]
    BY <1>1, <2>1 DEF Coordinates, Tuples, Lengths
  <2>6. next[p] = [co[r] EXCEPT ![u1] = (@ - 1) * L + c]
    BY DEF Further
  <2>7. co[r][u1] = 1
    <3>1. len[u1] = 1
      BY <1>1 DEF UptoAxis
    <3> QED BY <1>1, <2>5, <3>1
  <2> HIDE DEF r, c, v, cell, new, next, len
  <2>8. next[p][u1] = c /\ \A u \in 1..4 : u # u1 => next[p][u] = co[r][u]
    BY <1>1, <2>1, <2>5, <2>6, <2>7
  <2>9. /\ Append(cell, v) \in Seq(S) /\ Len(Append(cell, v)) = Len(cell) + 1
        /\ \A k \in 1..Len(cell) : Append(cell, v)[k] = cell[k]
        /\ Append(cell, v)[Len(cell) + 1] = v
    BY <2>3, <2>4, AppendComponents
  <2>10. ASSUME NEW u \in 1..u1 PROVE new[p][u + 1] = a[u + 1][next[p][u]]
    <3>1. CASE u = u1
      <4>1. u + 1 = Len(cell) + 1 /\ a[u + 1] = axis
        BY <2>4, <3>1
      <4>2. new[p][u + 1] = v
        BY <2>2, <2>9, <4>1
      <4>3. v = axis[c]
        BY DEF v
      <4> QED BY <2>8, <3>1, <4>1, <4>2, <4>3
    <3>2. CASE u # u1
      <4>1. u \in 1..t /\ u + 1 \in 1..Len(cell) /\ u \in 1..4
        BY <2>4, <2>10, <3>2
      <4>2. new[p][u + 1] = cell[u + 1]
        BY <2>2, <2>9, <4>1
      <4> QED BY <2>4, <2>8, <3>2, <4>1, <4>2
    <3> QED BY <3>1, <3>2
  <2> QED BY <2>2, <2>4, <2>9, <2>10
<1> QED BY <1>3, <1>4, <1>5, <1>6 DEF Reached, L

\* The five outer loops reach every tuple, in its place.
LEMMA FirstReached ==
    ASSUME NEW S, NEW a,
           \A k \in 1..6 : IsList(a[k]) /\ Len(a[k]) # 0 /\ Range(a[k]) \subseteq S
    PROVE  \E co, N : Reached(Outer(a), a, S, 4, co, N)
<1> DEFINE c1 == Extend(<< <<>> >>, a[1])
           c2 == Extend(c1, a[2])
           c3 == Extend(c2, a[3])
           c4 == Extend(c3, a[4])
           c5 == Extend(c4, a[5])
<1>1. Reached(c1, a, S, 0, Start, 1)
  <2>1. UptoAxis(a, 0) = Singles
    <3>1. \A u \in 1..4 : ~ (u <= 0)
      OBVIOUS
    <3> QED BY <3>1 DEF UptoAxis, Singles
  <2>2. Singles \in Lengths
    BY DEF Singles, Lengths
  <2> DEFINE L == Len(a[1])
  <2>3. L \in Nat \ {0} /\ DOMAIN a[1] = 1..L /\ Range(a[1]) \subseteq S
    BY DEF IsList
  <2>4. Len(<< <<>> >>) = 1 /\ << <<>> >>[1] = <<>>
    OBVIOUS
  <2>5. c1 = [n \in 1..(1 * L) |->
                 Append(<< <<>> >>[((n - 1) \div L) + 1], a[1][((n - 1) % L) + 1])]
    BY <2>4 DEF Extend, Nest
  <2> HIDE DEF c1, L
  <2>6. 1 * L = L /\ 1 \in 1..L
    BY <2>3
  <2>7. 1 = (1 - 1) * L + 1
    BY <2>3
  <2>8. ((1 - 1) \div L) + 1 = 1 /\ ((1 - 1) % L) + 1 = 1
    BY <2>3, <2>6, <2>7, PositionOf, 1 \in Nat, 1 \in 1..1
  <2>9. c1[1] = Append(<<>>, a[1][1])
    BY <2>4, <2>5, <2>6, <2>8
  <2>10. a[1][1] \in S
    BY <2>3 DEF Range
  <2>11. c1[1] \in Seq(S) /\ Len(c1[1]) = 0 + 1
    <3>1. <<>> \in Seq(S) /\ Len(<<>>) = 0
      OBVIOUS
    <3> QED BY <2>9, <2>10, <3>1, AppendComponents
  <2>12. Len(c1) = L
    <3>1. c1 \in [1..L -> {c1[n] : n \in 1..L}]
      BY <2>5, <2>6
    <3> QED BY <2>3, <3>1, ListLen
  <2>13. \A p \in 1..1 : p = 1
    OBVIOUS
  <2>14. 1..0 = {}
    OBVIOUS
  <2> QED BY <2>1, <2>2, <2>3, <2>11, <2>12, <2>13, <2>14, StartPlaced DEF Reached
<1> HIDE DEF c1
<1>2. ASSUME NEW t \in 0..3, NEW cells, NEW k, k = t + 2,
             \E co, N : Reached(cells, a, S, t, co, N)
      PROVE  \E co, N : Reached(Extend(cells, a[k]), a, S, t + 1, co, N)
  <2>1. PICK co, N : Reached(cells, a, S, t, co, N)
    BY <1>2
  <2>2. k \in 1..6 /\ IsList(a[k]) /\ Len(a[k]) # 0 /\ Range(a[k]) \subseteq S /\ a[k] = a[t + 2]
    BY <1>2
  <2>3. Reached(Extend(cells, a[k]), a, S, t + 1,
                Further(co, N, t + 1, Len(a[k])), N * Len(a[k]))
    BY <2>1, <2>2, ReachedFurther
  <2> QED BY <2>3
<1>3. /\ 0 \in 0..3 /\ 1 \in 0..3 /\ 2 \in 0..3 /\ 3 \in 0..3
      /\ 2 = 0 + 2 /\ 3 = 1 + 2 /\ 4 = 2 + 2 /\ 5 = 3 + 2
      /\ 0 + 1 = 1 /\ 1 + 1 = 2 /\ 2 + 1 = 3 /\ 3 + 1 = 4
  OBVIOUS
<1>4. \E co, N : Reached(c2, a, S, 0 + 1, co, N)
  BY <1>1, <1>2, <1>3, Zenon
<1> HIDE DEF c2
<1>5. \E co, N : Reached(c3, a, S, 1 + 1, co, N)
  BY <1>2, <1>3, <1>4, Zenon
<1> HIDE DEF c3
<1>6. \E co, N : Reached(c4, a, S, 2 + 1, co, N)
  BY <1>2, <1>3, <1>5, Zenon
<1> HIDE DEF c4
<1>7. \E co, N : Reached(c5, a, S, 3 + 1, co, N)
  BY <1>2, <1>3, <1>6, Zenon
<1>8. Outer(a) = c5
  BY DEF Outer, c1, c2, c3, c4
<1> HIDE DEF c5
<1> QED BY <1>3, <1>7, <1>8, Zenon

\* The axes of the four kinds.
Axes(s) == [t \in 1..4 |-> LoopOrder(s)[t + 1]]
LengthsOf(a) == [t \in 1..4 |-> Len(a[t])]

MatrixOf(s, R, matrix, len) ==
    R = s.repetitions /\ matrix = expandMatrix(s) /\ len = LengthsOf(Axes(s))

CellsAt(s, R, matrix, len, co) ==
    /\ Coordinates(co, Volume(len), len) /\ InPlace(co, Volume(len), len)
    /\ \A n \in 1..Volume(len) : DraftOf(matrix[(n - 1) * R + 1]) = MakeAt(Axes(s), co[n])

\* The cells of the matrix that PathsAgree looks at: the first repetitions in the first
\* scenario.
LEMMA CellsPlaced ==
    ASSUME NEW s \in Specs, Expandable(s), NEW R, NEW matrix, NEW len,
           MatrixOf(s, R, matrix, len)
    PROVE  /\ len \in Lengths
           /\ (Len(matrix) \div Len(s.scenarios)) \div R = Volume(len)
           /\ \E co : CellsAt(s, R, matrix, len, co)
<1> DEFINE a == LoopOrder(s)
           S == ValuesOf(s)
           V == Volume(len)
<1>0. R = s.repetitions /\ matrix = expandMatrix(s) /\ len = LengthsOf(Axes(s))
  BY DEF MatrixOf
<1>1. /\ \A k \in 1..6 : IsList(a[k]) /\ Len(a[k]) # 0 /\ Range(a[k]) \subseteq S
      /\ a[1] = s.scenarios /\ a[6] = [k \in 1..R |-> k] /\ Len(a[6]) = R /\ R \in Nat \ {0}
  BY <1>0, AxesMade
<1>2. /\ Len(matrix) = Size(a) /\ DOMAIN matrix = 1..Size(a) /\ Size(a) \in Nat
      /\ \A n \in DOMAIN matrix : matrix[n] = EntryOf(n, Cells(s)[n])
  BY <1>0, MatrixDrawn
<1>3. \A t \in 1..4 : Axes(s)[t] = a[t + 1]
  BY DEF Axes
<1>4. len = UptoAxis(a, 4)
  <2>1. \A t \in 1..4 : t <= 4
    OBVIOUS
  <2> QED BY <1>0, <1>3, <2>1 DEF LengthsOf, UptoAxis
<1>5. a = LoopOrder(s)
  OBVIOUS
<1> HIDE DEF a, S
<1>6. PICK co, N : Reached(Outer(a), a, S, 4, co, N)
  BY <1>1, FirstReached
<1>7. len \in Lengths /\ N = V /\ Coordinates(co, V, len) /\ InPlace(co, V, len)
  BY <1>4, <1>6 DEF Reached, Coordinates
<1>8. V \in Nat \ {0} /\ \A t \in 1..4 : len[t] = Len(a[t + 1]) /\ len[t] \in Nat \ {0}
  <2>1. V \in Nat \ {0}
    BY <1>7, VolumeLonger, 1 \in 1..4, 1 \in Nat \ {0}
  <2>2. \A t \in 1..4 : len[t] = Len(a[t + 1])
    BY <1>4 DEF UptoAxis
  <2> QED BY <1>7, <2>1, <2>2 DEF Lengths
<1>9. (Len(matrix) \div Len(s.scenarios)) \div R = V
  <2> DEFINE l1 == Len(a[1])
             l2 == Len(a[2])
             l3 == Len(a[3])
             l4 == Len(a[4])
             l5 == Len(a[5])
  <2>1. /\ l1 \in Nat \ {0} /\ l2 \in Nat \ {0} /\ l3 \in Nat \ {0} /\ l4 \in Nat \ {0}
        /\ l5 \in Nat \ {0}
    BY <1>1 DEF IsList
  <2>2. V = l2 * l3 * l4 * l5
    <3>1. len[1] = Len(a[1 + 1]) /\ len[2] = Len(a[2 + 1]) /\ len[3] = Len(a[3 + 1])
             /\ len[4] = Len(a[4 + 1])
      BY <1>8
    <3>2. len[1] = l2 /\ len[2] = l3 /\ len[3] = l4 /\ len[4] = l5
      BY <3>1
    <3> HIDE DEF l2, l3, l4, l5
    <3> QED BY ONLY <3>2 DEF Volume, V
  <2>3. Size(a) = l1 * l2 * l3 * l4 * l5 * R
    BY <1>1 DEF Size
  <2> HIDE DEF l1, l2, l3, l4, l5, V
  <2>4. l1 * l2 * l3 * l4 * l5 * R = (l2 * l3 * l4 * l5 * R) * l1
    BY <1>1, <2>1
  <2> DEFINE P == l2 * l3 * l4 * l5 * R
  <2>5. P = V * R /\ P \in Nat
    <3>1. P = V * R
      BY <2>2
    <3> HIDE DEF P
    <3> QED BY <1>1, <1>8, <3>1
  <2>6. Size(a) = P * l1 + 0
    BY <2>1, <2>3, <2>4, <2>5
  <2> HIDE DEF P
  <2>7. 0 \in 0..(l1 - 1) /\ 0 \in 0..(R - 1)
    BY <1>1, <2>1
  <2>8. Size(a) \div l1 = P
    BY <2>1, <2>5, <2>6, <2>7, DivUnique
  <2>9. V * R + 0 = P
    BY <2>5
  <2>10. P \div R = V
    BY <1>1, <1>8, <2>7, <2>9, DivUnique
  <2> QED BY <1>1, <1>2, <2>8, <2>10 DEF l1
<1>10. ASSUME NEW n \in 1..V
       PROVE  DraftOf(matrix[(n - 1) * R + 1]) = MakeAt(Axes(s), co[n])
  <2> DEFINE m == (n - 1) * R + 1
             cells == Outer(a)
             cell == cells[n]
             x == co[n]
  <2>1. /\ Len(cells) \in Nat /\ V <= Len(cells) /\ cell \in Seq(S) /\ Len(cell) = 5
        /\ \A u \in 1..4 : cell[u + 1] = a[u + 1][x[u]]
    BY <1>6, <1>7 DEF Reached
  <2>2. /\ Cells(s) = Extend(cells, a[6])
        /\ Len(cells) = Len(a[1]) * Len(a[2]) * Len(a[3]) * Len(a[4]) * Len(a[5])
    <3>1. \A k \in 1..6 : IsList(a[k]) /\ Len(a[k]) # 0 /\ Range(a[k]) \subseteq S
      BY <1>1
    <3>2. Cells(s) = Extend(Outer(a), a[6])
      BY <1>5, <3>1, CellsMade
    <3>3. Len(Outer(a)) = Len(a[1]) * Len(a[2]) * Len(a[3]) * Len(a[4]) * Len(a[5])
      BY <1>5, <3>1, CellsMade
    <3> QED BY <3>2, <3>3
  <2>3. Size(a) = Len(cells) * R
    BY <1>1, <2>2 DEF Size
  <2>4. Cells(s) = [k \in 1..(Len(cells) * R) |-> Append(cells[Row(k, R)], a[6][Col(k, R)])]
    BY <1>1, <2>2 DEF Extend, Nest, Row, Col
  <2>5. m = (n - 1) * R + 1
    OBVIOUS
  <2> HIDE DEF m, cells
  <2>6. m \in 1..(Len(cells) * R) /\ Row(m, R) = n /\ Col(m, R) = 1
    <3>1. n \in 1..Len(cells) /\ 1 \in 1..R
      BY <1>1, <1>8, <2>1
    <3>2. m \in 1..(Len(cells) * R) /\ ((m - 1) \div R) + 1 = n /\ ((m - 1) % R) + 1 = 1
      <4> DEFINE size == Len(cells)
      <4>1. size \in Nat /\ R \in Nat \ {0} /\ n \in 1..size /\ 1 \in 1..R /\ m = (n - 1) * R + 1
        BY <1>1, <2>1, <2>5, <3>1
      <4> HIDE DEF size
      <4>2. m \in 1..(size * R) /\ ((m - 1) \div R) + 1 = n /\ ((m - 1) % R) + 1 = 1
        BY ONLY <4>1, PositionOf
      <4> QED BY <4>2 DEF size
    <3> QED BY <3>2 DEF Row, Col
  <2>7. Cells(s)[m] = Append(cell, a[6][1])
    BY <2>4, <2>6
  <2>8. a[6][1] \in S
    <3>1. 1 \in DOMAIN a[6]
      BY <1>1
    <3> QED BY <1>1, <3>1 DEF Range
  <2> HIDE DEF cell, x
  <2>9. \A k \in 1..5 : Cells(s)[m][k] = cell[k]
    BY <2>1, <2>7, <2>8, AppendSixth
  <2>10. DraftOf(matrix[m]) = Made(cell[2], cell[3], cell[4], cell[5])
    <3>1. matrix[m] = EntryOf(m, Cells(s)[m])
      BY <1>2, <2>3, <2>6
    <3>2. DraftOf(EntryOf(m, Cells(s)[m])) =
             Made(Cells(s)[m][2], Cells(s)[m][3], Cells(s)[m][4], Cells(s)[m][5])
      BY MadeOfParts
    <3> QED BY <2>9, <3>1, <3>2
  <2>11. /\ cell[2] = Axes(s)[1][x[1]] /\ cell[3] = Axes(s)[2][x[2]]
         /\ cell[4] = Axes(s)[3][x[3]] /\ cell[5] = Axes(s)[4][x[4]]
    <3>1. \A u \in 1..4 : cell[u + 1] = Axes(s)[u][x[u]]
      BY <1>3, <2>1
    <3> QED BY <3>1
  <2> QED BY <2>10, <2>11 DEF MakeAt, x, m
<1>11. CellsAt(s, R, matrix, len, co)
  BY <1>7, <1>10 DEF CellsAt
<1> QED BY <1>7, <1>9, <1>11

-----------------------------------------------------------------------------
(* The drafts, as tuples of positions on four lists: one list for each kind *)
(* of factor, in the order of the loops.  A factor multiplies the list of   *)
(* its kind.                                                                *)

TypeAt == <<"prompt_swap", "extension_select", "model_swap", "model_param">>
RankOf(f) == CASE TypeOf(f) = "prompt_swap" -> 1
               [] TypeOf(f) = "extension_select" -> 2
               [] TypeOf(f) = "model_swap" -> 3
               [] OTHER -> 4

LEMMA Ranks ==
    ASSUME NEW f, TypeOf(f) \in Kinds
    PROVE  RankOf(f) \in 1..4 /\ \A t \in 1..4 : TypeAt[t] = TypeOf(f) <=> t = RankOf(f)
BY DEF Kinds, Required, RankOf, TypeAt

\* A level replaces what it finds, a parameter is bound besides it.
PutInto(f, t, old, l) == IF t = 4 THEN Bind(old, f.param, l.value) ELSE l
Grown(list, f, t) ==
    [m \in 1..(Len(list) * Len(f.levels)) |->
        PutInto(f, t, list[Row(m, Len(f.levels))], f.levels[Col(m, Len(f.levels))])]
GrownAt(a, f, t) == [a EXCEPT ![t] = Grown(@, f, t)]

\* Level c of the next factor, after the values at x.
NextValue(a, len, x, f, t, L, c, y, v) ==
    /\ DOMAIN a = 1..4 /\ len = LengthsOf(a) /\ len \in Lengths /\ x \in Tuples(len)
    /\ TypeOf(f) \in Kinds /\ t = RankOf(f) /\ L = Len(f.levels) /\ L \in Nat \ {0}
    /\ c \in 1..L /\ v = [factor |-> f, level |-> f.levels[c]]
    /\ y = [x EXCEPT ![t] = (@ - 1) * L + c]

LEMMA DraftFurther ==
    ASSUME NEW a, NEW len, NEW x, NEW f, NEW t, NEW L, NEW c, NEW y, NEW v,
           NextValue(a, len, x, f, t, L, c, y, v)
    PROVE  MakeAt(GrownAt(a, f, t), y) = Apply(MakeAt(a, x), v)
<1>0. /\ DOMAIN a = 1..4 /\ len = LengthsOf(a) /\ len \in Lengths /\ x \in Tuples(len)
      /\ TypeOf(f) \in Kinds /\ t = RankOf(f) /\ L = Len(f.levels) /\ L \in Nat \ {0}
      /\ c \in 1..L /\ v = [factor |-> f, level |-> f.levels[c]]
      /\ y = [x EXCEPT ![t] = (@ - 1) * L + c]
  BY DEF NextValue
<1> DEFINE b == GrownAt(a, f, t)
           l == f.levels[c]
           old == a[t][x[t]]
<1>1. t \in 1..4 /\ TypeOf(f) = TypeAt[t]
  BY <1>0, Ranks
<1>2. b[t] = Grown(a[t], f, t) /\ \A u \in 1..4 : u # t => b[u] = a[u]
  BY <1>0, <1>1 DEF GrownAt
<1>3. x[t] \in 1..len[t] /\ len[t] \in Nat /\ len[t] = Len(a[t]) /\ x \in [1..4 -> Nat \ {0}]
  <2>1. x \in [1..4 -> Nat \ {0}] /\ \A u \in 1..4 : x[u] <= len[u]
    BY <1>0 DEF Tuples, Lengths
  <2>2. len \in [1..4 -> Nat \ {0}]
    BY <1>0 DEF Lengths
  <2>3. len[t] = Len(a[t])
    BY <1>0, <1>1 DEF LengthsOf
  <2>4. x[t] \in Nat \ {0} /\ len[t] \in Nat \ {0} /\ x[t] <= len[t]
    BY ONLY <1>1, <2>1, <2>2
  <2> QED BY <2>1, <2>3, <2>4
<1>4. y[t] = (x[t] - 1) * L + c /\ \A u \in 1..4 : u # t => y[u] = x[u]
  BY <1>0, <1>1, <1>3
<1>5. y[t] \in 1..(Len(a[t]) * L) /\ Row(y[t], L) = x[t] /\ Col(y[t], L) = c
  <2> DEFINE size == Len(a[t])
             r == x[t]
             n == y[t]
  <2>1. size \in Nat /\ r \in 1..size /\ L \in Nat \ {0} /\ c \in 1..L /\ n = (r - 1) * L + c
    BY <1>0, <1>3, <1>4
  <2> HIDE DEF size, r, n
  <2>2. n \in 1..(size * L) /\ ((n - 1) \div L) + 1 = r /\ ((n - 1) % L) + 1 = c
    BY ONLY <2>1, PositionOf
  <2> QED BY <2>2 DEF size, r, n, Row, Col
<1>6. b[t][y[t]] = PutInto(f, t, old, l)
  BY <1>0, <1>2, <1>5 DEF Grown
<1>7. \A u \in 1..4 : u # t => b[u][y[u]] = a[u][x[u]]
  BY <1>2, <1>4
<1>8. v = [factor |-> f, level |-> l]
  BY <1>0
<1> DEFINE p == a[1][x[1]]
           e == a[2][x[2]]
           m == a[3][x[3]]
           q == a[4][x[4]]
<1>9. /\ MakeAt(a, x) = Made(p, e, m, q)
      /\ MakeAt(b, y) = Made(b[1][y[1]], b[2][y[2]], b[3][y[3]], b[4][y[4]])
  BY DEF MakeAt
<1>10. /\ TypeOf(f) = "prompt_swap" => Apply(Made(p, e, m, q), v) = Made(l, e, m, q)
       /\ TypeOf(f) = "extension_select" => Apply(Made(p, e, m, q), v) = Made(p, l, m, q)
       /\ TypeOf(f) = "model_swap" => Apply(Made(p, e, m, q), v) = Made(p, e, l, q)
       /\ TypeOf(f) = "model_param" =>
             Apply(Made(p, e, m, q), v) = Made(p, e, m, Bind(q, f.param, l.value))
  BY <1>8, ApplyMade
<1> HIDE DEF b, l
<1>11. CASE t = 1
  <2>1. TypeOf(f) = "prompt_swap" /\ b[1][y[1]] = l /\ b[2][y[2]] = e /\ b[3][y[3]] = m
          /\ b[4][y[4]] = q
    BY <1>1, <1>6, <1>7, <1>11 DEF TypeAt, PutInto
  <2> QED BY <1>9, <1>10, <2>1 DEF b
<1>12. CASE t = 2
  <2>1. TypeOf(f) = "extension_select" /\ b[1][y[1]] = p /\ b[2][y[2]] = l /\ b[3][y[3]] = m
          /\ b[4][y[4]] = q
    BY <1>1, <1>6, <1>7, <1>12 DEF TypeAt, PutInto
  <2> QED BY <1>9, <1>10, <2>1 DEF b
<1>13. CASE t = 3
  <2>1. TypeOf(f) = "model_swap" /\ b[1][y[1]] = p /\ b[2][y[2]] = e /\ b[3][y[3]] = l
          /\ b[4][y[4]] = q
    BY <1>1, <1>6, <1>7, <1>13 DEF TypeAt, PutInto
  <2> QED BY <1>9, <1>10, <2>1 DEF b
<1>14. CASE t = 4
  <2>1. TypeOf(f) = "model_param" /\ b[1][y[1]] = p /\ b[2][y[2]] = e /\ b[3][y[3]] = m
          /\ b[4][y[4]] = Bind(q, f.param, l.value)
    BY <1>1, <1>6, <1>7, <1>14 DEF TypeAt, PutInto
  <2> QED BY <1>9, <1>10, <2>1 DEF b
<1> QED BY <1>1, <1>11, <1>12, <1>13, <1>14

\* The drafts after k factors.  The list of parameters is that of the matrix; the other
\* lists hold levels of their kinds, and are the levels of the factor where there
\* is one; a list whose kind has not come has one value; and where the factors
\* come in the order of the loops the drafts are in the place of their tuples.
OfRank(fs, t, k) == OfKind(fs, TypeAt[t]) \cap 1..k
Ordered(fs, k) == \A j, m \in 1..k : j < m => RankOf(fs[j]) <= RankOf(fs[m])
ListsAre(fs, k, a, params) ==
    /\ DOMAIN a = 1..4 /\ a[4] = params
    /\ \A t \in 1..4 : IsList(a[t]) /\ Len(a[t]) # 0
    /\ \A t \in 1..4 : OfRank(fs, t, k) = {} => Len(a[t]) = 1
    /\ \A t \in 1..3 : /\ OfRank(fs, t, k) # {} =>
                             Range(a[t]) \subseteq LevelsOfKind(fs, TypeAt[t], k)
                       /\ \A j : OfRank(fs, t, k) = {j} => a[t] = fs[j].levels
DraftsAre(fs, k, a, co, drafts) ==
    /\ Coordinates(co, Len(drafts), LengthsOf(a))
    /\ \A i \in 1..Len(drafts) : drafts[i] = MakeAt(a, co[i])
    /\ Ordered(fs, k) => InPlace(co, Len(drafts), LengthsOf(a))

\* A list that is multiplied.
LEMMA GrownList ==
    ASSUME NEW list, IsList(list), Len(list) # 0, NEW f, NEW S, f.levels \in Seq(S),
           Len(f.levels) \in Nat \ {0}, NEW t
    PROVE  LET new == Grown(list, f, t) IN
           /\ IsList(new) /\ Len(new) = Len(list) * Len(f.levels) /\ Len(new) # 0
           /\ t # 4 => /\ Range(new) \subseteq Range(f.levels)
                       /\ Len(list) = 1 => new = f.levels
<1> DEFINE new == Grown(list, f, t)
           L == Len(f.levels)
           N == Len(list)
           levels == f.levels
<1>1. /\ L \in Nat \ {0} /\ N \in Nat \ {0}
      /\ levels \in [1..L -> S]
  BY DEF IsList
<1>2. new = [m \in 1..(N * L) |-> PutInto(f, t, list[Row(m, L)], levels[Col(m, L)])]
  BY DEF Grown
<1> HIDE DEF new, L, N, levels
<1>3. N * L \in Nat \ {0}
  <2>1. \A x, y \in Nat \ {0} : x * y \in Nat \ {0}
    OBVIOUS
  <2> QED BY <1>1, <2>1
<1>4. new \in [1..(N * L) -> {new[m] : m \in 1..(N * L)}]
  BY <1>2
<1>5. IsList(new) /\ Len(new) = N * L
  BY <1>3, <1>4, ListLen
<1>6. \A m \in 1..(N * L) : Col(m, L) \in 1..L
  BY <1>1, RowCol
<1>7. ASSUME t # 4 PROVE Range(new) \subseteq Range(levels)
  <2>1. \A m \in 1..(N * L) : new[m] = levels[Col(m, L)]
    BY <1>2, <1>7 DEF PutInto
  <2> QED BY <1>1, <1>2, <1>6, <2>1 DEF Range
<1>8. ASSUME t # 4, N = 1 PROVE new = levels
  <2>1. N * L = L
    BY <1>1, <1>8
  <2>2. ASSUME NEW m \in 1..L PROVE new[m] = levels[m]
    <3>1. m = (1 - 1) * L + m
      BY <1>1
    <3>2. ((m - 1) % L) + 1 = m
      BY <1>1, <3>1, PositionOf, 1 \in Nat, 1 \in 1..1
    <3> QED BY <1>2, <1>8, <2>1, <3>2 DEF PutInto, Col
  <2>3. new = [m \in 1..L |-> new[m]] /\ levels = [m \in 1..L |-> levels[m]]
    BY <1>1, <1>2, <2>1
  <2> QED BY <2>2, <2>3
<1> QED BY <1>3, <1>5, <1>7, <1>8 DEF new, N, L, levels

LEMMA ListsFurther ==
    ASSUME NEW fs, Typed(fs), NEW k \in 0..(Len(fs) - 1), NEW f, f = fs[k + 1],
           NEW t, t = RankOf(f), NEW a, NEW params, ListsAre(fs, k, a, params),
           NEW b, b = GrownAt(a, f, t),
           NEW next, next = IF IsA(f, "model_param") THEN WithParam(params, f) ELSE params
    PROVE  /\ ListsAre(fs, k + 1, b, next)
           /\ LengthsOf(a) \in Lengths /\ LengthsOf(b) = Longer(LengthsOf(a), t, Len(f.levels))
<1> DEFINE L == Len(f.levels)
<1>1. /\ Len(fs) \in Nat /\ DOMAIN fs = 1..Len(fs) /\ k + 1 \in DOMAIN fs /\ k \in Nat
      /\ f.levels \in Seq(Levels(fs)) /\ L \in Nat \ {0} /\ HasType(f) /\ TypeOf(f) \in Kinds
  BY DEF Typed, Listed
<1>2. t \in 1..4 /\ \A u \in 1..4 : TypeAt[u] = TypeOf(f) <=> u = t
  BY <1>1, Ranks
<1>3. \A u \in 1..4 : IsA(f, TypeAt[u]) <=> u = t
  BY <1>1, <1>2 DEF IsA
<1>4. 1..(k + 1) = 1..k \cup {k + 1} /\ ~ (k + 1 \in 1..k)
  BY <1>1
<1>5. /\ OfRank(fs, t, k + 1) = OfRank(fs, t, k) \cup {k + 1} /\ ~ (k + 1 \in OfRank(fs, t, k))
      /\ \A u \in 1..4 : u # t => OfRank(fs, u, k + 1) = OfRank(fs, u, k)
  <2>1. \A u \in 1..4 : k + 1 \in OfKind(fs, TypeAt[u]) <=> u = t
    BY <1>1, <1>3 DEF OfKind
  <2> QED BY <1>2, <1>4, <2>1 DEF OfRank
<1>6. /\ Range(f.levels) \subseteq LevelsOfKind(fs, TypeAt[t], k + 1)
      /\ \A u \in 1..4 :
            LevelsOfKind(fs, TypeAt[u], k) \subseteq LevelsOfKind(fs, TypeAt[u], k + 1)
  BY <1>2, <1>4, <1>5 DEF LevelsOfKind, OfRank
<1>7. /\ DOMAIN a = 1..4 /\ DOMAIN b = 1..4 /\ b[t] = Grown(a[t], f, t)
      /\ \A u \in 1..4 : u # t => b[u] = a[u]
  BY <1>2 DEF GrownAt, ListsAre
<1>8. \A u \in 1..4 : IsList(a[u]) /\ Len(a[u]) # 0
  BY DEF ListsAre
<1>9. /\ IsList(b[t]) /\ Len(b[t]) = Len(a[t]) * L /\ Len(b[t]) # 0
      /\ t # 4 => Range(b[t]) \subseteq Range(f.levels) /\ (Len(a[t]) = 1 => b[t] = f.levels)
  <2> DEFINE list == a[t]
             new == Grown(list, f, t)
  <2>1. IsList(list) /\ Len(list) # 0
    BY <1>2, <1>8
  <2> HIDE DEF list, L
  <2>2. f.levels \in Seq(Levels(fs)) /\ Len(f.levels) \in Nat \ {0}
    BY <1>1 DEF L
  <2>3. /\ IsList(new) /\ Len(new) = Len(list) * Len(f.levels) /\ Len(new) # 0
        /\ t # 4 => /\ Range(new) \subseteq Range(f.levels)
                    /\ Len(list) = 1 => new = f.levels
    BY ONLY <2>1, <2>2, GrownList
  <2> QED BY <1>7, <2>3 DEF list, L
<1>10. LengthsOf(a) \in Lengths
  BY <1>8 DEF LengthsOf, Lengths, IsList
<1>11. LengthsOf(b) = Longer(LengthsOf(a), t, L)
  <2>1. Longer(LengthsOf(a), t, L) = [u \in 1..4 |-> IF u = t THEN Len(a[u]) * L ELSE Len(a[u])]
    BY <1>2 DEF Longer, LengthsOf
  <2>2. LengthsOf(b) = [u \in 1..4 |-> Len(b[u])]
    BY DEF LengthsOf
  <2>3. \A u \in 1..4 : Len(b[u]) = IF u = t THEN Len(a[u]) * L ELSE Len(a[u])
    BY <1>7, <1>9
  <2> QED BY <2>1, <2>2, <2>3
<1>12. b[4] = next
  <2>1. CASE t = 4
    <3>1. IsA(f, "model_param") /\ a[4] = params
      BY <1>2, <1>3, <2>1 DEF TypeAt, ListsAre
    <3>2. WithParam(params, f) = Grown(params, f, 4)
      BY DEF WithParam, Nest, Grown, PutInto, Row, Col
    <3> QED BY <1>7, <2>1, <3>1, <3>2
  <2>2. CASE t # 4
    <3>1. ~ IsA(f, "model_param") /\ a[4] = params
      BY <1>2, <1>3, <2>2 DEF TypeAt, ListsAre
    <3> QED BY <1>7, <2>2, <3>1
  <2> QED BY <2>1, <2>2
<1>13. \A u \in 1..4 : IsList(b[u]) /\ Len(b[u]) # 0
  BY <1>7, <1>8, <1>9
<1>14. ASSUME NEW u \in 1..4, OfRank(fs, u, k + 1) = {} PROVE Len(b[u]) = 1
  BY <1>5, <1>7, <1>14 DEF ListsAre
<1>15. ASSUME NEW u \in 1..3, OfRank(fs, u, k + 1) # {}
       PROVE  Range(b[u]) \subseteq LevelsOfKind(fs, TypeAt[u], k + 1)
  <2>1. CASE u = t
    BY <1>6, <1>9, <2>1
  <2>2. CASE u # t
    <3>1. u \in 1..4 /\ b[u] = a[u] /\ OfRank(fs, u, k) # {}
      BY <1>5, <1>7, <1>15, <2>2
    <3>2. Range(a[u]) \subseteq LevelsOfKind(fs, TypeAt[u], k)
      BY <3>1 DEF ListsAre
    <3> QED BY <1>6, <3>1, <3>2
  <2> QED BY <2>1, <2>2
<1>16. ASSUME NEW u \in 1..3, NEW j, OfRank(fs, u, k + 1) = {j} PROVE b[u] = fs[j].levels
  <2>1. CASE u = t
    <3>1. j = k + 1 /\ OfRank(fs, t, k) = {}
      BY <1>5, <1>16, <2>1
    <3>2. Len(a[t]) = 1
      BY <1>2, <3>1 DEF ListsAre
    <3> QED BY <1>9, <2>1, <3>1, <3>2
  <2>2. CASE u # t
    <3>1. u \in 1..4 /\ b[u] = a[u] /\ OfRank(fs, u, k) = {j}
      BY <1>5, <1>7, <1>16, <2>2
    <3> QED BY <3>1 DEF ListsAre
  <2> QED BY <2>1, <2>2
<1> QED BY <1>7, <1>10, <1>11, <1>12, <1>13, <1>14, <1>15, <1>16 DEF ListsAre

LEMMA DraftsFurther ==
    ASSUME NEW fs, Typed(fs), NEW k \in 0..(Len(fs) - 1), NEW f, f = fs[k + 1],
           NEW t, t = RankOf(f), NEW a, NEW params, ListsAre(fs, k, a, params),
           NEW co, NEW drafts, DraftsAre(fs, k, a, co, drafts),
           NEW b, b = GrownAt(a, f, t), NEW L, L = Len(f.levels),
           NEW new, Len(new) = Len(drafts) * L,
           \A i \in 1..(Len(drafts) * L) :
              new[i] = Apply(drafts[Row(i, L)], [factor |-> f, level |-> f.levels[Col(i, L)]])
    PROVE  DraftsAre(fs, k + 1, b, Further(co, Len(drafts), t, L), new)
<1> DEFINE N == Len(drafts)
           next == Further(co, N, t, L)
           len == LengthsOf(a)
           more == LengthsOf(b)
<1>1. /\ Len(fs) \in Nat /\ DOMAIN fs = 1..Len(fs) /\ k + 1 \in DOMAIN fs /\ k \in Nat
      /\ L \in Nat \ {0} /\ HasType(f) /\ TypeOf(f) \in Kinds
  BY DEF Typed, Listed
<1>2. t \in 1..4
  BY <1>1, Ranks
<1>3. len \in Lengths /\ more = Longer(len, t, L)
  <2>1. LengthsOf(a) \in Lengths /\ LengthsOf(b) = Longer(LengthsOf(a), t, Len(f.levels))
    BY ListsFurther
  <2> QED BY <2>1
<1>4. Coordinates(co, N, len) /\ DOMAIN a = 1..4
  BY DEF DraftsAre, ListsAre
<1>5. N \in Nat \ {0}
  <2>1. Volume(len) \in Nat \ {0}
    BY <1>3, VolumeLonger, 1 \in 1..4, 1 \in Nat \ {0}
  <2> QED BY <1>4, <2>1 DEF Coordinates
<1> HIDE DEF N, next, len, more
<1>6. Coordinates(next, N * L, more)
  BY <1>1, <1>2, <1>3, <1>4, CoordinatesKept DEF next
<1>7. ASSUME NEW i \in 1..(N * L) PROVE new[i] = MakeAt(b, next[i])
  <2> DEFINE r == Row(i, L)
             c == Col(i, L)
             x == co[r]
             v == [factor |-> f, level |-> f.levels[c]]
  <2>1. r \in 1..N /\ c \in 1..L
    BY <1>1, <1>5, RowCol
  <2>2. new[i] = Apply(drafts[r], v) /\ drafts[r] = MakeAt(a, x)
    BY <2>1 DEF N, DraftsAre
  <2>3. x \in Tuples(len)
    BY <1>4, <2>1 DEF Coordinates
  <2>4. next[i] = [x EXCEPT ![t] = (@ - 1) * L + c]
    BY DEF next, Further
  <2>5. v = [factor |-> f, level |-> f.levels[c]]
    OBVIOUS
  <2> HIDE DEF r, c, x, v
  <2>6. MakeAt(GrownAt(a, f, t), next[i]) = Apply(MakeAt(a, x), v)
    <3> DEFINE y == next[i]
    <3>1. NextValue(a, len, x, f, t, L, c, y, v)
      BY <1>1, <1>3, <1>4, <2>1, <2>3, <2>4, <2>5 DEF len, NextValue
    <3> HIDE DEF y
    <3>2. MakeAt(GrownAt(a, f, t), y) = Apply(MakeAt(a, x), v)
      BY ONLY <3>1, DraftFurther
    <3> QED BY <3>2 DEF y
  <2> QED BY <2>2, <2>6
<1>8. ASSUME Ordered(fs, k + 1) PROVE InPlace(next, N * L, more)
  <2>1. \A j \in 1..k : j \in 1..(k + 1) /\ j < k + 1 /\ k + 1 \in 1..(k + 1)
    BY <1>1
  <2>2. Ordered(fs, k) /\ \A j \in 1..k : RankOf(fs[j]) <= t
    BY <1>8, <2>1 DEF Ordered
  <2>3. InPlace(co, N, len)
    BY <2>2 DEF DraftsAre, N, len
  <2>4. ASSUME NEW u \in 1..4, u > t PROVE len[u] = 1
    <3>1. ASSUME NEW j \in 1..k PROVE ~ (j \in OfKind(fs, TypeAt[u]))
      <4>1. j \in 1..Len(fs)
        BY <1>1
      <4>2. TypeOf(fs[j]) \in Kinds
        BY <4>1 DEF Typed
      <4>3. RankOf(fs[j]) \in 1..4 /\ (TypeAt[u] = TypeOf(fs[j]) <=> u = RankOf(fs[j]))
        BY <4>2, Ranks
      <4>4. RankOf(fs[j]) <= t
        BY <2>2
      <4>5. TypeAt[u] # TypeOf(fs[j])
        BY <1>2, <2>4, <4>3, <4>4
      <4> QED BY <4>5 DEF OfKind, IsA
    <3>2. OfRank(fs, u, k) = {}
      BY <3>1 DEF OfRank
    <3> QED BY <3>2 DEF ListsAre, len, LengthsOf
  <2> QED BY <1>1, <1>2, <1>3, <1>4, <2>3, <2>4, PlacesKept DEF next
<1>9. Len(new) = N * L
  BY DEF N
<1> QED BY <1>6, <1>7, <1>8, <1>9 DEF DraftsAre, N, next, more

\* What expandMatrixWithRegistry makes.
LEMMA DraftsPlaced ==
    ASSUME NEW fs, Typed(fs), NEW drafts, drafts = expandMatrixWithRegistry(fs)
    PROVE  /\ Len(drafts) \in Nat /\ DOMAIN drafts = 1..Len(drafts)
           /\ \E a, co : /\ ListsAre(fs, Len(fs), a, ParamCombinations(fs))
                         /\ DraftsAre(fs, Len(fs), a, co, drafts)
<1> DEFINE n == Len(fs)
<1>1. Listed(fs) /\ n \in Nat
  BY DEF Typed, Listed
<1>2. PICK D : DraftLoop(D, fs)
  BY DraftsRun
<1>3. PICK Q : ParamLoop(Q, fs)
  BY <1>1, ParamsRun
<1>4. drafts = D[n] /\ ParamCombinations(fs) = Q[n]
  BY <1>2, <1>3 DEF DraftLoop, ParamLoop
<1> DEFINE P(k) == \E a, co : ListsAre(fs, k, a, Q[k]) /\ DraftsAre(fs, k, a, co, D[k])
           T == {k \in Nat : k <= n => P(k)}
<1>5. P(0)
  <2> DEFINE a == << <<Blank>>, <<Blank>>, <<Blank>>, <<NoParams>> >>
  <2>1. Q[0] = <<NoParams>> /\ D[0] = <<EmptyDraft>>
    BY <1>2, <1>3 DEF ParamLoop, DraftLoop
  <2>2. /\ DOMAIN a = 1..4 /\ a[4] = Q[0]
        /\ \A t \in 1..4 : Len(a[t]) = 1 /\ DOMAIN a[t] = 1..1
        /\ a[1][1] = Blank /\ a[2][1] = Blank /\ a[3][1] = Blank /\ a[4][1] = NoParams
    <3>1. \A t \in 1..4 : t = 1 \/ t = 2 \/ t = 3 \/ t = 4
      OBVIOUS
    <3> QED BY <2>1, <3>1
  <2> HIDE DEF a
  <2>3. \A t \in 1..4 : OfRank(fs, t, 0) = {}
    <3>1. 1..0 = {}
      OBVIOUS
    <3> QED BY <3>1 DEF OfRank
  <2>4. ListsAre(fs, 0, a, Q[0])
    <3>1. \A t \in 1..4 : IsList(a[t]) /\ Len(a[t]) # 0
      <4>1. \A t \in 1..4 : Len(a[t]) = 1 /\ DOMAIN a[t] = 1..1
        BY <2>2
      <4> QED BY ONLY <4>1 DEF IsList
    <3>2. \A t \in 1..3 : OfRank(fs, t, 0) = {}
      BY <2>3
    <3>3. \A j : {j} # {}
      OBVIOUS
    <3> QED BY <2>2, <3>1, <3>2, <3>3 DEF ListsAre
  <2>5. LengthsOf(a) = Singles
    BY <2>2 DEF LengthsOf, Singles
  <2>6. Len(D[0]) = 1 /\ D[0][1] = EmptyDraft
    BY <2>1
  <2>7. Start[1] = Singles /\ \A t \in 1..4 : Singles[t] = 1
    BY DEF Start, Singles
  <2>8. MakeAt(a, Start[1]) = EmptyDraft
    BY <2>2, <2>7, MadeOfParts DEF MakeAt
  <2>9. \A i \in 1..1 : i = 1
    OBVIOUS
  <2>10. DraftsAre(fs, 0, a, Start, D[0])
    BY <2>5, <2>6, <2>8, <2>9, StartPlaced DEF DraftsAre
  <2> QED BY <2>4, <2>10
<1>6. ASSUME NEW k \in 0..(n - 1), P(k) PROVE P(k + 1)
  <2>1. PICK a, co : ListsAre(fs, k, a, Q[k]) /\ DraftsAre(fs, k, a, co, D[k])
    BY <1>6
  <2> DEFINE f == fs[k + 1]
             t == RankOf(f)
             L == Len(f.levels)
             b == GrownAt(a, f, t)
             old == D[k]
             new == D[k + 1]
             params == Q[k]
             next == Q[k + 1]
  <2>2. /\ Len(new) = Len(old) * L
        /\ \A i \in 1..(Len(old) * L) :
              new[i] = Apply(old[Row(i, L)], [factor |-> f, level |-> f.levels[Col(i, L)]])
    BY <1>2 DEF DraftLoop
  <2>3. next = IF IsA(f, "model_param") THEN WithParam(params, f) ELSE params
    BY <1>3 DEF ParamLoop
  <2>4. /\ f = fs[k + 1] /\ t = RankOf(f) /\ L = Len(f.levels) /\ b = GrownAt(a, f, t)
        /\ ListsAre(fs, k, a, params) /\ DraftsAre(fs, k, a, co, old)
    BY <2>1
  <2> HIDE DEF f, t, L, b, old, new, params, next
  <2>5. ListsAre(fs, k + 1, b, next)
    BY <2>3, <2>4, ListsFurther
  <2>6. DraftsAre(fs, k + 1, b, Further(co, Len(old), t, L), new)
    BY <2>2, <2>4, DraftsFurther
  <2> QED BY <2>5, <2>6 DEF new, next
<1> HIDE DEF P
<1>7. 0 \in T
  BY <1>5
<1>8. ASSUME NEW k \in Nat, k \in T PROVE k + 1 \in T
  <2>1. k + 1 <= n => k \in 0..(n - 1) /\ k <= n
    BY <1>1
  <2> QED BY <1>6, <1>8, <2>1
<1>9. Nat \subseteq T
  <2> HIDE DEF T
  <2> QED BY <1>7, <1>8, Induct
<1>10. P(n)
  BY <1>1, <1>9
<1>11. D[n] \in Seq(Drafts(fs))
  BY <1>1, <1>2 DEF DraftLoop
<1>12. Len(drafts) \in Nat /\ DOMAIN drafts = 1..Len(drafts)
  BY <1>4, <1>11
<1> QED BY <1>4, <1>10, <1>12 DEF P

-----------------------------------------------------------------------------
(* The two expansions agree.                                                *)

LEMMA SomeCounted ==
    ASSUME NEW N \in Nat, NEW seq, DOMAIN seq = 1..N, NEW n \in 1..N, NEW x, seq[n] = x
    PROVE  Count(x, seq) > 0
<1> DEFINE A == {m \in DOMAIN seq : seq[m] = x}
<1>1. A \in SUBSET (1..N) /\ n \in A
  OBVIOUS
<1> HIDE DEF A
<1>2. IsFiniteSet(A) /\ Cardinality(A) \in Nat
  BY <1>1, UptoFinite
<1>3. Cardinality(A) # 0
  BY <1>1, <1>2, FS_EmptySet
<1>4. Cardinality(A) > 0
  BY <1>2, <1>3
<1> QED BY <1>4 DEF Count, A

\* Two orders of the same tuples hold a value equally often.
Holds(d, N, len, co, a) ==
    /\ Coordinates(co, N, len)
    /\ DOMAIN d = 1..N /\ \A i \in 1..N : d[i] = MakeAt(a, co[i])

LEMMA SameCount ==
    ASSUME NEW N \in Nat, NEW len, NEW a, NEW d, NEW co, Holds(d, N, len, co, a),
           NEW c, NEW co2, Holds(c, N, len, co2, a), NEW x
    PROVE  Count(x, d) = Count(x, c)
<1>0. /\ Coordinates(co, N, len) /\ Coordinates(co2, N, len)
      /\ DOMAIN d = 1..N /\ \A i \in 1..N : d[i] = MakeAt(a, co[i])
      /\ DOMAIN c = 1..N /\ \A i \in 1..N : c[i] = MakeAt(a, co2[i])
  BY DEF Holds
<1> DEFINE A == {m \in DOMAIN d : d[m] = x}
           B == {m \in DOMAIN c : c[m] = x}
           Same(i) == CHOOSE n \in 1..N : co2[n] = co[i]
           f == [i \in A |-> Same(i)]
<1>1. \A i \in 1..N : Same(i) \in 1..N /\ co2[Same(i)] = co[i]
  BY <1>0 DEF Coordinates
<1> HIDE DEF Same
<1>2. A \in SUBSET (1..N) /\ \A i \in A : i \in 1..N /\ f[i] = Same(i)
  BY <1>0
<1>3. \A i \in A : f[i] \in B
  BY <1>0, <1>1, <1>2
<1>4. f \in Injection(A, B)
  <2>1. f \in [A -> B]
    BY <1>3
  <2>2. ASSUME NEW i \in A, NEW j \in A, f[i] = f[j] PROVE i = j
    <3>1. co[i] = co[j]
      BY <1>1, <1>2, <2>2
    <3> QED BY <1>0, <1>2, <3>1 DEF Coordinates
  <2> HIDE DEF f, A, B
  <2> QED BY <2>1, <2>2 DEF Injection, IsInjective
<1>5. f \in Surjection(A, B)
  <2>1. f \in [A -> B]
    BY <1>3
  <2>2. ASSUME NEW n \in B PROVE \E i \in A : f[i] = n
    <3>1. n \in 1..N /\ c[n] = x
      BY <1>0
    <3>2. PICK i \in 1..N : co[i] = co2[n]
      BY <1>0, <3>1 DEF Coordinates
    <3>3. Same(i) = n
      BY <1>0, <1>1, <3>1, <3>2 DEF Coordinates
    <3>4. i \in A
      BY <1>0, <3>1, <3>2
    <3> QED BY <1>2, <3>3, <3>4
  <2> HIDE DEF f, A, B
  <2> QED BY <2>1, <2>2 DEF Surjection
<1> HIDE DEF A, B, f
<1>6. IsFiniteSet(A)
  BY <1>2, UptoFinite
<1>7. ExistsBijection(A, B)
  BY <1>4, <1>5 DEF ExistsBijection, Bijection
<1>8. Cardinality(A) = Cardinality(B)
  BY <1>6, <1>7, FS_Bijection
<1> QED BY <1>8 DEF Count, A, B

\* Drafts are cells; the same cells equally often, for one factor of each required
\* kind; and in the same order, if the factors come in that of the loops.
InOrder(fs) == \A k, m \in DOMAIN fs : k < m => RankOf(fs[k]) <= RankOf(fs[m])
OneEach(fs) == \A type \in Required : Cardinality(OfKind(fs, type)) = 1

Expansions(s, fs, R, matrix, drafts, cells) ==
    /\ fs = s.factors /\ R = s.repetitions /\ matrix = expandMatrix(s)
    /\ drafts = expandMatrixWithRegistry(fs)
    /\ cells = [n \in 1..((Len(matrix) \div Len(s.scenarios)) \div R) |->
                   DraftOf(matrix[(n - 1) * R + 1])]

LEMMA ExpansionsAgree ==
    ASSUME NEW s \in Specs, Expandable(s), NEW fs, Typed(fs), NEW R, NEW matrix, NEW drafts,
           NEW cells, Expansions(s, fs, R, matrix, drafts, cells)
    PROVE  /\ \A n \in DOMAIN drafts : Count(drafts[n], cells) > 0
           /\ OneEach(fs) => \A x : Count(x, drafts) = Count(x, cells)
           /\ OneEach(fs) /\ InOrder(fs) => drafts = cells
<1> DEFINE axes == Axes(s)
           len == LengthsOf(axes)
           V == Volume(len)
           N == Len(drafts)
           k == Len(fs)
<1>0. /\ fs = s.factors /\ R = s.repetitions /\ matrix = expandMatrix(s)
      /\ drafts = expandMatrixWithRegistry(fs)
      /\ cells = [n \in 1..((Len(matrix) \div Len(s.scenarios)) \div R) |->
                     DraftOf(matrix[(n - 1) * R + 1])]
  BY DEF Expansions
<1>a. MatrixOf(s, R, matrix, len)
  BY <1>0 DEF MatrixOf
<1>1. len \in Lengths /\ (Len(matrix) \div Len(s.scenarios)) \div R = V
  <2> HIDE DEF len
  <2> QED BY <1>a, CellsPlaced
<1>2. PICK co2 : /\ Coordinates(co2, V, len) /\ InPlace(co2, V, len)
                 /\ \A n \in 1..V : DraftOf(matrix[(n - 1) * R + 1]) = MakeAt(axes, co2[n])
  <2>1. axes = Axes(s) /\ len = LengthsOf(Axes(s)) /\ V = Volume(len)
    OBVIOUS
  <2> HIDE DEF axes, len, V
  <2>2. \E co : CellsAt(s, R, matrix, len, co)
    BY <1>a, CellsPlaced
  <2> QED BY <2>1, <2>2 DEF CellsAt
<1>3. N \in Nat /\ DOMAIN drafts = 1..N
  BY <1>0, DraftsPlaced
<1>4. PICK a, co : ListsAre(fs, k, a, ParamCombinations(fs)) /\ DraftsAre(fs, k, a, co, drafts)
  BY <1>0, DraftsPlaced
<1>5. V \in Nat
  BY <1>1, VolumeLonger, 1 \in 1..4, 1 \in Nat \ {0}
<1>6. DOMAIN cells = 1..V /\ \A n \in 1..V : cells[n] = MakeAt(axes, co2[n])
  BY <1>0, <1>1, <1>2
<1>7. /\ axes[1] = Axis(fs, TypeAt[1]) /\ axes[2] = Axis(fs, TypeAt[2])
      /\ axes[3] = Axis(fs, TypeAt[3]) /\ axes[4] = ParamCombinations(fs)
  <2>1. /\ axes[1] = LoopOrder(s)[2] /\ axes[2] = LoopOrder(s)[3] /\ axes[3] = LoopOrder(s)[4]
        /\ axes[4] = LoopOrder(s)[5]
    BY DEF Axes
  <2>2. /\ TypeAt[1] = "prompt_swap" /\ TypeAt[2] = "extension_select"
        /\ TypeAt[3] = "model_swap"
    BY DEF TypeAt
  <2> HIDE DEF axes
  <2> QED BY <1>0, <2>1, <2>2, AxesMade
<1>8. Listed(fs) /\ k \in Nat /\ DOMAIN fs = 1..k
  BY DEF Typed, Listed
<1>9. /\ Coordinates(co, N, LengthsOf(a)) /\ \A i \in 1..N : drafts[i] = MakeAt(a, co[i])
      /\ Ordered(fs, k) => InPlace(co, N, LengthsOf(a))
  BY <1>4 DEF DraftsAre
<1>10. ASSUME NEW t \in 1..3
       PROVE  /\ TypeAt[t] \in Required /\ axes[t] = Axis(fs, TypeAt[t])
              /\ OfRank(fs, t, k) = OfKind(fs, TypeAt[t]) /\ OfRank(fs, t, k) # {}
  <2>1. t = 1 \/ t = 2 \/ t = 3
    OBVIOUS
  <2>2. TypeAt[t] \in Required
    BY <2>1 DEF TypeAt, Required
  <2>3. OfKind(fs, TypeAt[t]) # {}
    BY <1>0, <2>2 DEF Expandable
  <2>4. OfRank(fs, t, k) = OfKind(fs, TypeAt[t])
    BY <1>8 DEF OfRank, OfKind
  <2> HIDE DEF axes
  <2> QED BY <1>7, <2>1, <2>2, <2>3, <2>4
<1> HIDE DEF axes, len, V, N, k
<1>11. ASSUME NEW n \in 1..N PROVE Count(drafts[n], cells) > 0
  <2> DEFINE x == co[n]
  <2>1. /\ drafts[n] = MakeAt(a, x) /\ x \in [1..4 -> Nat \ {0}]
        /\ \A t \in 1..4 : x[t] <= LengthsOf(a)[t]
    BY <1>9 DEF Coordinates, Tuples, Lengths
  <2> HIDE DEF x
  <2>2. \A t \in 1..4 : x[t] \in DOMAIN a[t]
    <3> SUFFICES ASSUME NEW t \in 1..4 PROVE x[t] \in DOMAIN a[t]
      OBVIOUS
    <3>1. IsList(a[t])
      BY <1>4 DEF ListsAre
    <3>2. x[t] \in Nat \ {0} /\ x[t] <= Len(a[t])
      BY <2>1 DEF LengthsOf
    <3> QED BY <3>1, <3>2 DEF IsList
  <2>3. ASSUME NEW t \in 1..3 PROVE \E p \in DOMAIN axes[t] : axes[t][p] = a[t][x[t]]
    <3>1. a[t][x[t]] \in Range(a[t])
      BY <2>2 DEF Range
    <3>2. Range(a[t]) \subseteq LevelsOfKind(fs, TypeAt[t], k)
      BY <1>4, <1>10 DEF ListsAre
    <3>3. Range(Axis(fs, TypeAt[t])) = LevelsOfKind(fs, TypeAt[t], k)
      BY <1>8, AxisHolds DEF k
    <3>4. a[t][x[t]] \in Range(axes[t])
      BY <1>10, <3>1, <3>2, <3>3
    <3> QED BY <3>4 DEF Range
  <2>4. PICK p \in DOMAIN axes[1] : axes[1][p] = a[1][x[1]]
    BY <2>3
  <2>5. PICK e \in DOMAIN axes[2] : axes[2][e] = a[2][x[2]]
    BY <2>3
  <2>6. PICK m \in DOMAIN axes[3] : axes[3][m] = a[3][x[3]]
    BY <2>3
  <2>7. x[4] \in DOMAIN axes[4] /\ axes[4] = a[4]
    BY <1>4, <1>7, <2>2 DEF ListsAre
  <2> DEFINE y == [t \in 1..4 |-> IF t = 1 THEN p ELSE IF t = 2 THEN e
                                  ELSE IF t = 3 THEN m ELSE x[4]]
  <2>8. y[1] = p /\ y[2] = e /\ y[3] = m /\ y[4] = x[4] /\ y = [t \in 1..4 |-> y[t]]
    OBVIOUS
  <2> HIDE DEF y
  <2>9. \A t \in 1..4 : DOMAIN axes[t] = 1..Len(axes[t]) /\ len[t] = Len(axes[t])
           /\ len[t] \in Nat
    <3> SUFFICES ASSUME NEW t \in 1..4
                 PROVE  DOMAIN axes[t] = 1..Len(axes[t]) /\ len[t] = Len(axes[t])
                           /\ len[t] \in Nat
      OBVIOUS
    <3>1. t + 1 \in 1..6 /\ axes[t] = LoopOrder(s)[t + 1]
      BY DEF axes, Axes
    <3>2. IsList(axes[t])
      BY <3>1, AxesMade
    <3> QED BY <3>2 DEF IsList, len, LengthsOf
  <2>10. y \in Tuples(len)
    <3>1. \A t \in 1..4 : y[t] \in DOMAIN axes[t]
      <4>1. \A t \in 1..4 : t = 1 \/ t = 2 \/ t = 3 \/ t = 4
        OBVIOUS
      <4> QED BY <2>4, <2>5, <2>6, <2>7, <2>8, <4>1
    <3>2. \A t \in 1..4 : y[t] \in Nat \ {0} /\ y[t] <= len[t]
      <4> SUFFICES ASSUME NEW t \in 1..4 PROVE y[t] \in Nat \ {0} /\ y[t] <= len[t]
        OBVIOUS
      <4>1. y[t] \in 1..len[t] /\ len[t] \in Nat
        BY <2>9, <3>1
      <4> QED BY <4>1
    <3> QED BY <2>8, <3>2 DEF Tuples, Lengths
  <2>11. PICK j \in 1..V : co2[j] = y
    BY <1>2, <2>10 DEF Coordinates
  <2>12. cells[j] = MakeAt(axes, y)
    BY <1>6, <2>11
  <2>13. MakeAt(axes, y) = MakeAt(a, x)
    BY <2>4, <2>5, <2>6, <2>7, <2>8 DEF MakeAt
  <2> QED BY <1>5, <1>6, <2>1, <2>11, <2>12, <2>13, SomeCounted
<1>12. ASSUME OneEach(fs)
       PROVE  /\ N = V /\ Coordinates(co, V, len)
              /\ \A i \in 1..V : drafts[i] = MakeAt(axes, co[i])
              /\ Ordered(fs, k) => InPlace(co, V, len)
  <2>1. ASSUME NEW t \in 1..3 PROVE a[t] = axes[t]
    <3>1. Cardinality(OfKind(fs, TypeAt[t])) = 1
      BY <1>10, <1>12 DEF OneEach
    <3>2. IsFiniteSet(OfKind(fs, TypeAt[t]))
      <4>1. OfKind(fs, TypeAt[t]) \in SUBSET (1..k)
        BY <1>8 DEF OfKind
      <4> QED BY <1>8, <4>1, UptoFinite
    <3>3. PICK j : OfKind(fs, TypeAt[t]) = {j}
      BY <3>1, <3>2, FS_Singleton
    <3>4. Axis(fs, TypeAt[t]) = fs[j].levels
      BY <1>8, <3>3, AxisHolds
    <3>5. a[t] = fs[j].levels
      BY <1>4, <1>10, <3>3 DEF ListsAre
    <3> QED BY <1>10, <3>4, <3>5
  <2>2. a[4] = axes[4]
    BY <1>4, <1>7 DEF ListsAre
  <2>3. \A t \in 1..4 : a[t] = axes[t]
    <3>1. \A t \in 1..4 : t \in 1..3 \/ t = 4
      OBVIOUS
    <3> QED BY <2>1, <2>2, <3>1
  <2>4. LengthsOf(a) = len
    BY <2>3 DEF LengthsOf, len
  <2>5. N = V
    BY <1>9, <2>4 DEF Coordinates, V
  <2>6. \A x : MakeAt(a, x) = MakeAt(axes, x)
    BY <2>3 DEF MakeAt
  <2> QED BY <1>9, <2>4, <2>5, <2>6
<1>13. ASSUME OneEach(fs), NEW x PROVE Count(x, drafts) = Count(x, cells)
  <2>1. V \in Nat /\ Holds(drafts, V, len, co, axes) /\ Holds(cells, V, len, co2, axes)
    BY <1>2, <1>3, <1>5, <1>6, <1>12, <1>13 DEF Holds
  <2> QED BY ONLY <2>1, SameCount
<1>14. ASSUME OneEach(fs), InOrder(fs) PROVE drafts = cells
  <2>1. Ordered(fs, k)
    BY <1>8, <1>14 DEF InOrder, Ordered
  <2>2. ASSUME NEW n \in 1..V PROVE drafts[n] = cells[n]
    <3>1. co[n] \in Tuples(len) /\ Place(len, co[n]) = n
      BY <1>12, <1>14, <2>1 DEF InPlace, Coordinates
    <3>2. PICK m \in 1..V : co2[m] = co[n]
      BY <1>2, <3>1 DEF Coordinates
    <3>3. m = n
      BY <1>2, <3>1, <3>2 DEF InPlace
    <3> QED BY <1>6, <1>12, <1>14, <3>2, <3>3
  <2>3. cells = [n \in 1..V |-> cells[n]]
    BY <1>0, <1>1, <1>6
  <2>4. drafts = [n \in 1..V |-> drafts[n]]
    <3>1. drafts = [i \in 1..N |-> drafts[i]]
      BY <1>0, <1>3 DEF expandMatrixWithRegistry
    <3> QED BY <1>12, <1>14, <3>1
  <2> QED BY <2>2, <2>3, <2>4
<1> QED BY <1>3, <1>11, <1>13, <1>14

\* The registry path of every accepted spec makes cells of its matrix: the same cells
\* equally often where there is one factor of each required kind, and in the same
\* order where the factors come in that of the loops.
THEOREM PathsAgreeAlways == Spec => []PathsAgree
<1>1. ASSUME AllOK PROVE PathsAgree
  <2> SUFFICES ASSUME phase = "running", call = "matrix" PROVE PathsAgree
    BY DEF PathsAgree
  <2>1. Expandable(spec) /\ plan = expandMatrix(spec) /\ spec \in Specs /\ Accepted
    BY <1>1 DEF AllOK, PlanIs, TInv, TypeOK
  <2> DEFINE fs == spec.factors
             R == spec.repetitions
             drafts == expandMatrixWithRegistry(fs)
             cells == [n \in 1..((Len(plan) \div Len(spec.scenarios)) \div R) |->
                          DraftOf(plan[(n - 1) * R + 1])]
  <2>2. Typed(fs)
    <3>1. Listed(fs)
      BY <2>1, FactorsListed
    <3>2. \A k \in DOMAIN fs : HasType(fs[k])
      BY <2>1 DEF Accepted, Parses
    <3>3. \A k \in DOMAIN fs : HasType(fs[k]) => TypeOf(fs[k]) \in Kinds
      BY <2>1, SpecsAssumption DEF Kinds
    <3> QED BY <3>1, <3>2, <3>3 DEF Typed, Listed
  <2>3. Expansions(spec, fs, R, plan, drafts, cells)
    BY <2>1 DEF Expansions
  <2> HIDE DEF fs, R, drafts, cells
  <2>a. /\ \A n \in DOMAIN drafts : Count(drafts[n], cells) > 0
        /\ OneEach(fs) => \A x : Count(x, drafts) = Count(x, cells)
        /\ OneEach(fs) /\ InOrder(fs) => drafts = cells
    BY <2>1, <2>2, <2>3, ExpansionsAgree
  <2>4. /\ \A n \in DOMAIN drafts : Count(drafts[n], cells) > 0
        /\ OneEach(fs) => \A n \in DOMAIN cells : Count(cells[n], drafts) = Count(cells[n], cells)
        /\ OneEach(fs) /\ InOrder(fs) => drafts = cells
    BY <2>a
  <2> QED BY <2>4 DEF PathsAgree, OneEach, InOrder, RankOf, fs, R, drafts, cells
<1> QED BY <1>1, AllAlways, PTL
=============================================================================
