---------------------------- MODULE RedialProofs ----------------------------
(***************************************************************************)
(* Proofs about Redial, for any peers, addresses and limits.               *)
(***************************************************************************)
EXTENDS Redial, FiniteSetTheorems, WellFoundedInduction, TLAPS

-----------------------------------------------------------------------------
(* Induction.                                                              *)

\* A set of numbers that holds 0, and with each number the next, holds them all.
LEMMA Induction ==
  ASSUME NEW P, 0 \in P, \A n \in Nat : n \in P => n + 1 \in P
  PROVE  Nat \subseteq P
<1> DEFINE Missing == Nat \ P
<1> SUFFICES ASSUME Missing # {} PROVE FALSE
  OBVIOUS
<1>1. PICK n \in Missing : \A m \in Missing : ~(<<m, n>> \in OpToRel(<, Nat))
  BY NatLessThanWellFounded, WFMin
<1>2. \A m \in Missing : ~(m < n)
  BY <1>1 DEF OpToRel
<1>3. n \in Nat \ {0} /\ n - 1 \in Nat
  OBVIOUS
<1>4. n - 1 \in P
  BY <1>2, <1>3
<1> QED BY <1>3, <1>4

-----------------------------------------------------------------------------
(* forget_discovered.                                                      *)

\* What Without keeps of the first i addresses, given what it keeps of fewer.
KeepStep(k, list, addr, i) ==
  IF i = 0 THEN <<>>
  ELSE IF list[i] = addr THEN k[i - 1] ELSE Append(k[i - 1], list[i])

\* Without is what its recursion says.
LEMMA WithoutUnfolds ==
  ASSUME NEW S, NEW list \in Seq(S), NEW addr
  PROVE  \E k \in [0..Len(list) -> Seq(S)] :
           /\ Without(list, addr) = k[Len(list)]
           /\ \A i \in 0..Len(list) : k[i] = KeepStep(k, list, addr, i)
<1> DEFINE n == Len(list)
           k == CHOOSE k : k = [i \in 0..n |-> KeepStep(k, list, addr, i)]
<1>1. n \in Nat /\ \A i \in 1..n : list[i] \in S
  OBVIOUS
<1>2. \E f \in [0..n -> Seq(S)] : \A i \in 0..n : f[i] = KeepStep(f, list, addr, i)
  <2> DEFINE P == {m \in Nat : m <= n =>
                     \E f \in [0..m -> Seq(S)] : \A i \in 0..m : f[i] = KeepStep(f, list, addr, i)}
  <2>1. 0 \in P
    <3> DEFINE f == [i \in 0..0 |-> <<>>]
    <3>1. f \in [0..0 -> Seq(S)] /\ \A i \in 0..0 : f[i] = KeepStep(f, list, addr, i)
      BY DEF KeepStep
    <3> QED BY <3>1
  <2>2. ASSUME NEW m \in Nat, m \in P PROVE m + 1 \in P
    <3> SUFFICES ASSUME m + 1 <= n
                 PROVE  \E f \in [0..(m + 1) -> Seq(S)] :
                          \A i \in 0..(m + 1) : f[i] = KeepStep(f, list, addr, i)
      <4>1. m + 1 \in Nat
        OBVIOUS
      <4> QED BY <4>1
    <3>0. m <= n
      BY <1>1
    <3>1. PICK g \in [0..m -> Seq(S)] : \A i \in 0..m : g[i] = KeepStep(g, list, addr, i)
      <4>1. m \in P
        BY <2>2
      <4> QED BY <3>0, <4>1, Zenon
    <3> DEFINE e == KeepStep(g, list, addr, m + 1)
               f == [i \in 0..(m + 1) |-> IF i = m + 1 THEN e ELSE g[i]]
    <3>2. e \in Seq(S)
      <4>1. g[m] \in Seq(S) /\ list[m + 1] \in S /\ (m + 1) - 1 = m /\ m + 1 # 0
        BY <1>1
      <4> QED BY <4>1 DEF KeepStep
    <3>3. f \in [0..(m + 1) -> Seq(S)]
      BY <3>2
    <3>4. \A i \in 0..m : f[i] = g[i]
      OBVIOUS
    <3>5. ASSUME NEW i \in 0..(m + 1) PROVE f[i] = KeepStep(f, list, addr, i)
      <4>1. CASE i = 0
        BY <3>1, <3>4, <4>1 DEF KeepStep
      <4>2. CASE i # 0
        <5>1. i - 1 \in 0..m
          BY <4>2
        <5>2. f[i - 1] = g[i - 1]
          BY <3>4, <5>1
        <5>3. KeepStep(f, list, addr, i) = KeepStep(g, list, addr, i)
          BY <4>2, <5>2 DEF KeepStep
        <5>4. CASE i = m + 1
          BY <5>3, <5>4
        <5>5. CASE i \in 0..m
          BY <3>1, <3>4, <5>3, <5>5
        <5> QED BY <5>4, <5>5
      <4> QED BY <4>1, <4>2
    <3> QED BY <3>3, <3>5
  <2> HIDE DEF P
  <2>3. n \in P
    BY <1>1, <2>1, <2>2, Induction
  <2> QED BY <1>1, <2>3 DEF P
<1>3. k = [i \in 0..n |-> KeepStep(k, list, addr, i)]
  <2>1. PICK f \in [0..n -> Seq(S)] : \A i \in 0..n : f[i] = KeepStep(f, list, addr, i)
    BY <1>2
  <2>2. f = [i \in 0..n |-> KeepStep(f, list, addr, i)]
    BY <2>1
  <2> QED BY <2>2
<1>4. Without(list, addr) = k[n]
  BY DEF Without, KeepStep
<1> HIDE DEF k
<1>5. \A i \in 0..n : k[i] = KeepStep(k, list, addr, i)
  BY <1>3
<1>6. \A i \in 0..n : k[i] \in Seq(S)
  <2> DEFINE P == {m \in Nat : m <= n => k[m] \in Seq(S)}
  <2>1. 0 \in P
    <3>1. k[0] = <<>>
      BY <1>1, <1>5 DEF KeepStep
    <3>2. <<>> \in Seq(S)
      OBVIOUS
    <3> QED BY <3>1, <3>2
  <2>2. ASSUME NEW m \in Nat, m \in P PROVE m + 1 \in P
    <3> SUFFICES ASSUME m + 1 <= n PROVE k[m + 1] \in Seq(S)
      OBVIOUS
    <3>1. k[m] \in Seq(S) /\ list[m + 1] \in S /\ (m + 1) - 1 = m /\ m + 1 # 0 /\ m + 1 \in 0..n
      BY <1>1, <2>2
    <3>2. k[m + 1] = IF list[m + 1] = addr THEN k[m] ELSE Append(k[m], list[m + 1])
      BY <1>5, <3>1 DEF KeepStep
    <3> QED BY <3>1, <3>2
  <2> HIDE DEF P
  <2>3. Nat \subseteq P
    BY <2>1, <2>2, Induction
  <2> QED BY <1>1, <2>3 DEF P
<1>7. k \in [0..n -> Seq(S)]
  BY <1>3, <1>6
<1> QED BY <1>4, <1>5, <1>7

\* What is left is no longer, holds nothing new, and repeats nothing if the list
\* repeated nothing.
LEMMA WithoutShrinks ==
  ASSUME NEW S, NEW list \in Seq(S), NEW addr
  PROVE  /\ Without(list, addr) \in Seq(S)
         /\ Len(Without(list, addr)) <= Len(list)
         /\ IsInjective(list) => IsInjective(Without(list, addr))
<1> DEFINE n == Len(list)
<1>1. n \in Nat /\ \A i \in 1..n : list[i] \in S
  OBVIOUS
<1>2. PICK k \in [0..n -> Seq(S)] :
        /\ Without(list, addr) = k[n]
        /\ \A i \in 0..n : k[i] = KeepStep(k, list, addr, i)
  BY WithoutUnfolds
<1> DEFINE Short(i) == Len(k[i]) <= i
           Old(i) == \A x \in 1..Len(k[i]) : \E j \in 1..i : k[i][x] = list[j]
           Once(i) == IsInjective(list) => \A x, y \in 1..Len(k[i]) : k[i][x] = k[i][y] => x = y
           P == {m \in Nat : m <= n => Short(m) /\ Old(m) /\ Once(m)}
<1>3. 0 \in P
  <2>1. k[0] = <<>>
    BY <1>1, <1>2 DEF KeepStep
  <2>2. Len(k[0]) = 0
    BY <2>1
  <2> QED BY <2>2
<1>4. ASSUME NEW m \in Nat, m \in P PROVE m + 1 \in P
  <2> SUFFICES ASSUME m + 1 <= n PROVE Short(m + 1) /\ Old(m + 1) /\ Once(m + 1)
    OBVIOUS
  <2>1. m <= n /\ m \in 0..n /\ m + 1 \in 0..n /\ (m + 1) - 1 = m /\ m + 1 # 0 /\ m + 1 \in 1..n
    BY <1>1
  <2>2. Short(m) /\ Old(m) /\ Once(m)
    BY <1>4, <2>1
  <2>3. k[m] \in Seq(S) /\ k[m + 1] \in Seq(S) /\ list[m + 1] \in S
    BY <1>1, <2>1
  <2>4. k[m + 1] = IF list[m + 1] = addr THEN k[m] ELSE Append(k[m], list[m + 1])
    BY <1>2, <2>1 DEF KeepStep
  <2>5. CASE list[m + 1] = addr
    <3>1. k[m + 1] = k[m]
      BY <2>4, <2>5
    <3>2. Short(m + 1)
      BY <2>2, <2>3, <3>1
    <3>3. Old(m + 1)
      BY <2>1, <2>2, <2>3, <3>1
    <3> QED BY <2>2, <3>1, <3>2, <3>3
  <2>6. CASE list[m + 1] # addr
    <3>1. k[m + 1] = Append(k[m], list[m + 1])
      BY <2>4, <2>6
    <3>2. /\ Len(k[m + 1]) = Len(k[m]) + 1
          /\ k[m + 1][Len(k[m]) + 1] = list[m + 1]
          /\ \A x \in 1..Len(k[m]) : k[m + 1][x] = k[m][x]
          /\ Len(k[m]) \in Nat
      BY <2>3, <3>1
    <3>3. \A x \in 1..Len(k[m + 1]) : x = Len(k[m]) + 1 \/ x \in 1..Len(k[m])
      BY <3>2
    <3>4. Short(m + 1)
      BY <2>2, <3>2
    <3>5. Old(m + 1)
      <4>1. ASSUME NEW x \in 1..Len(k[m]) PROVE \E j \in 1..(m + 1) : k[m + 1][x] = list[j]
        <5>1. PICK j \in 1..m : k[m][x] = list[j]
          BY <2>2
        <5>2. j \in 1..(m + 1)
          OBVIOUS
        <5> QED BY <3>2, <5>1, <5>2
      <4>2. m + 1 \in 1..(m + 1)
        OBVIOUS
      <4> QED BY <3>2, <3>3, <4>1, <4>2
    <3>6. Once(m + 1)
      <4> SUFFICES ASSUME IsInjective(list),
                          NEW x \in 1..Len(k[m + 1]), NEW y \in 1..Len(k[m + 1]),
                          k[m + 1][x] = k[m + 1][y]
                   PROVE  x = y
        OBVIOUS
      <4>1. ASSUME NEW z \in 1..Len(k[m]) PROVE k[m + 1][z] # list[m + 1]
        <5>1. PICK j \in 1..m : k[m][z] = list[j]
          BY <2>2
        <5>2. j \in DOMAIN list /\ m + 1 \in DOMAIN list /\ j # m + 1
          BY <1>1, <2>1
        <5> QED BY <3>2, <5>1, <5>2 DEF IsInjective
      <4>2. CASE x \in 1..Len(k[m]) /\ y \in 1..Len(k[m])
        BY <2>2, <3>2, <4>2
      <4>3. CASE x = Len(k[m]) + 1 \/ y = Len(k[m]) + 1
        BY <3>2, <3>3, <4>1, <4>3
      <4> QED BY <3>3, <4>2, <4>3
    <3> QED BY <3>4, <3>5, <3>6
  <2> QED BY <2>5, <2>6
<1>5. Short(n) /\ Once(n)
  <2> HIDE DEF P
  <2>1. n \in P
    BY <1>1, <1>3, <1>4, Induction
  <2> QED BY <1>1, <2>1 DEF P
<1>6. k[n] \in Seq(S)
  BY <1>1, <1>2
<1>7. DOMAIN k[n] = 1..Len(k[n])
  BY <1>6
<1> QED BY <1>2, <1>5, <1>6, <1>7 DEF IsInjective

-----------------------------------------------------------------------------
(* remember_bootstrap and remember_discovered.                             *)

\* The list with a new address at its end; the oldest makes room at the limit.
Pushed(list, addr, limit) == Append(IF Len(list) >= limit THEN Tail(list) ELSE list, addr)

\* A push keeps a list within its limit and repeats nothing that it did not repeat.
LEMMA PushedIsBounded ==
  ASSUME NEW S, NEW list \in Seq(S), NEW addr \in S, NEW limit \in Nat \ {0},
         Len(list) <= limit, ~Contains(list, addr)
  PROVE  /\ Pushed(list, addr, limit) \in Seq(S) \ {<<>>}
         /\ Len(Pushed(list, addr, limit)) <= limit
         /\ IsInjective(list) => IsInjective(Pushed(list, addr, limit))
         /\ Repeated(Pushed(list, addr, limit)) \subseteq Repeated(list)
<1> DEFINE rest == IF Len(list) >= limit THEN Tail(list) ELSE list
           off == IF Len(list) >= limit THEN 1 ELSE 0
           new == Append(rest, addr)
<1>1. Len(list) \in Nat /\ DOMAIN list = 1..Len(list)
  OBVIOUS
<1>2. /\ rest \in Seq(S) /\ Len(rest) + 1 <= limit /\ Len(rest) \in Nat /\ off \in Nat
      /\ \A x \in 1..Len(rest) : x + off \in DOMAIN list /\ rest[x] = list[x + off]
  <2>1. CASE Len(list) >= limit
    <3>1. list # <<>> /\ off = 1
      BY <2>1
    <3>2. /\ rest \in Seq(S) /\ Len(rest) = Len(list) - 1
          /\ \A x \in 1..Len(rest) : x + 1 \in 1..Len(list) /\ rest[x] = list[x + 1]
      BY <1>1, <2>1, <3>1
    <3> HIDE DEF rest, off
    <3> QED BY <1>1, <2>1, <3>1, <3>2
  <2>2. CASE ~(Len(list) >= limit)
    <3>1. rest = list /\ off = 0
      BY <2>2
    <3> HIDE DEF rest, off
    <3> QED BY <1>1, <2>2, <3>1
  <2> QED BY <2>1, <2>2
<1>3. Pushed(list, addr, limit) = new
  BY DEF Pushed
<1> HIDE DEF rest, off
<1>4. \A x \in 1..Len(rest) : rest[x] # addr
  BY <1>2 DEF Contains
<1>5. /\ new \in Seq(S) /\ Len(new) = Len(rest) + 1 /\ DOMAIN new = 1..(Len(rest) + 1)
      /\ new[Len(rest) + 1] = addr /\ \A x \in 1..Len(rest) : new[x] = rest[x]
  BY <1>2
<1> HIDE DEF new
<1>6. ASSUME NEW x \in DOMAIN new, NEW y \in DOMAIN new, new[x] = new[y], x # y
      PROVE  /\ x + off \in DOMAIN list /\ y + off \in DOMAIN list /\ x + off # y + off
             /\ list[x + off] = list[y + off] /\ new[x] = list[x + off]
  <2>1. /\ x = Len(rest) + 1 \/ x \in 1..Len(rest)
        /\ y = Len(rest) + 1 \/ y \in 1..Len(rest)
    BY <1>2, <1>5
  <2>2. x \in 1..Len(rest) /\ y \in 1..Len(rest)
    BY <1>4, <1>5, <1>6, <2>1
  <2>3. x + off # y + off
    BY <1>2, <1>6, <2>2
  <2> QED BY <1>2, <1>5, <1>6, <2>2, <2>3
<1>7. IsInjective(list) => IsInjective(new)
  BY <1>6 DEF IsInjective
<1>8. Repeated(new) \subseteq Repeated(list)
  <2> SUFFICES ASSUME NEW x \in DOMAIN new, NEW y \in DOMAIN new \ {x}, new[y] = new[x]
               PROVE  new[x] \in Repeated(list)
    BY DEF Repeated
  <2> DEFINE u == x + off
             v == y + off
  <2>1. u \in DOMAIN list /\ v \in DOMAIN list \ {u} /\ list[v] = list[u] /\ new[x] = list[u]
    BY <1>6
  <2> HIDE DEF u, v
  <2> QED BY <2>1 DEF Repeated
<1>9. new # <<>>
  BY <1>2, <1>5
<1> QED BY <1>2, <1>3, <1>5, <1>7, <1>8, <1>9

\* Before finiteness is added, WithinBounds says nothing of an infinite set of
\* known peers, which has no cardinality.
BoundedInv == WithinBounds /\ IsFiniteSet(Known(discovered))

\* remember_discovered makes room in a full list and knows no peer too many.
LEMMA RememberKeepsBounds ==
  ASSUME BoundedInv, NEW r \in Found, r.peer # Local
  PROVE  LET d == remember_discovered(discovered, r) IN
         /\ d \in [Peer -> Seq(Addr)]
         /\ IsFiniteSet(Known(d)) /\ Cardinality(Known(d)) <= MAX_DISCOVERED_PEERS
         /\ \A p \in Peer : Len(d[p]) <= MAX_DISCOVERED_ADDRS /\ IsInjective(d[p])
<1> DEFINE d == remember_discovered(discovered, r)
           old == discovered[r.peer]
           new == Pushed(old, r.addr, MAX_DISCOVERED_ADDRS)
<1>1. r.peer \in Peer /\ r.addr \in Addr
  BY InputAssumption
<1>2. /\ discovered \in [Peer -> Seq(Addr)]
      /\ \A p \in Peer : Len(discovered[p]) <= MAX_DISCOVERED_ADDRS /\ IsInjective(discovered[p])
      /\ Cardinality(Known(discovered)) <= MAX_DISCOVERED_PEERS /\ IsFiniteSet(Known(discovered))
  BY DEF BoundedInv, WithinBounds, TypeOK
<1>3. CASE ~Learns(discovered, r)
  BY <1>2, <1>3 DEF remember_discovered
<1>4. CASE Learns(discovered, r)
  <2>1. d = [discovered EXCEPT ![r.peer] = new]
    BY <1>1, <1>2, <1>4 DEF remember_discovered, Pushed
  <2>2. /\ new \in Seq(Addr) \ {<<>>}
        /\ Len(new) <= MAX_DISCOVERED_ADDRS /\ IsInjective(new)
    <3>1. /\ old \in Seq(Addr) /\ Len(old) <= MAX_DISCOVERED_ADDRS /\ IsInjective(old)
          /\ ~Contains(old, r.addr)
      BY <1>1, <1>2, <1>4 DEF Learns
    <3>2. MAX_DISCOVERED_ADDRS \in Nat \ {0}
      BY LimitAssumption
    <3> QED BY <1>1, <3>1, <3>2, PushedIsBounded
  <2> HIDE DEF d, new
  <2>3. /\ d \in [Peer -> Seq(Addr)]
        /\ d[r.peer] = new /\ \A p \in Peer \ {r.peer} : d[p] = discovered[p]
    BY <1>1, <1>2, <2>1, <2>2
  <2>4. Known(d) = Known(discovered) \cup {r.peer}
    BY <1>1, <2>2, <2>3 DEF Known
  <2>5. IsFiniteSet(Known(d)) /\ Cardinality(Known(d)) <= MAX_DISCOVERED_PEERS
    <3>1. CASE r.peer \in Known(discovered)
      <4>1. Known(d) = Known(discovered)
        BY <2>4, <3>1
      <4> QED BY <1>2, <4>1
    <3>2. CASE r.peer \notin Known(discovered)
      <4>1. Cardinality(Known(discovered)) < MAX_DISCOVERED_PEERS
        BY <1>4, <3>2 DEF Learns
      <4>2. /\ IsFiniteSet(Known(d)) /\ Cardinality(Known(d)) = Cardinality(Known(discovered)) + 1
        BY <1>2, <2>4, <3>2, FS_AddElement
      <4>3. Cardinality(Known(discovered)) \in Nat
        BY <1>2, FS_CardinalityType
      <4> QED BY <4>1, <4>2, <4>3, LimitAssumption
    <3> QED BY <3>1, <3>2
  <2>6. \A p \in Peer : Len(d[p]) <= MAX_DISCOVERED_ADDRS /\ IsInjective(d[p])
    BY <1>2, <2>2, <2>3
  <2> QED BY <2>3, <2>5, <2>6 DEF d
<1> QED BY <1>3, <1>4

\* forget_discovered only shortens one list.
LEMMA ForgetKeepsBounds ==
  ASSUME BoundedInv, NEW r \in Found, r.peer # Local
  PROVE  LET d == [discovered EXCEPT ![r.peer] = Without(@, r.addr)] IN
         /\ d \in [Peer -> Seq(Addr)]
         /\ IsFiniteSet(Known(d)) /\ Cardinality(Known(d)) <= MAX_DISCOVERED_PEERS
         /\ \A p \in Peer : Len(d[p]) <= MAX_DISCOVERED_ADDRS /\ IsInjective(d[p])
<1> DEFINE old == discovered[r.peer]
           new == Without(old, r.addr)
           d == [discovered EXCEPT ![r.peer] = new]
<1>1. r.peer \in Peer
  BY InputAssumption
<1>2. /\ discovered \in [Peer -> Seq(Addr)]
      /\ \A p \in Peer : Len(discovered[p]) <= MAX_DISCOVERED_ADDRS /\ IsInjective(discovered[p])
      /\ Cardinality(Known(discovered)) <= MAX_DISCOVERED_PEERS /\ IsFiniteSet(Known(discovered))
  BY DEF BoundedInv, WithinBounds, TypeOK
<1>3. old \in Seq(Addr) /\ Len(old) <= MAX_DISCOVERED_ADDRS /\ IsInjective(old)
  BY <1>1, <1>2
<1>4. new \in Seq(Addr) /\ Len(new) <= Len(old) /\ IsInjective(new)
  BY <1>3, WithoutShrinks
<1>5. Len(new) <= MAX_DISCOVERED_ADDRS
  BY <1>3, <1>4, LimitAssumption
<1>6. [discovered EXCEPT ![r.peer] = Without(@, r.addr)] = d
  BY <1>1, <1>2
<1>7. old = <<>> => new = <<>>
  BY <1>3, <1>4
<1> HIDE DEF new
<1>8. /\ d \in [Peer -> Seq(Addr)]
      /\ d[r.peer] = new /\ \A p \in Peer \ {r.peer} : d[p] = discovered[p]
  BY <1>1, <1>2, <1>4
<1> HIDE DEF d
<1>9. Known(d) \subseteq Known(discovered)
  BY <1>1, <1>7, <1>8 DEF Known
<1>10. IsFiniteSet(Known(d)) /\ Cardinality(Known(d)) <= MAX_DISCOVERED_PEERS
  <2>1. IsFiniteSet(Known(d)) /\ Cardinality(Known(d)) <= Cardinality(Known(discovered))
    BY <1>2, <1>9, FS_Subset
  <2>2. Cardinality(Known(d)) \in Nat /\ Cardinality(Known(discovered)) \in Nat
    BY <1>2, <2>1, FS_CardinalityType
  <2> QED BY <1>2, <2>1, <2>2, LimitAssumption
<1>11. \A p \in Peer : Len(d[p]) <= MAX_DISCOVERED_ADDRS /\ IsInjective(d[p])
  BY <1>2, <1>4, <1>5, <1>8
<1> QED BY <1>6, <1>8, <1>10, <1>11

\* remember_bootstrap keeps the re-dial list within its limit and repeats nothing
\* that it did not repeat.
LEMMA BootstrapKeepsBounds ==
  ASSUME BoundedInv, NEW addr \in Addr
  PROVE  LET list == remember_bootstrap(bootstrap, addr) IN
         /\ list \in Seq(Addr) /\ Len(list) <= MAX_BOOTSTRAP
         /\ Repeated(list) \subseteq Repeated(bootstrap)
<1>1. /\ bootstrap \in Seq(Addr) /\ Len(bootstrap) <= MAX_BOOTSTRAP
      /\ MAX_BOOTSTRAP \in Nat \ {0}
  BY LimitAssumption DEF BoundedInv, WithinBounds, TypeOK
<1>2. CASE Contains(bootstrap, addr)
  BY <1>1, <1>2 DEF remember_bootstrap
<1>3. CASE ~Contains(bootstrap, addr)
  <2>1. remember_bootstrap(bootstrap, addr) = Pushed(bootstrap, addr, MAX_BOOTSTRAP)
    BY <1>3 DEF remember_bootstrap, Pushed
  <2> QED BY <1>1, <1>3, <2>1, PushedIsBounded
<1> QED BY <1>2, <1>3

-----------------------------------------------------------------------------
(* The invariant.                                                          *)

\* What a set of discovered addresses may be dialed is made of addresses.
LEMMA ListsHoldAddresses ==
  ASSUME NEW list \in Seq(Addr)
  PROVE  ToSet(list) \subseteq Addr
BY DEF ToSet

\* The configured list, cut off at the limit, is within it.
LEMMA BoundedAtStart == Init => BoundedInv
<1> SUFFICES ASSUME Init PROVE BoundedInv
  OBVIOUS
<1>1. PICK list \in StartLists :
        /\ bootstrap = SubSeq(list, 1, IF Len(list) < MAX_BOOTSTRAP THEN Len(list) ELSE MAX_BOOTSTRAP)
        /\ dialing = ToSet(list)
  BY DEF Init
<1>2. list \in Seq(Addr) /\ Len(list) \in Nat
  BY StartAssumption
<1> DEFINE m == IF Len(list) < MAX_BOOTSTRAP THEN Len(list) ELSE MAX_BOOTSTRAP
<1>3. m \in Nat /\ m <= Len(list) /\ m <= MAX_BOOTSTRAP
  BY <1>2, LimitAssumption
<1> HIDE DEF m
<1>4. /\ bootstrap \in Seq(Addr) /\ Len(bootstrap) = m /\ DOMAIN bootstrap = 1..m
      /\ \A i \in 1..m : bootstrap[i] = list[i] /\ i \in DOMAIN list
  BY <1>1, <1>2, <1>3 DEF m
<1>5. Len(bootstrap) <= MAX_BOOTSTRAP
  BY <1>3, <1>4
<1>6. dialing \subseteq Addr
  BY <1>1, <1>2, ListsHoldAddresses
<1>7. \A p \in Peer : discovered[p] = <<>> /\ Len(discovered[p]) = 0 /\ IsInjective(discovered[p])
  BY DEF Init, IsInjective
<1>8. IsFiniteSet(Known(discovered)) /\ Cardinality(Known(discovered)) = 0
  <2>1. Known(discovered) = {}
    BY <1>7 DEF Known
  <2> QED BY <2>1, FS_EmptySet
<1>9. discovered \in [Peer -> Seq(Addr)] /\ cmds \in Seq(Addr)
  BY DEF Init
<1> QED BY <1>4, <1>5, <1>6, <1>7, <1>8, <1>9, LimitAssumption DEF Init, BoundedInv, WithinBounds, TypeOK

\* Every step keeps both lists within their limits.
LEMMA BoundedStep == BoundedInv /\ [Next]_vars => BoundedInv'
<1> SUFFICES ASSUME BoundedInv, [Next]_vars PROVE BoundedInv'
  OBVIOUS
<1> USE DEF BoundedInv, WithinBounds, TypeOK
<1>1. ASSUME NEW seed \in Seeds, AddPeers(seed) PROVE BoundedInv'
  <2>1. seed \in Seq(Addr)
    BY InputAssumption
  <2>2. cmds' \in Seq(Addr)
    BY <1>1, <2>1 DEF AddPeers
  <2> QED BY <1>1, <2>2 DEF AddPeers, Known
<1>2. ASSUME NEW new \in SUBSET Peer, SetAuthorized(new) PROVE BoundedInv'
  BY <1>2 DEF SetAuthorized, Known
<1>3. CASE HandleDial
  <2>1. Head(cmds) \in Addr /\ cmds' \in Seq(Addr)
    BY <1>3 DEF HandleDial
  <2>2. bootstrap' \in Seq(Addr) /\ Len(bootstrap') <= MAX_BOOTSTRAP
    <3>1. bootstrap' = remember_bootstrap(bootstrap, Head(cmds))
      BY <1>3 DEF HandleDial
    <3> HIDE DEF BoundedInv
    <3> QED BY <2>1, <3>1, BootstrapKeepsBounds
  <2>3. dialing' \subseteq Addr
    BY <1>3, <2>1 DEF HandleDial, DialAddr, Dial
  <2> QED BY <1>3, <2>1, <2>2, <2>3 DEF HandleDial, Known
<1>4. CASE RedialTick
  <2>1. {bootstrap[i] : i \in Redialed} \subseteq Addr
    BY DEF Redialed, redial_targets
  <2>2. \A p \in discovery_targets : ToSet(discovered[p]) \subseteq Addr
    BY ListsHoldAddresses DEF discovery_targets, DiscoveryDue, Known
  <2>3. dialing' \subseteq Addr
    BY <1>4, <2>1, <2>2 DEF RedialTick
  <2> QED BY <1>4, <2>3 DEF RedialTick, Known
<1>5. ASSUME NEW r \in Found, Discovered(r) PROVE BoundedInv'
  <2>1. /\ discovered' \in [Peer -> Seq(Addr)]
        /\ IsFiniteSet(Known(discovered')) /\ Cardinality(Known(discovered')) <= MAX_DISCOVERED_PEERS
        /\ \A p \in Peer : Len(discovered'[p]) <= MAX_DISCOVERED_ADDRS /\ IsInjective(discovered'[p])
    <3>1. r.peer # Local /\ discovered' = remember_discovered(discovered, r)
      BY <1>5 DEF Discovered
    <3> HIDE DEF BoundedInv
    <3> QED BY <3>1, RememberKeepsBounds
  <2>2. dialing' \subseteq Addr
    <3>1. r.peer \in Peer
      BY <1>5, InputAssumption DEF Discovered
    <3>2. ToSet(discovered'[r.peer]) \subseteq Addr
      BY <2>1, <3>1, ListsHoldAddresses
    <3> QED BY <1>5, <3>2 DEF Discovered, Dial
  <2> QED BY <1>5, <2>1, <2>2 DEF Discovered, Known
<1>6. ASSUME NEW r \in Found, Expired(r) PROVE BoundedInv'
  <2>1. /\ discovered' \in [Peer -> Seq(Addr)]
        /\ IsFiniteSet(Known(discovered')) /\ Cardinality(Known(discovered')) <= MAX_DISCOVERED_PEERS
        /\ \A p \in Peer : Len(discovered'[p]) <= MAX_DISCOVERED_ADDRS /\ IsInjective(discovered'[p])
    <3>1. r.peer # Local /\ discovered' = [discovered EXCEPT ![r.peer] = Without(@, r.addr)]
      BY <1>6 DEF Expired
    <3> HIDE DEF BoundedInv
    <3> QED BY <3>1, ForgetKeepsBounds
  <2> QED BY <1>6, <2>1 DEF Expired, Known
<1>7. ASSUME NEW a \in Addr, DialSucceeds(a) PROVE BoundedInv'
  BY <1>7 DEF DialSucceeds, Answers, Known
<1>8. ASSUME NEW a \in Addr, DialFails(a) PROVE BoundedInv'
  BY <1>8 DEF DialFails, Known
<1>9. ASSUME NEW p \in Peer, Identify(p) PROVE BoundedInv'
  BY <1>9 DEF Identify, Known
<1>10. ASSUME NEW p \in Peer, Incoming(p) PROVE BoundedInv'
  BY <1>10 DEF Incoming, Known
<1>11. ASSUME NEW p \in Peer, Lose(p) PROVE BoundedInv'
  BY <1>11 DEF Lose, Known
<1>12. ASSUME NEW p \in Peer, Toggle(p) PROVE BoundedInv'
  BY <1>12 DEF Toggle, Known
<1>13. CASE UNCHANGED vars
  BY <1>13 DEF vars, Known
<1> QED
  BY <1>1, <1>2, <1>3, <1>4, <1>5, <1>6, <1>7, <1>8, <1>9, <1>10, <1>11, <1>12, <1>13 DEF Next

\* No step lists an address once more that is listed.
LEMMA RepeatsNothingNew ==
  BoundedInv /\ [Next]_vars => Repeated(bootstrap') \subseteq Repeated(bootstrap)
<1> SUFFICES ASSUME BoundedInv, [Next]_vars
             PROVE  Repeated(bootstrap') \subseteq Repeated(bootstrap)
  OBVIOUS
<1>1. CASE HandleDial
  <2>1. Head(cmds) \in Addr
    BY <1>1 DEF HandleDial, BoundedInv, WithinBounds, TypeOK
  <2>2. bootstrap' = remember_bootstrap(bootstrap, Head(cmds))
    BY <1>1 DEF HandleDial
  <2> QED BY <2>1, <2>2, BootstrapKeepsBounds
<1>2. CASE UNCHANGED bootstrap
  BY <1>2
<1> QED BY <1>1, <1>2
        DEF Next, vars, AddPeers, SetAuthorized, RedialTick, Discovered, Expired, DialSucceeds,
            DialFails, Identify, Incoming, Lose, Toggle

\* However many seeds, repeated addresses, mDNS records and expiries come, and in
\* whatever order: no list outgrows its limit, no discovered address is listed twice,
\* and no bootstrap address that was not configured twice.
THEOREM ListsBoundedHolds == Spec => ListsBounded
<1>1. BoundedInv => WithinBounds
  BY DEF BoundedInv
<1>2. BoundedInv /\ [Next]_vars => [Repeated(bootstrap') \subseteq Repeated(bootstrap)]_vars
  BY RepeatsNothingNew
<1> QED BY <1>1, <1>2, BoundedAtStart, BoundedStep, PTL DEF Spec, ListsBounded

-----------------------------------------------------------------------------
(* What one tick of the timer dials.                                       *)

\* A finite set of numbers is bounded.
LEMMA FiniteIsBounded ==
  ASSUME NEW S \in SUBSET Nat, IsFiniteSet(S)
  PROVE  \E u \in Nat : \A x \in S : x <= u
<1> DEFINE Bounded(A) == \E u \in Nat : \A x \in A : x <= u
           P == {n \in Nat : \A A \in SUBSET Nat : IsFiniteSet(A) /\ Cardinality(A) = n => Bounded(A)}
<1>1. 0 \in P
  <2>1. ASSUME NEW A \in SUBSET Nat, IsFiniteSet(A), Cardinality(A) = 0 PROVE Bounded(A)
    <3>1. A = {}
      BY <2>1, FS_EmptySet
    <3> QED BY <3>1
  <2> QED BY <2>1
<1>2. ASSUME NEW n \in Nat, n \in P PROVE n + 1 \in P
  <2>1. ASSUME NEW A \in SUBSET Nat, IsFiniteSet(A), Cardinality(A) = n + 1 PROVE Bounded(A)
    <3>1. PICK a : a \in A
      BY <2>1, FS_EmptySet
    <3>2. IsFiniteSet(A \ {a}) /\ Cardinality(A \ {a}) = n
      <4>1. IsFiniteSet(A \ {a}) /\ Cardinality(A \ {a}) = Cardinality(A) - 1
        BY <2>1, <3>1, FS_RemoveElement
      <4>2. (n + 1) - 1 = n
        OBVIOUS
      <4> QED BY <2>1, <4>1, <4>2
    <3>3. PICK u \in Nat : \A x \in A \ {a} : x <= u
      BY <1>2, <3>2
    <3> DEFINE v == u + a
    <3>4. v \in Nat /\ \A x \in A : x <= v
      BY <3>1, <3>3
    <3> QED BY <3>4
  <2> QED BY <2>1
<1> HIDE DEF P
<1>3. Cardinality(S) \in P
  BY <1>1, <1>2, Induction, FS_CardinalityType
<1> QED BY <1>3 DEF P

\* Of a finite set of numbers, at most M have fewer than M smaller ones.
LEMMA FirstFew ==
  ASSUME NEW S \in SUBSET Nat, IsFiniteSet(S), NEW M \in Nat,
         NEW T \in SUBSET S, \A i \in T : Cardinality({j \in S : j < i}) < M
  PROVE  IsFiniteSet(T) /\ Cardinality(T) <= M
<1>1. IsFiniteSet(T)
  BY FS_Subset
<1>2. Cardinality(T) \in Nat
  BY <1>1, FS_CardinalityType
<1>3. CASE T = {}
  <2>1. Cardinality(T) = 0
    BY <1>3, FS_EmptySet
  <2> QED BY <1>1, <2>1
<1>4. CASE T # {}
  <2>1. PICK top \in T : \A j \in T : j <= top
    <3>1. PICK u \in Nat : \A x \in S : x <= u
      BY FiniteIsBounded
    <3> DEFINE Upper == {m \in Nat : \A i \in T : i <= m}
    <3>2. u \in Upper
      BY <3>1
    <3>3. PICK m \in Upper : \A k \in Upper : ~(k < m)
      <4> HIDE DEF Upper
      <4>1. Upper \subseteq Nat
        BY DEF Upper
      <4>2. PICK m \in Upper : \A k \in Upper : ~(<<k, m>> \in OpToRel(<, Nat))
        BY <3>2, <4>1, NatLessThanWellFounded, WFMin
      <4> QED BY <4>1, <4>2 DEF OpToRel
    <3>4. m \in T
      <4> SUFFICES ASSUME m \notin T PROVE FALSE
        OBVIOUS
      <4>1. m \in Nat /\ \A i \in T : i \in Nat /\ i <= m /\ i # m
        BY <3>3
      <4>2. m \in Nat /\ m # 0
        <5>1. PICK i : i \in T
          BY <1>4
        <5> QED BY <4>1, <5>1
      <4>3. m - 1 \in Upper
        BY <4>1, <4>2
      <4> QED BY <3>3, <4>2, <4>3
    <3> QED BY <3>3, <3>4
  <2> DEFINE below == {j \in S : j < top}
  <2>2. IsFiniteSet(below) /\ Cardinality(below) \in Nat /\ Cardinality(below) < M
    <3>1. below \subseteq S /\ Cardinality(below) < M
      BY <2>1
    <3> HIDE DEF below
    <3> QED BY <3>1, FS_Subset, FS_CardinalityType
  <2>3. T \ {top} \subseteq below
    BY <2>1
  <2>4. Cardinality(T \ {top}) <= Cardinality(below)
    BY <2>2, <2>3, FS_Subset
  <2>5. Cardinality(T \ {top}) = Cardinality(T) - 1
    BY <1>1, <2>1, FS_RemoveElement
  <2> HIDE DEF below
  <2> QED BY <1>1, <1>2, <2>2, <2>4, <2>5
<1> QED BY <1>3, <1>4

\* A tick picks at most MAX_REDIAL_PER_TICK addresses of the bootstrap list and as
\* many discovered peers, however long the lists are and whoever is away.
TickIsBounded ==
  /\ Cardinality(redial_targets) <= MAX_REDIAL_PER_TICK
  /\ Cardinality(discovery_targets) <= MAX_REDIAL_PER_TICK

\* No tick picks more than MAX_REDIAL_PER_TICK targets of either kind
\* (redial_targets, discovery_targets).
THEOREM TickIsBoundedHolds == Spec => []TickIsBounded
<1>1. ASSUME BoundedInv PROVE TickIsBounded
  <2>1. Cardinality(redial_targets) <= MAX_REDIAL_PER_TICK
    <3> DEFINE D == {i \in DOMAIN bootstrap : Due(bootstrap[i])}
    <3>1. bootstrap \in Seq(Addr) /\ DOMAIN bootstrap = 1..Len(bootstrap) /\ Len(bootstrap) \in Nat
      BY <1>1 DEF BoundedInv, WithinBounds, TypeOK
    <3>2. IsFiniteSet(D) /\ D \subseteq Nat
      <4>1. IsFiniteSet(1..Len(bootstrap))
        BY <3>1, FS_Interval
      <4> QED BY <3>1, <4>1, FS_Subset
    <3>3. ASSUME NEW i \in D PROVE DueBefore(i) = {j \in D : j < i}
      BY <3>1 DEF DueBefore
    <3>4. redial_targets = {i \in D : Cardinality({j \in D : j < i}) < MAX_REDIAL_PER_TICK}
      BY <3>3 DEF redial_targets
    <3> HIDE DEF D
    <3> QED BY <3>2, <3>4, FirstFew, LimitAssumption
  <2>2. Cardinality(discovery_targets) <= MAX_REDIAL_PER_TICK
    <3>1. DiscoveryDue \subseteq Known(discovered) /\ DiscoveryDue \subseteq Nat
      BY PeerAssumption DEF DiscoveryDue, Known
    <3>2. IsFiniteSet(DiscoveryDue)
      BY <1>1, <3>1, FS_Subset DEF BoundedInv
    <3> QED BY <3>1, <3>2, FirstFew, LimitAssumption DEF discovery_targets
  <2> QED BY <2>1, <2>2 DEF TickIsBounded
<1> QED BY <1>1, BoundedAtStart, BoundedStep, PTL DEF Spec

\* A tick leaves no peer in reach that is away without a dial: the step that the
\* liveness of the redial rests on.  Of the peers in the bootstrap list those within
\* the first MAX_REDIAL_PER_TICK due ones are in reach, of the discovered peers the
\* authorized ones with the smallest ids.
TickDials ==
  RedialTick =>
    /\ \A p \in Peer \ connected : InReach(p) => Dialing(dialing', p)
    /\ \A p \in discovery_targets :
         Dialing(dialing', p) \/ ToSet(discovered[p]) \subseteq dialing'

\* After every tick each peer in reach that is away is being dialed (the redial
\* branch of swarm_loop).
THEOREM TickDialsHolds == Spec => [][TickDials]_vars
<1>1. ASSUME BoundedInv, RedialTick PROVE TickDials
  <2> DEFINE first == dialing \cup {bootstrap[i] : i \in Redialed}
  <2>1. first \subseteq dialing'
    BY <1>1 DEF RedialTick
  <2>2. ASSUME NEW p \in Peer \ connected, InReach(p) PROVE Dialing(dialing', p)
    <3>1. PICK i \in DOMAIN bootstrap :
            /\ PeerOf[bootstrap[i]] = p
            /\ \A j \in 1..(i - 1) : PeerOf[bootstrap[j]] # p
            /\ Cardinality(DueBefore(i)) < MAX_REDIAL_PER_TICK
      BY <2>2 DEF InReach
    <3>2. p # NoPeer
      BY PeerAssumption
    <3>3. i \in redial_targets
      BY <3>1, <3>2 DEF redial_targets, Due
    <3>4. CASE Dialing(dialing, p)
      BY <2>1, <3>4 DEF Dialing
    <3>5. CASE ~Dialing(dialing, p)
      <4>1. i \in Redialed
        <5>1. \A j \in redial_targets : j < i => j \in 1..(i - 1)
          BY <1>1 DEF redial_targets, BoundedInv, WithinBounds, TypeOK
        <5> QED BY <3>1, <3>2, <3>3, <3>5, <5>1 DEF Redialed
      <4> QED BY <2>1, <3>1, <4>1 DEF Dialing
    <3> QED BY <3>4, <3>5
  <2>3. ASSUME NEW p \in discovery_targets
        PROVE  Dialing(dialing', p) \/ ToSet(discovered[p]) \subseteq dialing'
    <3>1. CASE Dialing(first, p)
      BY <2>1, <3>1 DEF Dialing
    <3>2. CASE ~Dialing(first, p)
      BY <1>1, <3>2 DEF RedialTick
    <3> QED BY <3>1, <3>2
  <2> QED BY <2>2, <2>3 DEF TickDials
<1>2. BoundedInv => TickDials
  BY <1>1 DEF TickDials
<1> QED BY <1>2, BoundedAtStart, BoundedStep, PTL DEF Spec
=============================================================================
