--------------------------- MODULE ProvenanceProofs ---------------------------
(***************************************************************************)
(* That an edit changes the very cell it was made on, for every database,  *)
(* every query it accepts and every adapter.  What has to be shown of an   *)
(* adapter is that the columns it takes for one read of a table are one    *)
(* factor's of the query; the rest is that a row that keeps what it is     *)
(* found by is the one row found.                                          *)
(***************************************************************************)
EXTENDS Provenance, WellFoundedInduction, FiniteSetTheorems, SequenceTheorems, TLAPS

-----------------------------------------------------------------------------
(* Numbers and sequences *)

LEMMA Least == ASSUME NEW T \in SUBSET Nat, T # {} PROVE \E n \in T : \A m \in T : n <= m
<1>1. PICK n \in T : \A m \in T : ~ (<<m, n>> \in OpToRel(<, Nat))
  BY NatLessThanWellFounded, WFMin, Zenon
<1>2. ASSUME NEW m \in T PROVE n <= m
  <2>1. ~(<<m, n>> \in OpToRel(<, Nat))
    BY <1>1, Zenon
  <2>2. m < n => <<m, n>> \in OpToRel(<, Nat)
    BY DEF OpToRel
  <2>3. ~(m < n)
    BY <2>1, <2>2, Zenon
  <2> QED
    BY <2>3
<1> QED
  BY <1>2

\* A property that passes from each step to the next holds of all.
LEMMA Steps == ASSUME NEW n \in Nat, NEW S, 0 \in S, \A k \in 0..(n - 1) : k \in S => k + 1 \in S
  PROVE n \in S /\ 0..n \subseteq S
<1> DEFINE T == (0..n) \ S
<1>1. CASE T # {}
  <2>0. T \in SUBSET Nat
    OBVIOUS
  <2> HIDE DEF T
  <2>1. PICK k \in T : \A m \in T : k <= m
    BY <1>1, <2>0, Least
  <2> USE DEF T
  <2>2. k - 1 \in 0..(n - 1) /\ k - 1 \in S
    BY <2>1
  <2> QED
    BY <2>1, <2>2
<1> QED
  BY <1>1

LEMMA ListedIs == ASSUME NEW s, Listed(s)
  PROVE  Len(s) \in Nat /\ DOMAIN s = 1..Len(s) /\ s \in Seq({s[i] : i \in 1..Len(s)})
BY DEF Listed

LEMMA ListedOf == ASSUME NEW S, NEW s \in Seq(S) PROVE Listed(s)
BY DEF Listed

\* One sequence after another.
Join(s, t, r) ==
  /\ Listed(r) /\ Len(r) = Len(s) + Len(t)
  /\ \A i \in 1..Len(s) : r[i] = s[i]
  /\ \A i \in 1..Len(t) : r[Len(s) + i] = t[i]

LEMMA Joined == ASSUME NEW s, NEW t, Listed(s), Listed(t) PROVE Join(s, t, s \o t)
<1> DEFINE S == {s[i] : i \in 1..Len(s)} \cup {t[i] : i \in 1..Len(t)}
<1>1. s \in Seq(S) /\ t \in Seq(S)
  BY DEF Listed
<1> HIDE DEF S
<1>2. /\ s \o t \in Seq(S) /\ Len(s \o t) = Len(s) + Len(t)
      /\ \A i \in 1..Len(s) : (s \o t)[i] = s[i]
      /\ \A i \in 1..Len(t) : (s \o t)[Len(s) + i] = t[i]
  BY <1>1
<1> QED
  BY <1>2, ListedOf DEF Join

LEMMA Mapped == ASSUME NEW n \in Nat, NEW s, s = [i \in 1..n |-> s[i]] PROVE Listed(s) /\ Len(s) = n
<1>1. s \in Seq({s[i] : i \in 1..n}) /\ Len(s) = n
  OBVIOUS
<1> QED
  BY <1>1, ListedOf

-----------------------------------------------------------------------------
(* FlattenSeq *)

\* What is joined so far: every element of the first k pieces, each at its offset.
SoFar(s, off, f, k) ==
  /\ Listed(f) /\ Len(f) = off[k]
  /\ \A i \in 1..k : \A j \in 1..Len(s[i]) : off[i - 1] + j \in 1..Len(f) /\ f[off[i - 1] + j] = s[i][j]
  /\ \A p \in 1..Len(f) : \E i \in 1..k : \E j \in 1..Len(s[i]) : p = off[i - 1] + j

LEMMA Further ==
  ASSUME NEW s, NEW off, NEW f, NEW k \in Nat, SoFar(s, off, f, k), Listed(s[k + 1]), off[k] \in Nat,
         off[k + 1] = off[k] + Len(s[k + 1])
  PROVE  SoFar(s, off, f \o s[k + 1], k + 1)
<1>1. PICK g : g = f \o s[k + 1]
  OBVIOUS
<1>2. PICK t : t = s[k + 1]
  OBVIOUS
<1>3. Listed(f) /\ Len(f) = off[k] /\ Listed(t)
  BY <1>2 DEF SoFar
<1>4. /\ Listed(g) /\ Len(g) = Len(f) + Len(t)
      /\ \A i \in 1..Len(f) : g[i] = f[i]
      /\ \A i \in 1..Len(t) : g[Len(f) + i] = t[i]
  <2>1. Join(f, t, f \o t)
    BY <1>3, Joined
  <2>2. g = f \o t
    BY <1>1, <1>2
  <2> QED
    BY <2>1, <2>2 DEF Join
<1>5. Len(f) \in Nat /\ Len(t) \in Nat
  BY <1>3, ListedIs
<1>6. ASSUME NEW i \in 1..(k + 1), NEW j \in 1..Len(s[i])
      PROVE off[i - 1] + j \in 1..Len(g) /\ g[off[i - 1] + j] = s[i][j]
  <2>1. CASE i = k + 1
    <3>1. j \in 1..Len(t) /\ off[i - 1] = Len(f)
      BY <2>1, <1>2, <1>3
    <3> QED
      BY <1>2, <1>4, <1>5, <2>1, <3>1, SMTT(20)
  <2>2. CASE i # k + 1
    <3>1. i \in 1..k
      BY <2>2
    <3>2. off[i - 1] + j \in 1..Len(f) /\ f[off[i - 1] + j] = s[i][j]
      BY <3>1 DEF SoFar
    <3> QED
      BY <3>2, <1>4, <1>5
  <2> QED
    BY <2>1, <2>2
<1>7. ASSUME NEW p \in 1..Len(g) PROVE \E i \in 1..(k + 1) : \E j \in 1..Len(s[i]) : p = off[i - 1] + j
  <2>1. CASE p \in 1..Len(f)
    <3>1. PICK i \in 1..k : \E j \in 1..Len(s[i]) : p = off[i - 1] + j
      BY <2>1 DEF SoFar
    <3> QED
      BY <3>1
  <2>2. CASE p \notin 1..Len(f)
    <3>1. p - Len(f) \in 1..Len(t)
      BY <1>4, <1>5, <2>2
    <3>2. p - Len(f) \in 1..Len(s[k + 1]) /\ off[(k + 1) - 1] = Len(f)
      BY <3>1, <1>2, <1>3
    <3>3. p = off[(k + 1) - 1] + (p - Len(f)) /\ k + 1 \in 1..(k + 1)
      BY <3>2, <1>5
    <3> QED
      BY <3>2, <3>3, Zenon
  <2> QED
    BY <2>1, <2>2
<1>8. Len(g) = off[k + 1]
  BY <1>2, <1>3, <1>4
<1> QED
  BY <1>1, <1>4, <1>6, <1>7, <1>8 DEF SoFar

LEMMA Flat ==
  ASSUME NEW s, Listed(s), \A i \in 1..Len(s) : Listed(s[i])
  PROVE  \E off : /\ off[0] = 0
                  /\ \A i \in 0..Len(s) : off[i] \in Nat
                  /\ \A i \in 1..Len(s) : off[i] = off[i - 1] + Len(s[i])
                  /\ SoFar(s, off, FlattenSeq(s), Len(s))
<1> DEFINE Sum(f, m) == f = [i \in 0..m |-> IF i = 0 THEN 0 ELSE f[i - 1] + Len(s[i])]
           N == Len(s)
<1>0. N \in Nat
  BY ListedIs
<1>1. \E f : Sum(f, N)
  <2> DEFINE S == {m \in Nat : m <= N => \E f : Sum(f, m)}
  <2>1. 0 \in S
    <3> DEFINE g == [i \in 0..0 |-> 0]
    <3>1. Sum(g, 0)
      OBVIOUS
    <3> QED
      BY <3>1
  <2>2. ASSUME NEW k \in 0..(N - 1), k \in S PROVE k + 1 \in S
    <3>1. PICK f : Sum(f, k)
      BY <2>2, <1>0
    <3> DEFINE g == [i \in 0..(k + 1) |-> IF i = k + 1 THEN f[k] + Len(s[k + 1]) ELSE f[i]]
    <3>2. Sum(g, k + 1) /\ k + 1 \in Nat
      BY <3>1
    <3> HIDE DEF Sum, g
    <3> QED
      BY <3>2
  <2>3. \A k \in 0..(N - 1) : k \in S => k + 1 \in S
    BY <2>2
  <2> HIDE DEF S
  <2>4. N \in S
    BY <1>0, <2>1, <2>3, Steps
  <2> QED
    BY <2>4 DEF S
<1>2. PICK off : Sum(off, N)
  BY <1>1
<1>3. off[0] = 0 /\ \A i \in 1..N : off[i] = off[i - 1] + Len(s[i])
  <2>1. 0 \in 0..N /\ \A i \in 1..N : i \in 0..N /\ i # 0
    BY <1>0
  <2> QED
    BY <1>2, <2>1
<1>4. \A i \in 0..N : off[i] \in Nat
  <2> DEFINE S == {m \in 0..N : off[m] \in Nat}
  <2>1. 0 \in S
    BY <1>0, <1>3
  <2>2. ASSUME NEW k \in 0..(N - 1), k \in S PROVE k + 1 \in S
    <3>1. k + 1 \in 1..N /\ off[k + 1] = off[k] + Len(s[k + 1])
      BY <1>0, <1>3
    <3>2. Len(s[k + 1]) \in Nat
      BY <3>1, ListedIs
    <3> QED
      BY <1>0, <2>2, <3>1, <3>2
  <2>3. \A k \in 0..(N - 1) : k \in S => k + 1 \in S
    BY <2>2
  <2> HIDE DEF S
  <2>4. 0..N \subseteq S
    BY <1>0, <2>1, <2>3, Steps
  <2> QED
    BY <2>4 DEF S
<1>5. CASE N = 0
  <2>1. FlattenSeq(s) = s
    BY <1>5 DEF FlattenSeq
  <2>2. SoFar(s, off, s, N)
    BY <1>3, <1>5, <2>1 DEF SoFar
  <2> QED
    BY <1>3, <1>4, <2>1, <2>2
<1>6. CASE N # 0
  <2> DEFINE Def(f, m) == f = [i \in 1..m |-> IF i = 1 THEN s[i] ELSE f[i - 1] \o s[i]]
             S == {m \in Nat : m # 0 => \E f : Def(f, m)}
  <2>1. 0 \in S
    OBVIOUS
  <2>2. ASSUME NEW k \in 0..(N - 1), k \in S PROVE k + 1 \in S
    <3>1. CASE k = 0
      <4> DEFINE g == [i \in 1..1 |-> s[1]]
      <4>1. Def(g, 1)
        OBVIOUS
      <4>2. 1 \in Nat /\ k + 1 = 1
        BY <3>1
      <4> HIDE DEF Def, g
      <4> QED
        BY <4>1, <4>2
    <3>2. CASE k # 0
      <4>1. PICK f : Def(f, k)
        BY <2>2, <3>2, <1>0
      <4> DEFINE g == [i \in 1..(k + 1) |-> IF i = k + 1 THEN f[k] \o s[k + 1] ELSE f[i]]
      <4>2. k + 1 \in Nat /\ k \in Nat /\ k # 0
        BY <3>2
      <4>3. f = [i \in 1..k |-> IF i = 1 THEN s[i] ELSE f[i - 1] \o s[i]]
        BY <4>1
      <4>4. ASSUME NEW i \in 1..(k + 1) PROVE g[i] = IF i = 1 THEN s[i] ELSE g[i - 1] \o s[i]
        <5>1. CASE i = k + 1
          <6>1. i # 1 /\ i - 1 = k /\ k \in 1..(k + 1) /\ k # k + 1
            BY <4>2, <5>1
          <6>2. g[i - 1] = f[k] /\ g[i] = f[k] \o s[i]
            BY <5>1, <6>1
          <6> QED
            BY <6>1, <6>2
        <5>2. CASE i # k + 1
          <6>1. i \in 1..k /\ g[i] = f[i]
            BY <4>2, <5>2
          <6>2. f[i] = IF i = 1 THEN s[i] ELSE f[i - 1] \o s[i]
            BY <4>3, <6>1
          <6>3. i # 1 => i - 1 \in 1..(k + 1) /\ i - 1 # k + 1
            BY <4>2, <6>1
          <6>4. i # 1 => g[i - 1] = f[i - 1]
            BY <6>3
          <6> HIDE DEF g
          <6> QED
            BY <6>1, <6>2, <6>4
        <5> QED
          BY <5>1, <5>2
      <4>5. Def(g, k + 1)
        <5>1. g = [i \in 1..(k + 1) |-> g[i]]
          OBVIOUS
        <5> HIDE DEF g
        <5> QED
          BY <5>1, <4>4
      <4> HIDE DEF Def, g
      <4> QED
        BY <4>2, <4>5
    <3> QED
      BY <3>1, <3>2
  <2>3. \A k \in 0..(N - 1) : k \in S => k + 1 \in S
    BY <2>2
  <2>4. \E f : Def(f, N)
    <3> HIDE DEF S
    <3>1. N \in S
      BY <1>0, <2>1, <2>3, Steps
    <3> QED
      BY <1>6, <3>1 DEF S
  <2>5. PICK f : f = (CHOOSE g : Def(g, N))
    OBVIOUS
  <2>6. Def(f, N)
    BY <2>4, <2>5
  <2>7. FlattenSeq(s) = f[N]
    BY <1>6, <2>5 DEF FlattenSeq
  <2>8. f[1] = s[1] /\ \A i \in 2..N : f[i] = f[i - 1] \o s[i]
    <3>1. 1 \in 1..N /\ \A i \in 2..N : i \in 1..N /\ i # 1
      BY <1>0, <1>6
    <3> QED
      BY <2>6, <3>1
  <2> HIDE DEF Def, S
  <2>9. SoFar(s, off, f[1], 1)
    <3>1. Listed(s[1]) /\ off[1] = Len(s[1]) /\ off[0] = 0 /\ Len(s[1]) \in Nat
      <4>1. 1 \in 1..N
        BY <1>0, <1>6
      <4>2. Listed(s[1]) /\ off[1] = off[0] + Len(s[1])
        BY <1>3, <4>1
      <4> QED
        BY <4>2, <1>3, ListedIs
    <3>2. \A i \in 1..1 : i = 1 /\ i - 1 = 0
      OBVIOUS
    <3> QED
      BY <2>8, <3>1, <3>2 DEF SoFar
  <2> DEFINE U == {m \in 0..N : m # 0 => SoFar(s, off, f[m], m)}
  <2>10. 0 \in U
    BY <1>0
  <2>11. ASSUME NEW k \in 0..(N - 1), k \in U PROVE k + 1 \in U
    <3>1. CASE k = 0
      BY <1>0, <2>9, <3>1
    <3>2. CASE k # 0
      <4>1. SoFar(s, off, f[k], k) /\ k + 1 \in 1..N /\ k + 1 \in 2..N /\ k \in Nat /\ k \in 0..N
        BY <1>0, <2>11, <3>2
      <4>2. f[k + 1] = f[k] \o s[k + 1] /\ Listed(s[k + 1]) /\ off[k + 1] = off[k] + Len(s[k + 1]) /\ off[k] \in Nat
        <5>1. (k + 1) - 1 = k
          BY <4>1
        <5>2. f[k + 1] = f[(k + 1) - 1] \o s[k + 1] /\ off[k + 1] = off[(k + 1) - 1] + Len(s[k + 1])
          BY <4>1, <2>8, <1>3
        <5> QED
          BY <5>1, <5>2, <4>1, <1>4
      <4>3. SoFar(s, off, f[k] \o s[k + 1], k + 1)
        BY <4>1, <4>2, Further
      <4>4. SoFar(s, off, f[k + 1], k + 1)
        BY <4>2, <4>3, Zenon
      <4>5. k + 1 \in 0..N
        BY <4>1, <1>0
      <4> QED
        BY <4>4, <4>5
    <3> QED
      BY <3>1, <3>2
  <2>12. \A k \in 0..(N - 1) : k \in U => k + 1 \in U
    BY <2>11
  <2> HIDE DEF U
  <2>13. N \in U
    BY <1>0, <2>10, <2>12, Steps
  <2>14. SoFar(s, off, f[N], N)
    BY <1>6, <2>13 DEF U
  <2> QED
    BY <1>3, <1>4, <2>7, <2>14
<1> QED
  BY <1>5, <1>6

LEMMA FlatElements ==
  ASSUME NEW s, Listed(s), \A i \in 1..Len(s) : Listed(s[i])
  PROVE  /\ Listed(FlattenSeq(s))
         /\ \A p \in 1..Len(FlattenSeq(s)) :
              \E i \in 1..Len(s) : \E j \in 1..Len(s[i]) : FlattenSeq(s)[p] = s[i][j]
<1>1. PICK off : SoFar(s, off, FlattenSeq(s), Len(s))
  BY Flat
<1>2. PICK f : f = FlattenSeq(s)
  OBVIOUS
<1>3. SoFar(s, off, f, Len(s))
  BY <1>1, <1>2
<1>4. ASSUME NEW p \in 1..Len(f) PROVE \E i \in 1..Len(s) : \E j \in 1..Len(s[i]) : f[p] = s[i][j]
  <2>0. PICK i \in 1..Len(s) : \E j \in 1..Len(s[i]) : p = off[i - 1] + j
    BY <1>3 DEF SoFar
  <2>1. PICK j \in 1..Len(s[i]) : p = off[i - 1] + j
    BY <2>0
  <2>2. f[p] = s[i][j]
    BY <1>3, <2>1 DEF SoFar
  <2> QED
    BY <2>2
<1> QED
  BY <1>2, <1>3, <1>4 DEF SoFar

\* Each element has a place of its own.
Placed(s, f, at) ==
  /\ \A i \in 1..Len(s) : \A j \in 1..Len(s[i]) : at[<<i, j>>] \in 1..Len(f) /\ f[at[<<i, j>>]] = s[i][j]
  /\ \A i, k \in 1..Len(s) : \A j \in 1..Len(s[i]), l \in 1..Len(s[k]) : i # k => at[<<i, j>>] # at[<<k, l>>]

LEMMA FlatPlaces ==
  ASSUME NEW s, Listed(s), \A i \in 1..Len(s) : Listed(s[i])
  PROVE  \E at : Placed(s, FlattenSeq(s), at)
<1> DEFINE N == Len(s)
<1>0. N \in Nat /\ \A i \in 1..N : Len(s[i]) \in Nat
  BY ListedIs
<1>1. PICK off : /\ off[0] = 0
                 /\ \A i \in 0..Len(s) : off[i] \in Nat
                 /\ \A i \in 1..Len(s) : off[i] = off[i - 1] + Len(s[i])
                 /\ SoFar(s, off, FlattenSeq(s), Len(s))
  BY Flat
<1>2. ASSUME NEW i \in 0..N, NEW k \in 0..N, i <= k PROVE off[i] <= off[k]
  <2> DEFINE S == {m \in 0..(k - i) : off[i] <= off[i + m]}
  <2>1. k - i \in Nat
    BY <1>0, <1>2
  <2>2. 0 \in S
    BY <1>0, <1>1, <2>1
  <2>3. ASSUME NEW m \in 0..((k - i) - 1), m \in S PROVE m + 1 \in S
    <3>1. i + (m + 1) \in 1..N /\ (i + (m + 1)) - 1 = i + m /\ i + m \in 0..N /\ i + (m + 1) \in 0..N
      BY <1>0, <2>1
    <3>2. off[i + (m + 1)] = off[i + m] + Len(s[i + (m + 1)])
      BY <1>1, <3>1
    <3>3. off[i] \in Nat /\ off[i + m] \in Nat /\ Len(s[i + (m + 1)]) \in Nat /\ off[i] <= off[i + m]
      BY <1>0, <1>1, <2>3, <3>1
    <3>4. off[i] <= off[i + (m + 1)] /\ m + 1 \in 0..(k - i)
      BY <2>1, <3>2, <3>3
    <3> QED
      BY <3>4
  <2>4. \A m \in 0..((k - i) - 1) : m \in S => m + 1 \in S
    BY <2>3
  <2> HIDE DEF S
  <2>5. (k - i) \in S
    BY <2>1, <2>2, <2>4, Steps
  <2>6. off[i] <= off[i + (k - i)] /\ i + (k - i) = k
    BY <1>0, <2>5 DEF S
  <2> QED
    BY <2>6
<1>3. PICK f : f = FlattenSeq(s)
  OBVIOUS
<1> DEFINE place == [x \in {<<i, j>> : i \in 1..N, j \in Nat} |-> off[x[1] - 1] + x[2]]
<1>4. ASSUME NEW i \in 1..N, NEW j \in 1..Len(s[i]) PROVE place[<<i, j>>] = off[i - 1] + j
  BY <1>0
<1> HIDE DEF place
<1>5. ASSUME NEW i \in 1..N, NEW j \in 1..Len(s[i]) PROVE place[<<i, j>>] \in 1..Len(f) /\ f[place[<<i, j>>]] = s[i][j]
  <2>1. off[i - 1] + j \in 1..Len(f) /\ f[off[i - 1] + j] = s[i][j]
    BY <1>1, <1>3 DEF SoFar
  <2> QED
    BY <1>4, <2>1
<1>6. ASSUME NEW i \in 1..N, NEW k \in 1..N, NEW j \in 1..Len(s[i]), NEW l \in 1..Len(s[k]), i < k
      PROVE place[<<i, j>>] # place[<<k, l>>]
  <2>1. i - 1 \in 0..N /\ k - 1 \in 0..N /\ i \in 0..N /\ i <= k - 1
    BY <1>0, <1>6
  <2>2. off[i] <= off[k - 1] /\ off[i] = off[i - 1] + Len(s[i])
    BY <2>1, <1>1, <1>2
  <2>3. off[i] \in Nat /\ off[i - 1] \in Nat /\ off[k - 1] \in Nat
    BY <2>1, <1>1
  <2>4. off[i - 1] + j # off[k - 1] + l
    BY <1>0, <2>2, <2>3, SMTT(20)
  <2> QED
    BY <1>4, <2>4
<1>7. ASSUME NEW i \in 1..N, NEW k \in 1..N, NEW j \in 1..Len(s[i]), NEW l \in 1..Len(s[k]), i # k
      PROVE place[<<i, j>>] # place[<<k, l>>]
  <2>1. i < k \/ k < i
    BY <1>0, <1>7
  <2> QED
    BY <2>1, <1>6
<1>8. Placed(s, f, place)
  BY <1>5, <1>7 DEF Placed
<1> QED
  BY <1>3, <1>8

\* Pieces of one element each.
LEMMA FlatSingles ==
  ASSUME NEW s, Listed(s), \A i \in 1..Len(s) : Listed(s[i]) /\ Len(s[i]) = 1
  PROVE  Len(FlattenSeq(s)) = Len(s) /\ \A i \in 1..Len(s) : FlattenSeq(s)[i] = s[i][1]
<1> DEFINE N == Len(s)
<1>0. N \in Nat
  BY ListedIs
<1>1. PICK off : /\ off[0] = 0
                 /\ \A i \in 0..Len(s) : off[i] \in Nat
                 /\ \A i \in 1..Len(s) : off[i] = off[i - 1] + Len(s[i])
                 /\ SoFar(s, off, FlattenSeq(s), Len(s))
  BY Flat
<1> DEFINE S == {m \in 0..N : off[m] = m}
<1>2. 0 \in S
  BY <1>0, <1>1
<1>3. ASSUME NEW k \in 0..(N - 1), k \in S PROVE k + 1 \in S
  <2>1. k + 1 \in 1..N /\ (k + 1) - 1 = k
    BY <1>0
  <2>2. off[k + 1] = off[k] + 1
    BY <1>1, <2>1
  <2> QED
    BY <1>0, <1>3, <2>1, <2>2
<1>4. \A k \in 0..(N - 1) : k \in S => k + 1 \in S
  BY <1>3
<1> HIDE DEF S
<1>5. 0..N \subseteq S
  BY <1>0, <1>2, <1>4, Steps
<1>6. \A m \in 0..N : off[m] = m
  BY <1>5 DEF S
<1>7. PICK f : f = FlattenSeq(s)
  OBVIOUS
<1>8. SoFar(s, off, f, N)
  BY <1>1, <1>7
<1>9. Len(f) = N
  BY <1>0, <1>6, <1>8 DEF SoFar
<1>10. ASSUME NEW i \in 1..N PROVE f[i] = s[i][1]
  <2>0. Len(s[i]) = 1
    BY <1>0, Zenon
  <2>1. 1 \in 1..Len(s[i]) /\ i - 1 \in 0..N
    BY <1>0, <2>0
  <2>2. f[off[i - 1] + 1] = s[i][1]
    BY <1>8, <2>1 DEF SoFar
  <2>3. off[i - 1] + 1 = i
    BY <1>0, <1>6, <2>1
  <2> QED
    BY <2>2, <2>3
<1> QED
  BY <1>7, <1>9, <1>10

\* Two sequences of pieces of the same lengths.
Paired(s, t, f, g) ==
  /\ Listed(f) /\ Listed(g) /\ Len(f) = Len(g)
  /\ \A p \in 1..Len(f) : \E i \in 1..Len(s) : \E j \in 1..Len(s[i]) : f[p] = s[i][j] /\ g[p] = t[i][j]

LEMMA FlatPair ==
  ASSUME NEW s, NEW t, Listed(s), Listed(t), Len(s) = Len(t),
         \A i \in 1..Len(s) : Listed(s[i]) /\ Listed(t[i]) /\ Len(s[i]) = Len(t[i])
  PROVE  Paired(s, t, FlattenSeq(s), FlattenSeq(t))
<1> DEFINE N == Len(s)
<1>0. N \in Nat
  BY ListedIs
<1>1. PICK off : /\ off[0] = 0
                 /\ \A i \in 0..N : off[i] \in Nat
                 /\ \A i \in 1..N : off[i] = off[i - 1] + Len(s[i])
                 /\ SoFar(s, off, FlattenSeq(s), N)
  BY Flat
<1>2. PICK oft : /\ oft[0] = 0
                 /\ \A i \in 0..N : oft[i] \in Nat
                 /\ \A i \in 1..N : oft[i] = oft[i - 1] + Len(t[i])
                 /\ SoFar(t, oft, FlattenSeq(t), N)
  BY Flat
<1> DEFINE S == {m \in 0..N : off[m] = oft[m]}
<1>3. 0 \in S
  BY <1>0, <1>1, <1>2
<1>4. ASSUME NEW k \in 0..(N - 1), k \in S PROVE k + 1 \in S
  <2>1. k + 1 \in 1..N /\ (k + 1) - 1 = k
    BY <1>0
  <2>2. off[k + 1] = oft[k + 1]
    BY <1>1, <1>2, <1>4, <2>1
  <2> QED
    BY <1>0, <2>1, <2>2
<1>5. \A k \in 0..(N - 1) : k \in S => k + 1 \in S
  BY <1>4
<1> HIDE DEF S
<1>6. 0..N \subseteq S
  BY <1>0, <1>3, <1>5, Steps
<1>7. \A m \in 0..N : off[m] = oft[m]
  BY <1>6 DEF S
<1>8. PICK f, g : f = FlattenSeq(s) /\ g = FlattenSeq(t)
  OBVIOUS
<1>9. SoFar(s, off, f, N) /\ SoFar(t, oft, g, N)
  BY <1>1, <1>2, <1>8
<1>10. Listed(f) /\ Listed(g) /\ Len(f) = Len(g)
  BY <1>0, <1>7, <1>9 DEF SoFar
<1>11. ASSUME NEW p \in 1..Len(f)
       PROVE \E i \in 1..N : \E j \in 1..Len(s[i]) : f[p] = s[i][j] /\ g[p] = t[i][j]
  <2>0. PICK i \in 1..N : \E j \in 1..Len(s[i]) : p = off[i - 1] + j
    BY <1>9 DEF SoFar
  <2>1. PICK j \in 1..Len(s[i]) : p = off[i - 1] + j
    BY <2>0
  <2>2. f[p] = s[i][j]
    BY <1>9, <2>1 DEF SoFar
  <2>3. i - 1 \in 0..N /\ j \in 1..Len(t[i])
    BY <1>0
  <2>4. g[p] = t[i][j]
    <3>1. g[oft[i - 1] + j] = t[i][j]
      BY <1>9, <2>3 DEF SoFar
    <3>2. oft[i - 1] = off[i - 1]
      BY <1>7, <2>3
    <3> QED
      BY <2>1, <3>1, <3>2
  <2> QED
    BY <2>2, <2>4
<1>12. Paired(s, t, f, g)
  BY <1>10, <1>11 DEF Paired
<1> QED
  BY <1>8, <1>12

\* Pieces that are longer, one of them truly.
LEMMA FlatLonger ==
  ASSUME NEW s, NEW t, Listed(s), Listed(t), Len(s) = Len(t),
         \A i \in 1..Len(s) : Listed(s[i]) /\ Listed(t[i]) /\ Len(s[i]) >= Len(t[i]),
         NEW n \in 1..Len(s), Len(s[n]) > Len(t[n])
  PROVE  Len(FlattenSeq(s)) > Len(FlattenSeq(t))
<1> DEFINE N == Len(s)
<1>0. N \in Nat /\ \A i \in 1..N : Len(s[i]) \in Nat /\ Len(t[i]) \in Nat
  BY ListedIs
<1>1. PICK off : /\ off[0] = 0
                 /\ \A i \in 0..N : off[i] \in Nat
                 /\ \A i \in 1..N : off[i] = off[i - 1] + Len(s[i])
                 /\ SoFar(s, off, FlattenSeq(s), N)
  BY Flat
<1>2. PICK oft : /\ oft[0] = 0
                 /\ \A i \in 0..N : oft[i] \in Nat
                 /\ \A i \in 1..N : oft[i] = oft[i - 1] + Len(t[i])
                 /\ SoFar(t, oft, FlattenSeq(t), N)
  BY Flat
<1> DEFINE S == {m \in 0..N : off[m] >= oft[m] /\ (m >= n => off[m] > oft[m])}
<1>3. 0 \in S
  BY <1>0, <1>1, <1>2
<1>4. ASSUME NEW k \in 0..(N - 1), k \in S PROVE k + 1 \in S
  <2>1. k + 1 \in 1..N /\ (k + 1) - 1 = k /\ k \in 0..N /\ k + 1 \in 0..N
    BY <1>0
  <2>2. off[k + 1] = off[k] + Len(s[k + 1]) /\ oft[k + 1] = oft[k] + Len(t[k + 1])
    BY <1>1, <1>2, <2>1
  <2>3. off[k] \in Nat /\ oft[k] \in Nat /\ Len(s[k + 1]) \in Nat /\ Len(t[k + 1]) \in Nat
    BY <1>0, <1>1, <1>2, <2>1
  <2>4. off[k] >= oft[k] /\ (k >= n => off[k] > oft[k]) /\ Len(s[k + 1]) >= Len(t[k + 1])
    BY <1>4, <2>1
  <2>5. k + 1 >= n => k >= n \/ Len(s[k + 1]) > Len(t[k + 1])
    <3>1. k + 1 = n => Len(s[k + 1]) > Len(t[k + 1])
      OBVIOUS
    <3> QED
      BY <1>0, <3>1
  <2>6. off[k + 1] >= oft[k + 1] /\ (k + 1 >= n => off[k + 1] > oft[k + 1])
    BY <2>2, <2>3, <2>4, <2>5
  <2> QED
    BY <2>1, <2>6
<1>5. \A k \in 0..(N - 1) : k \in S => k + 1 \in S
  BY <1>4
<1> HIDE DEF S
<1>6. N \in S
  BY <1>0, <1>3, <1>5, Steps
<1>7. off[N] > oft[N]
  BY <1>0, <1>6 DEF S
<1>8. PICK f, g : f = FlattenSeq(s) /\ g = FlattenSeq(t)
  OBVIOUS
<1>9. Len(f) = off[N] /\ Len(g) = oft[N]
  BY <1>1, <1>2, <1>8 DEF SoFar
<1> QED
  BY <1>7, <1>8, <1>9

-----------------------------------------------------------------------------
(* What a query's result columns are *)

LEMMA NoneListed == Listed(<<>>) /\ Len(<<>>) = 0
BY DEF Listed

LEMMA OneListed == ASSUME NEW a
  PROVE Listed(<<a>>) /\ Len(<<a>>) = 1 /\ <<a>>[1] = a /\ \A j \in 1..Len(<<a>>) : <<a>>[j] = a
<1>1. <<a>> \in Seq({a}) /\ Len(<<a>>) = 1 /\ <<a>>[1] = a /\ \A j \in 1..Len(<<a>>) : <<a>>[j] = a
  OBVIOUS
<1> QED
  BY <1>1, ListedOf

LEMMA TwoListed == ASSUME NEW a, NEW b
  PROVE Listed(<<a, b>>) /\ Len(<<a, b>>) = 2 /\ <<a, b>>[1] = a /\ <<a, b>>[2] = b
<1>1. <<a, b>> \in Seq({a, b}) /\ Len(<<a, b>>) = 2 /\ <<a, b>>[1] = a /\ <<a, b>>[2] = b
  OBVIOUS
<1> QED
  BY <1>1, ListedOf

LEMMA WithoutOne ==
  ASSUME NEW s, Listed(s), NEW i \in 1..Len(s)
  PROVE  Listed(RemoveAt(s, i)) /\ Len(RemoveAt(s, i)) = Len(s) - 1
<1> DEFINE S == {s[k] : k \in 1..Len(s)}
<1>1. s \in Seq(S) /\ Len(s) \in Nat
  BY ListedIs
<1> HIDE DEF S
<1>2. /\ SubSeq(s, 1, i - 1) \in Seq(S) /\ SubSeq(s, i + 1, Len(s)) \in Seq(S)
      /\ Len(SubSeq(s, 1, i - 1)) = i - 1 /\ Len(SubSeq(s, i + 1, Len(s))) = Len(s) - i
  BY <1>1
<1>3. PICK u, v : u = SubSeq(s, 1, i - 1) /\ v = SubSeq(s, i + 1, Len(s))
  OBVIOUS
<1>4. u \o v \in Seq(S) /\ Len(u \o v) = Len(u) + Len(v)
  BY <1>2, <1>3
<1>5. RemoveAt(s, i) = u \o v
  BY <1>3 DEF RemoveAt
<1>6. Len(u) + Len(v) = Len(s) - 1
  <2>1. Len(u) = i - 1
    BY <1>2, <1>3
  <2>2. Len(v) = Len(s) - i
    BY <1>2, <1>3
  <2>3. i \in Int /\ Len(s) \in Int
    BY <1>1
  <2>4. (i - 1) + (Len(s) - i) = Len(s) - 1
    BY <2>3
  <2> QED
    BY <2>1, <2>2, <2>4
<1> QED
  BY <1>4, <1>5, <1>6, ListedOf

\* A factor's columns under a wildcard.
Merged(c, q, i) ==
  LET names == c.cols[BaseAt(c, q, i)]
  IN IF q.join # "using" \/ i = 1 THEN names
     ELSE RemoveAt(names, CHOOSE j \in DOMAIN names : names[j] = "id")
Whole(c, q, i) ==
  [j \in DOMAIN Merged(c, q, i) |->
     [at |-> i, col |-> Merged(c, q, i)[j], as |-> Merged(c, q, i)[j]]]

LEMMA WholeIs ==
  ASSUME NEW d, NEW q, Accepted(d, q), NEW c, c = d.catalog, NEW i \in DOMAIN q.from
  PROVE  /\ Listed(c.cols[BaseAt(c, q, i)])
         /\ Listed(Merged(c, q, i)) /\ Listed(Whole(c, q, i)) /\ Len(Whole(c, q, i)) = Len(Merged(c, q, i))
         /\ \A j \in 1..Len(Whole(c, q, i)) :
              Whole(c, q, i)[j] = [at |-> i, col |-> Merged(c, q, i)[j], as |-> Merged(c, q, i)[j]]
<1>1. PICK names : names = c.cols[BaseAt(c, q, i)]
  OBVIOUS
<1>2. Listed(names) /\ (q.join = "using" => Contains(names, "id"))
  BY <1>1 DEF Accepted, FactorThere
<1>3. DOMAIN names = 1..Len(names)
  BY <1>2, ListedIs
<1>4. PICK m : m = Merged(c, q, i)
  OBVIOUS
<1>5. Listed(m)
  <2>1. CASE q.join # "using" \/ i = 1
    BY <1>1, <1>2, <1>4, <2>1 DEF Merged
  <2>2. CASE ~(q.join # "using" \/ i = 1)
    <3>1. \E j \in DOMAIN names : names[j] = "id"
      BY <1>2, <1>3, <2>2 DEF Contains
    <3>2. PICK j : j = CHOOSE k \in DOMAIN names : names[k] = "id"
      OBVIOUS
    <3>3. j \in 1..Len(names)
      BY <3>1, <3>2, <1>3
    <3>4. m = RemoveAt(names, j)
      BY <1>1, <1>4, <2>2, <3>2 DEF Merged
    <3> QED
      BY <1>2, <3>3, <3>4, WithoutOne
  <2> QED
    BY <2>1, <2>2
<1>6. DOMAIN m = 1..Len(m) /\ Len(m) \in Nat
  BY <1>5, ListedIs
<1>7. Whole(c, q, i) = [j \in 1..Len(m) |-> [at |-> i, col |-> m[j], as |-> m[j]]]
  BY <1>4, <1>6 DEF Whole
<1>8. PICK w : w = [j \in 1..Len(m) |-> [at |-> i, col |-> m[j], as |-> m[j]]]
  OBVIOUS
<1>9. Listed(w) /\ Len(w) = Len(m)
  <2>1. w = [j \in 1..Len(m) |-> w[j]]
    BY <1>8
  <2> QED
    BY <2>1, <1>6, Mapped
<1> QED
  BY <1>1, <1>2, <1>4, <1>5, <1>7, <1>8, <1>9

\* What one item of the query adds to its result.
Shows(c, q, item, x) ==
  /\ x.at = 0 \/ x.at \in DOMAIN q.from
  /\ x.at = 0 => item.col = "+"
  /\ item.col = "*" => x.as = x.col
  /\ item.col # "*" => x.as = item.as /\ x.col = item.col
  /\ item.col # "*" /\ x.at # 0 => item.qual \in {None, NameOf(q.from[x.at])}

LEMMA ExpandedIs ==
  ASSUME NEW d, NEW q, Accepted(d, q), NEW c, c = d.catalog, NEW k \in DOMAIN q.items, NEW item, item = q.items[k]
  PROVE  /\ Listed(Expanded(c, q, item))
         /\ item.col # "*" => Len(Expanded(c, q, item)) = 1
         /\ \A j \in 1..Len(Expanded(c, q, item)) : Shows(c, q, item, Expanded(c, q, item)[j])
<1>1. CASE item.col = "*"
  <2> DEFINE w == [i \in DOMAIN q.from |-> Whole(c, q, i)]
  <2>1. Expanded(c, q, item) = FlattenSeq(w)
    BY <1>1 DEF Expanded, Whole, Merged
  <2>2. Listed(q.from) /\ DOMAIN q.from = 1..Len(q.from) /\ Len(q.from) \in Nat
    BY ListedIs DEF Accepted
  <2>3. Listed(w) /\ Len(w) = Len(q.from)
    <3>1. w = [i \in 1..Len(q.from) |-> w[i]]
      BY <2>2
    <3> HIDE DEF w
    <3> QED
      BY <2>2, <3>1, Mapped
  <2>4. \A i \in 1..Len(w) : w[i] = Whole(c, q, i) /\ i \in DOMAIN q.from
    BY <2>2, <2>3
  <2>5. PICK v : v = w
    OBVIOUS
  <2> HIDE DEF w
  <2>6. \A i \in 1..Len(v) : Listed(v[i])
    BY <2>4, <2>5, WholeIs
  <2>7. /\ Listed(FlattenSeq(v))
        /\ \A p \in 1..Len(FlattenSeq(v)) : \E i \in 1..Len(v) : \E j \in 1..Len(v[i]) : FlattenSeq(v)[p] = v[i][j]
    BY <2>3, <2>5, <2>6, FlatElements
  <2>8. PICK f : f = FlattenSeq(v)
    OBVIOUS
  <2>9. ASSUME NEW p \in 1..Len(f) PROVE Shows(c, q, item, f[p])
    <3>1. PICK i \in 1..Len(v) : \E j \in 1..Len(v[i]) : f[p] = v[i][j]
      BY <2>7, <2>8
    <3>2. PICK j \in 1..Len(v[i]) : f[p] = v[i][j]
      BY <3>1
    <3>3. v[i] = Whole(c, q, i) /\ i \in DOMAIN q.from
      BY <2>4, <2>5
    <3>4. v[i][j] = [at |-> i, col |-> Merged(c, q, i)[j], as |-> Merged(c, q, i)[j]]
      BY <3>3, WholeIs
    <3> QED
      BY <1>1, <3>2, <3>3, <3>4 DEF Shows
  <2> QED
    BY <1>1, <2>1, <2>5, <2>7, <2>8, <2>9
<1>2. CASE item.col = "+"
  <2>1. PICK x : x = [at |-> 0, col |-> "+", as |-> item.as]
    OBVIOUS
  <2>2. Expanded(c, q, item) = <<x>>
    BY <1>2, <2>1 DEF Expanded
  <2>3. Listed(<<x>>) /\ Len(<<x>>) = 1 /\ \A j \in 1..Len(<<x>>) : <<x>>[j] = x
    BY OneListed
  <2>4. Shows(c, q, item, x)
    BY <1>2, <2>1 DEF Shows
  <2> QED
    BY <2>2, <2>3, <2>4
<1>3. CASE item.col \notin {"*", "+"}
  <2>1. PICK i \in DOMAIN q.from : Having(c, q, item) = {i}
    BY <1>3 DEF Accepted
  <2>2. PICK x : x = [at |-> i, col |-> item.col, as |-> item.as]
    OBVIOUS
  <2>3. Expanded(c, q, item) = <<x>>
    <3>1. (CHOOSE h \in Having(c, q, item) : TRUE) = i
      BY <2>1
    <3> QED
      BY <1>3, <2>2, <3>1 DEF Expanded
  <2>4. Listed(<<x>>) /\ Len(<<x>>) = 1 /\ \A j \in 1..Len(<<x>>) : <<x>>[j] = x
    BY OneListed
  <2>5. i \in Having(c, q, item)
    BY <2>1
  <2>6. x.at # 0
    <3>1. DOMAIN q.from = 1..Len(q.from)
      BY ListedIs DEF Accepted
    <3> QED
      BY <2>2, <3>1
  <2>7. Shows(c, q, item, x)
    BY <1>3, <2>2, <2>5, <2>6 DEF Shows, Having
  <2> QED
    BY <2>3, <2>4, <2>7
<1> QED
  BY <1>1, <1>2, <1>3

Starless(q) == \A k \in DOMAIN q.items : q.items[k].col # "*"

LEMMA ColumnsAre ==
  ASSUME NEW d, NEW q, Accepted(d, q), NEW c, c = d.catalog
  PROVE  /\ Listed(ResultColumns(c, q))
         /\ \A p \in 1..Len(ResultColumns(c, q)) :
              \E k \in DOMAIN q.items : Shows(c, q, q.items[k], ResultColumns(c, q)[p])
         /\ Starless(q) => /\ Len(ResultColumns(c, q)) = Len(q.items)
                           /\ \A p \in 1..Len(q.items) : Shows(c, q, q.items[p], ResultColumns(c, q)[p])
<1> DEFINE w == [k \in DOMAIN q.items |-> Expanded(c, q, q.items[k])]
<1>1. Listed(q.items) /\ DOMAIN q.items = 1..Len(q.items) /\ Len(q.items) \in Nat
  BY ListedIs DEF Accepted
<1>2. Listed(w) /\ Len(w) = Len(q.items)
  <2>1. w = [k \in 1..Len(q.items) |-> w[k]]
    BY <1>1
  <2> HIDE DEF w
  <2> QED
    BY <1>1, <2>1, Mapped
<1>3. \A k \in 1..Len(w) : w[k] = Expanded(c, q, q.items[k]) /\ k \in DOMAIN q.items
  BY <1>1, <1>2
<1>4. PICK v, f : v = w /\ f = ResultColumns(c, q)
  OBVIOUS
<1>5. f = FlattenSeq(v)
  BY <1>4 DEF ResultColumns
<1> HIDE DEF w
<1>6. ASSUME NEW k \in 1..Len(v)
      PROVE  /\ Listed(v[k]) /\ (q.items[k].col # "*" => Len(v[k]) = 1)
             /\ \A j \in 1..Len(v[k]) : Shows(c, q, q.items[k], v[k][j])
  <2>1. v[k] = Expanded(c, q, q.items[k]) /\ k \in DOMAIN q.items
    BY <1>3, <1>4
  <2> QED
    BY <2>1, ExpandedIs
<1>7. Listed(FlattenSeq(v)) /\ \A p \in 1..Len(FlattenSeq(v)) :
        \E k \in 1..Len(v) : \E j \in 1..Len(v[k]) : FlattenSeq(v)[p] = v[k][j]
  BY <1>2, <1>4, <1>6, FlatElements
<1>8. ASSUME NEW p \in 1..Len(f) PROVE \E k \in DOMAIN q.items : Shows(c, q, q.items[k], f[p])
  <2>1. PICK k \in 1..Len(v) : \E j \in 1..Len(v[k]) : f[p] = v[k][j]
    BY <1>5, <1>7
  <2>2. k \in DOMAIN q.items
    BY <1>3, <1>4
  <2> QED
    BY <1>6, <2>1, <2>2
<1>9. ASSUME Starless(q)
      PROVE Len(f) = Len(q.items) /\ \A p \in 1..Len(q.items) : Shows(c, q, q.items[p], f[p])
  <2>1. \A k \in 1..Len(v) : Listed(v[k]) /\ Len(v[k]) = 1
    BY <1>2, <1>3, <1>4, <1>6, <1>9 DEF Starless
  <2>2. Len(FlattenSeq(v)) = Len(v) /\ \A k \in 1..Len(v) : FlattenSeq(v)[k] = v[k][1]
    BY <1>2, <1>4, <2>1, FlatSingles
  <2>3. ASSUME NEW p \in 1..Len(q.items) PROVE Shows(c, q, q.items[p], f[p])
    <3>1. p \in 1..Len(v) /\ 1 \in 1..Len(v[p]) /\ f[p] = v[p][1]
      BY <1>2, <1>4, <1>5, <2>1, <2>2
    <3> QED
      BY <1>6, <3>1
  <2> QED
    BY <1>2, <1>4, <1>5, <2>2, <2>3
<1> QED
  BY <1>4, <1>5, <1>7, <1>8, <1>9

-----------------------------------------------------------------------------
(* Which reads a query's text is taken to have *)

\* The table a factor is read by: the text names it, or its common table
\* expression's.
Direct(c, q, i) == IF q.from[i].kind = "cte" THEN BaseAt(c, q, i) ELSE q.from[i].rel

LEMMA CteOf ==
  ASSUME NEW d, NEW q, Accepted(d, q), NEW c, c = d.catalog, NEW i \in DOMAIN q.from, q.from[i].kind = "cte"
  PROVE  \E m \in 1..Len(q.ctes) : q.ctes[m].name = q.from[i].rel /\ q.ctes[m].of = BaseAt(c, q, i)
<1>1. Listed(q.ctes) /\ DOMAIN q.ctes = 1..Len(q.ctes)
  BY ListedIs DEF Accepted
<1>2. \E t \in Range(q.ctes) : t.name = q.from[i].rel
  BY DEF Accepted, FactorThere
<1>3. PICK t : t = CHOOSE x \in Range(q.ctes) : x.name = q.from[i].rel
  OBVIOUS
<1>4. t \in Range(q.ctes) /\ t.name = q.from[i].rel
  BY <1>2, <1>3
<1>5. BaseAt(c, q, i) = t.of
  BY <1>3 DEF BaseAt, Base
<1>6. PICK m \in DOMAIN q.ctes : q.ctes[m] = t
  BY <1>4 DEF Range
<1> QED
  BY <1>1, <1>4, <1>5, <1>6

\* No common table expression is read by two factors.
CtesOnce(q) == \A i, j \in DOMAIN q.from : q.from[i].kind = "cte" /\ q.from[i].rel = q.from[j].rel => i = j

TwoRead(c, q, reads) ==
  /\ Listed(reads)
  /\ \A i, j \in DOMAIN q.from : i # j =>
       \E n, m \in 1..Len(reads) : n # m /\ reads[n].table = Direct(c, q, i) /\ reads[m].table = Direct(c, q, j)

LEMMA ParsedReads ==
  ASSUME NEW d, NEW q, Accepted(d, q), NEW c, c = d.catalog, CtesOnce(q)
  PROVE  TwoRead(c, q, Reads(q))
<1>1. /\ DOMAIN q.ctes = 1..Len(q.ctes) /\ Len(q.ctes) \in Nat
      /\ DOMAIN q.from = 1..Len(q.from) /\ Len(q.from) \in Nat
  BY ListedIs DEF Accepted
<1>2. PICK s : s = [i \in 1..Len(q.ctes) |-> [table |-> q.ctes[i].of, alias |-> None]]
  OBVIOUS
<1>3. PICK t : t = [i \in 1..Len(q.from) |-> Factor(q.from[i], q.clause # "union")]
  OBVIOUS
<1>4. Listed(s) /\ Len(s) = Len(q.ctes)
  <2>1. s = [i \in 1..Len(q.ctes) |-> s[i]]
    BY <1>2
  <2> QED
    BY <1>1, <2>1, Mapped
<1>5. Listed(t) /\ Len(t) = Len(q.from)
  <2>1. t = [i \in 1..Len(q.from) |-> t[i]]
    BY <1>3
  <2> QED
    BY <1>1, <2>1, Mapped
<1>0. Len(s) \in Nat /\ Len(t) \in Nat
  BY <1>1, <1>4, <1>5
<1>6. PICK r : r = Reads(q)
  OBVIOUS
<1>7. r = s \o t
  BY <1>1, <1>2, <1>3, <1>6 DEF Reads
<1>8. /\ Listed(r) /\ Len(r) = Len(s) + Len(t)
      /\ \A i \in 1..Len(s) : r[i] = s[i]
      /\ \A i \in 1..Len(t) : r[Len(s) + i] = t[i]
  <2>1. Join(s, t, s \o t)
    BY <1>4, <1>5, Joined
  <2> QED
    BY <2>1, <1>7 DEF Join
<1> DEFINE At(i, n) == /\ n \in 1..Len(r) /\ r[n].table = Direct(c, q, i)
                       /\ q.from[i].kind = "cte" => n \in 1..Len(s) /\ q.ctes[n].name = q.from[i].rel
                       /\ q.from[i].kind # "cte" => n = Len(s) + i
<1>9. ASSUME NEW i \in DOMAIN q.from PROVE \E n : At(i, n)
  <2>1. CASE q.from[i].kind = "cte"
    <3>1. PICK m \in 1..Len(q.ctes) : q.ctes[m].name = q.from[i].rel /\ q.ctes[m].of = BaseAt(c, q, i)
      BY <2>1, CteOf
    <3>2. r[m] = [table |-> q.ctes[m].of, alias |-> None] /\ m \in 1..Len(s)
      BY <1>2, <1>4, <1>8
    <3>3. m \in 1..Len(r)
      BY <1>0, <1>8, <3>2
    <3>4. At(i, m)
      BY <2>1, <3>1, <3>2, <3>3 DEF Direct
    <3> QED
      BY <3>4
  <2>2. CASE q.from[i].kind # "cte"
    <3>1. r[Len(s) + i] = Factor(q.from[i], q.clause # "union")
      BY <1>1, <1>3, <1>5, <1>8
    <3>2. Factor(q.from[i], q.clause # "union").table = q.from[i].rel
      BY DEF Factor
    <3>3. Len(s) + i \in 1..Len(r)
      <4>1. i \in 1..Len(t)
        BY <1>1, <1>5
      <4> QED
        BY <1>0, <1>8, <4>1
    <3>4. At(i, Len(s) + i)
      BY <2>2, <3>1, <3>2, <3>3 DEF Direct
    <3> QED
      BY <3>4
  <2> QED
    BY <2>1, <2>2
<1>10. ASSUME NEW i \in DOMAIN q.from, NEW j \in DOMAIN q.from, i # j
       PROVE \E n, m \in 1..Len(r) : n # m /\ r[n].table = Direct(c, q, i) /\ r[m].table = Direct(c, q, j)
  <2>1. PICK n : At(i, n)
    BY <1>9
  <2>2. PICK m : At(j, m)
    BY <1>9
  <2>3. n # m
    <3>1. i \in Nat \ {0} /\ j \in Nat \ {0} /\ Len(s) \in Nat
      BY <1>1, <1>4
    <3>2. CASE q.from[i].kind = "cte" /\ q.from[j].kind = "cte"
      <4>1. q.from[i].rel # q.from[j].rel
        BY <1>10, <3>2 DEF CtesOnce
      <4> QED
        BY <2>1, <2>2, <3>2, <4>1
    <3>3. CASE q.from[i].kind = "cte" /\ q.from[j].kind # "cte"
      BY <2>1, <2>2, <3>1, <3>3
    <3>4. CASE q.from[i].kind # "cte" /\ q.from[j].kind = "cte"
      BY <2>1, <2>2, <3>1, <3>4
    <3>5. CASE q.from[i].kind # "cte" /\ q.from[j].kind # "cte"
      BY <1>10, <2>1, <2>2, <3>1, <3>5
    <3> QED
      BY <3>2, <3>3, <3>4, <3>5
  <2> QED
    BY <2>1, <2>2, <2>3
<1> QED
  BY <1>6, <1>8, <1>10 DEF TwoRead

\* A text that is not parsed: a word for each.
LEMMA WordReads ==
  ASSUME NEW d, NEW q, Accepted(d, q), NEW c, c = d.catalog, CtesOnce(q),
         NEW reads, reads = [i \in DOMAIN Words(q) |-> [table |-> Words(q)[i], alias |-> None]]
  PROVE  TwoRead(c, q, reads)
<1>1. /\ DOMAIN q.ctes = 1..Len(q.ctes) /\ Len(q.ctes) \in Nat
      /\ DOMAIN q.from = 1..Len(q.from) /\ Len(q.from) \in Nat
      /\ DOMAIN q.items = 1..Len(q.items) /\ Len(q.items) \in Nat
  BY ListedIs DEF Accepted
<1>2. PICK s : s = [i \in DOMAIN q.ctes |-> <<q.ctes[i].name, q.ctes[i].of>>]
  OBVIOUS
<1>3. PICK t : t = [i \in DOMAIN q.from |-> <<q.from[i].rel>>
                      \o IF q.from[i].alias = None THEN <<>> ELSE <<q.from[i].alias>>]
  OBVIOUS
<1>4. PICK u : u = [i \in DOMAIN q.items |-> IF q.items[i].qual = None THEN <<>> ELSE <<q.items[i].qual>>]
  OBVIOUS
<1>5. /\ Listed(s) /\ Len(s) = Len(q.ctes)
      /\ \A i \in 1..Len(s) : Listed(s[i]) /\ Len(s[i]) = 2 /\ s[i][1] = q.ctes[i].name /\ s[i][2] = q.ctes[i].of
  <2>1. s = [i \in 1..Len(q.ctes) |-> s[i]]
    BY <1>1, <1>2
  <2>2. Listed(s) /\ Len(s) = Len(q.ctes)
    BY <1>1, <2>1, Mapped
  <2>3. ASSUME NEW i \in 1..Len(s)
        PROVE Listed(s[i]) /\ Len(s[i]) = 2 /\ s[i][1] = q.ctes[i].name /\ s[i][2] = q.ctes[i].of
    <3>1. s[i] = <<q.ctes[i].name, q.ctes[i].of>>
      BY <1>1, <1>2, <2>2
    <3> QED
      BY <3>1, TwoListed
  <2> QED
    BY <2>2, <2>3
<1>6. /\ Listed(t) /\ Len(t) = Len(q.from)
      /\ \A i \in 1..Len(t) : Listed(t[i]) /\ Len(t[i]) >= 1 /\ t[i][1] = q.from[i].rel
  <2>1. t = [i \in 1..Len(q.from) |-> t[i]]
    BY <1>1, <1>3
  <2>2. Listed(t) /\ Len(t) = Len(q.from)
    BY <1>1, <2>1, Mapped
  <2>3. ASSUME NEW i \in 1..Len(t) PROVE Listed(t[i]) /\ Len(t[i]) >= 1 /\ t[i][1] = q.from[i].rel
    <3>1. PICK x, y : x = <<q.from[i].rel>> /\ y = IF q.from[i].alias = None THEN <<>> ELSE <<q.from[i].alias>>
      OBVIOUS
    <3>2. t[i] = x \o y
      BY <1>1, <1>3, <2>2, <3>1
    <3>3. Listed(x) /\ Len(x) = 1 /\ x[1] = q.from[i].rel
      BY <3>1, OneListed
    <3>4. Listed(y) /\ Len(y) \in Nat
      BY <3>1, OneListed, NoneListed, ListedIs
    <3>5. Join(x, y, x \o y)
      BY <3>3, <3>4, Joined
    <3> QED
      BY <3>2, <3>3, <3>4, <3>5 DEF Join
  <2> QED
    BY <2>2, <2>3
<1>7. Listed(u) /\ \A i \in 1..Len(u) : Listed(u[i])
  <2>1. u = [i \in 1..Len(q.items) |-> u[i]]
    BY <1>1, <1>4
  <2>2. Listed(u) /\ Len(u) = Len(q.items)
    BY <1>1, <2>1, Mapped
  <2>3. ASSUME NEW i \in 1..Len(u) PROVE Listed(u[i])
    <3>1. u[i] = <<>> \/ u[i] = <<q.items[i].qual>>
      BY <1>1, <1>4, <2>2
    <3> QED
      BY <3>1, OneListed, NoneListed
  <2> QED
    BY <2>2, <2>3
<1>8. PICK fs, ft, fu : fs = FlattenSeq(s) /\ ft = FlattenSeq(t) /\ fu = FlattenSeq(u)
  OBVIOUS
<1>9. Listed(fs) /\ Listed(ft) /\ Listed(fu)
  BY <1>5, <1>6, <1>7, <1>8, FlatElements
<1>10. PICK ps : Placed(s, fs, ps)
  <2>1. Listed(s) /\ \A i \in 1..Len(s) : Listed(s[i])
    BY <1>5
  <2> QED
    BY <2>1, <1>8, FlatPlaces
<1>11. PICK pt : Placed(t, ft, pt)
  <2>1. Listed(t) /\ \A i \in 1..Len(t) : Listed(t[i])
    BY <1>6
  <2> QED
    BY <2>1, <1>8, FlatPlaces
<1>12. PICK w, g : w = Words(q) /\ g = fs \o ft
  OBVIOUS
<1>13. w = g \o fu
  BY <1>2, <1>3, <1>4, <1>8, <1>12 DEF Words
<1>14. /\ Listed(g) /\ Len(g) = Len(fs) + Len(ft)
       /\ \A i \in 1..Len(fs) : g[i] = fs[i]
       /\ \A i \in 1..Len(ft) : g[Len(fs) + i] = ft[i]
  <2>1. Join(fs, ft, fs \o ft)
    BY <1>9, Joined
  <2> QED
    BY <2>1, <1>12 DEF Join
<1>15. Listed(w) /\ Len(w) = Len(g) + Len(fu) /\ \A i \in 1..Len(g) : w[i] = g[i]
  <2>1. Join(g, fu, g \o fu)
    BY <1>9, <1>14, Joined
  <2> QED
    BY <2>1, <1>13 DEF Join
<1>16. Len(fs) \in Nat /\ Len(ft) \in Nat /\ Len(fu) \in Nat /\ Len(w) \in Nat /\ DOMAIN w = 1..Len(w)
  BY <1>9, <1>15, ListedIs
<1>17. /\ Listed(reads) /\ Len(reads) = Len(w)
       /\ \A n \in 1..Len(reads) : reads[n].table = w[n]
  <2>1. reads = [n \in 1..Len(w) |-> [table |-> w[n], alias |-> None]]
    BY <1>12, <1>16
  <2>2. reads = [n \in 1..Len(w) |-> reads[n]]
    BY <2>1
  <2>3. Listed(reads) /\ Len(reads) = Len(w)
    BY <1>16, <2>2, Mapped
  <2>4. ASSUME NEW n \in 1..Len(reads) PROVE reads[n].table = w[n]
    <3>1. reads[n] = [table |-> w[n], alias |-> None]
      BY <2>1, <2>3
    <3> QED
      BY <3>1
  <2> QED
    BY <2>3, <2>4
<1> DEFINE At(i, n) == /\ n \in 1..Len(reads) /\ reads[n].table = Direct(c, q, i)
                       /\ q.from[i].kind = "cte" => \E m \in 1..Len(s) : /\ q.ctes[m].name = q.from[i].rel
                                                                         /\ n = ps[<<m, 2>>] /\ n <= Len(fs)
                       /\ q.from[i].kind # "cte" => n = Len(fs) + pt[<<i, 1>>] /\ n > Len(fs)
<1>18. ASSUME NEW i \in DOMAIN q.from PROVE \E n : At(i, n)
  <2>1. CASE q.from[i].kind = "cte"
    <3>1. PICK m \in 1..Len(q.ctes) : q.ctes[m].name = q.from[i].rel /\ q.ctes[m].of = BaseAt(c, q, i)
      BY <2>1, CteOf
    <3>2. PICK n : n = ps[<<m, 2>>]
      OBVIOUS
    <3>3. m \in 1..Len(s) /\ 2 \in 1..Len(s[m]) /\ s[m][2] = q.ctes[m].of
      BY <1>5
    <3>4. n \in 1..Len(fs) /\ fs[n] = BaseAt(c, q, i)
      BY <1>10, <3>1, <3>2, <3>3 DEF Placed
    <3>5. n \in 1..Len(g) /\ n \in 1..Len(w) /\ n <= Len(fs)
      BY <1>14, <1>15, <1>16, <3>4
    <3>6. reads[n].table = BaseAt(c, q, i) /\ n \in 1..Len(reads)
      BY <1>14, <1>15, <1>17, <3>4, <3>5
    <3>7. At(i, n)
      BY <2>1, <3>1, <3>2, <3>3, <3>5, <3>6 DEF Direct
    <3> QED
      BY <3>7
  <2>2. CASE q.from[i].kind # "cte"
    <3>1. PICK n : n = Len(fs) + pt[<<i, 1>>]
      OBVIOUS
    <3>2. i \in 1..Len(t) /\ 1 \in 1..Len(t[i]) /\ t[i][1] = q.from[i].rel
      <4>1. i \in 1..Len(t)
        BY <1>1, <1>6
      <4>2. Listed(t[i]) /\ Len(t[i]) >= 1 /\ t[i][1] = q.from[i].rel
        BY <1>6, <4>1
      <4>3. Len(t[i]) \in Nat
        BY <4>2, ListedIs
      <4> QED
        BY <4>1, <4>2, <4>3
    <3>3. pt[<<i, 1>>] \in 1..Len(ft) /\ ft[pt[<<i, 1>>]] = q.from[i].rel
      BY <1>11, <3>2 DEF Placed
    <3>4. n \in 1..Len(g) /\ n \in 1..Len(w) /\ n > Len(fs) /\ g[n] = q.from[i].rel
      BY <1>14, <1>15, <1>16, <3>1, <3>3
    <3>5. reads[n].table = q.from[i].rel /\ n \in 1..Len(reads)
      BY <1>15, <1>17, <3>4
    <3>6. At(i, n)
      BY <2>2, <3>1, <3>4, <3>5 DEF Direct
    <3> QED
      BY <3>6
  <2> QED
    BY <2>1, <2>2
<1>19. ASSUME NEW i \in DOMAIN q.from, NEW j \in DOMAIN q.from, i # j
       PROVE \E n, m \in 1..Len(reads) :
               n # m /\ reads[n].table = Direct(c, q, i) /\ reads[m].table = Direct(c, q, j)
  <2>1. PICK n : At(i, n)
    BY <1>18
  <2>2. PICK m : At(j, m)
    BY <1>18
  <2>3. n # m
    <3>1. n \in Nat /\ m \in Nat /\ Len(fs) \in Nat
      BY <1>16, <2>1, <2>2
    <3>2. CASE q.from[i].kind = "cte" /\ q.from[j].kind = "cte"
      <4>1. q.from[i].rel # q.from[j].rel
        BY <1>19, <3>2 DEF CtesOnce
      <4>2. PICK k \in 1..Len(s) : q.ctes[k].name = q.from[i].rel /\ n = ps[<<k, 2>>]
        BY <2>1, <3>2
      <4>3. PICK l \in 1..Len(s) : q.ctes[l].name = q.from[j].rel /\ m = ps[<<l, 2>>]
        BY <2>2, <3>2
      <4>4. k # l /\ 2 \in 1..Len(s[k]) /\ 2 \in 1..Len(s[l])
        BY <1>5, <4>1, <4>2, <4>3
      <4> QED
        BY <1>10, <4>2, <4>3, <4>4 DEF Placed
    <3>3. CASE q.from[i].kind = "cte" /\ q.from[j].kind # "cte"
      <4>1. n <= Len(fs) /\ m > Len(fs)
        BY <2>1, <2>2, <3>3
      <4> QED
        BY <3>1, <4>1
    <3>4. CASE q.from[i].kind # "cte" /\ q.from[j].kind = "cte"
      <4>1. m <= Len(fs) /\ n > Len(fs)
        BY <2>1, <2>2, <3>4
      <4> QED
        BY <3>1, <4>1
    <3>5. CASE q.from[i].kind # "cte" /\ q.from[j].kind # "cte"
      <4>1. i \in 1..Len(t) /\ j \in 1..Len(t)
        BY <1>1, <1>6
      <4>2. Listed(t[i]) /\ Len(t[i]) >= 1 /\ Listed(t[j]) /\ Len(t[j]) >= 1
        BY <1>6, <4>1
      <4>3. 1 \in 1..Len(t[i]) /\ 1 \in 1..Len(t[j])
        BY <4>2, ListedIs
      <4>4. pt[<<i, 1>>] # pt[<<j, 1>>] /\ pt[<<i, 1>>] \in 1..Len(ft) /\ pt[<<j, 1>>] \in 1..Len(ft)
        BY <1>11, <1>19, <4>1, <4>3 DEF Placed
      <4>5. n = Len(fs) + pt[<<i, 1>>] /\ m = Len(fs) + pt[<<j, 1>>]
        BY <2>1, <2>2, <3>5
      <4> QED
        BY <1>16, <4>4, <4>5
    <3> QED
      BY <3>2, <3>3, <3>4, <3>5
  <2> QED
    BY <2>1, <2>2, <2>3
<1> QED
  BY <1>17, <1>19 DEF TwoRead

LEMMA TextReads ==
  ASSUME NEW d, NEW q, Accepted(d, q), NEW c, c = d.catalog, CtesOnce(q)
  PROVE  /\ TwoRead(c, q, ReadSides(q).reads)
         /\ ReadSides(q) = [reads |-> ReadSides(q).reads, qualifiers |-> ReadSides(q).qualifiers]
         /\ ReadSides(q).qualifiers \in {None, Qualifiers(q)}
<1>1. CASE q.parsed
  BY <1>1, ParsedReads DEF ReadSides
<1>2. CASE ~q.parsed
  <2>1. PICK reads : reads = [i \in DOMAIN Words(q) |-> [table |-> Words(q)[i], alias |-> None]]
    OBVIOUS
  <2>2. TwoRead(c, q, reads)
    BY <2>1, WordReads
  <2>3. ReadSides(q) = [reads |-> reads, qualifiers |-> None]
    BY <1>2, <2>1 DEF ReadSides
  <2> QED
    BY <2>2, <2>3
<1> QED
  BY <1>1, <1>2

-----------------------------------------------------------------------------
(* What a side tells *)

LEMMA TwoAreMore == ASSUME NEW S, IsFiniteSet(S), NEW a \in S, NEW b \in S, a # b PROVE Cardinality(S) \in Nat /\ Cardinality(S) > 1
<1>1. /\ IsFiniteSet(S \ {a}) /\ Cardinality(S \ {a}) = Cardinality(S) - 1
      /\ Cardinality(S) \in Nat
  BY FS_RemoveElement, FS_CardinalityType
<1>2. Cardinality(S \ {a}) \in Nat /\ (Cardinality(S \ {a}) = 0 <=> S \ {a} = {})
  BY <1>1, FS_CardinalityType, FS_EmptySet
<1>3. S \ {a} # {}
  OBVIOUS
<1> QED
  BY <1>1, <1>2, <1>3

LEMMA SideTold ==
  ASSUME NEW sides, Listed(sides.reads), NEW table, NEW column, NEW name,
         NEW n \in 1..Len(sides.reads), NEW m \in 1..Len(sides.reads), n # m,
         sides.reads[n].table = table, sides.reads[m].table = table,
         Side(sides, table, column, name) # Unknown
  PROVE  /\ sides.qualifiers # None /\ column \in DOMAIN sides.qualifiers /\ sides.qualifiers[column] # None
         /\ Side(sides, table, column, name) = Alias(sides.qualifiers[column].qual)
<1>1. PICK reads : reads = {i \in DOMAIN sides.reads : sides.reads[i].table = table}
  OBVIOUS
<1>2. DOMAIN sides.reads = 1..Len(sides.reads) /\ Len(sides.reads) \in Nat
  BY ListedIs
<1>3. IsFiniteSet(reads)
  <2>1. IsFiniteSet(1..Len(sides.reads))
    BY <1>2, FS_Interval
  <2>2. reads \subseteq 1..Len(sides.reads)
    BY <1>1, <1>2
  <2> QED
    BY <2>1, <2>2, FS_Subset
<1>4. n \in reads /\ m \in reads
  BY <1>1, <1>2
<1>5. ~(Cardinality(reads) <= 1)
  BY <1>3, <1>4, TwoAreMore
<1>6. PICK item : item = IF sides.qualifiers = None \/ column \notin DOMAIN sides.qualifiers THEN None
                         ELSE sides.qualifiers[column]
  OBVIOUS
<1>7. CASE /\ item # None
           /\ item.col = name
           /\ \A i \in reads : sides.reads[i].alias # None
           /\ \E i \in reads : sides.reads[i].alias = item.qual
  <2>1. Side(sides, table, column, name) = Alias(item.qual)
    BY <1>1, <1>5, <1>6, <1>7 DEF Side
  <2>2. sides.qualifiers # None /\ column \in DOMAIN sides.qualifiers /\ item = sides.qualifiers[column]
    BY <1>6, <1>7
  <2> QED
    BY <1>7, <2>1, <2>2
<1>8. CASE ~(/\ item # None
             /\ item.col = name
             /\ \A i \in reads : sides.reads[i].alias # None
             /\ \E i \in reads : sides.reads[i].alias = item.qual)
  <2>1. Side(sides, table, column, name) = Unknown
    BY <1>1, <1>5, <1>6, <1>8 DEF Side
  <2> QED
    BY <2>1
<1> QED
  BY <1>7, <1>8

\* An item that is named by a qualifier is the factor's of that name.
LEMMA Qualified ==
  ASSUME NEW d, NEW q, Accepted(d, q), NEW c, c = d.catalog, NEW quals, quals = Qualifiers(q), quals # None,
         NEW p \in DOMAIN quals, quals[p] # None, NEW x, x = ResultColumns(c, q)[p], x.at # 0
  PROVE  x.at \in DOMAIN q.from /\ quals[p].qual = NameOf(q.from[x.at])
<1>1. /\ quals = [i \in DOMAIN q.items |->
                    IF q.items[i].qual = None THEN None
                    ELSE [qual |-> q.items[i].qual, col |-> q.items[i].col]]
      /\ ~(q.clause = "union" \/ \E i \in DOMAIN q.items : q.items[i].col = "*")
  BY DEF Qualifiers
<1>2. Starless(q)
  BY <1>1 DEF Starless
<1>3. DOMAIN q.items = 1..Len(q.items)
  BY ListedIs DEF Accepted
<1>4. p \in 1..Len(q.items) /\ q.items[p].qual # None /\ quals[p] = [qual |-> q.items[p].qual, col |-> q.items[p].col]
  BY <1>1, <1>3
<1>5. Shows(c, q, q.items[p], x)
  BY <1>2, <1>4, ColumnsAre
<1>6. q.items[p].col # "*"
  BY <1>2, <1>3, <1>4 DEF Starless
<1> QED
  BY <1>4, <1>5, <1>6 DEF Shows

\* Two columns of one side are one factor's, where the text has two reads.
LEMMA SideIsFactor ==
  ASSUME NEW d, NEW q, Accepted(d, q), NEW c, c = d.catalog,
         NEW sides, Listed(sides.reads), sides.qualifiers \in {None, Qualifiers(q)},
         NEW table, NEW n \in 1..Len(sides.reads), NEW m \in 1..Len(sides.reads), n # m,
         sides.reads[n].table = table, sides.reads[m].table = table,
         NEW p, NEW r, NEW x, NEW y, NEW a, NEW b,
         x = ResultColumns(c, q)[p], y = ResultColumns(c, q)[r], x.at # 0, y.at # 0,
         Side(sides, table, p, a) = Side(sides, table, r, b), Side(sides, table, p, a) # Unknown
  PROVE  x.at = y.at
<1>1. PICK quals : quals = sides.qualifiers
  OBVIOUS
<1>2. /\ quals # None /\ p \in DOMAIN quals /\ quals[p] # None
      /\ Side(sides, table, p, a) = Alias(quals[p].qual)
  BY <1>1, SideTold
<1>3. /\ r \in DOMAIN quals /\ quals[r] # None
      /\ Side(sides, table, r, b) = Alias(quals[r].qual)
  BY <1>1, SideTold
<1>4. quals[p].qual = quals[r].qual
  <2>1. Alias(quals[p].qual) = Alias(quals[r].qual)
    BY <1>2, <1>3, Zenon
  <2> QED
    BY <2>1 DEF Alias
<1>5. quals = Qualifiers(q)
  BY <1>1, <1>2
<1>6. x.at \in DOMAIN q.from /\ quals[p].qual = NameOf(q.from[x.at])
  BY <1>2, <1>5, Qualified
<1>7. y.at \in DOMAIN q.from /\ quals[r].qual = NameOf(q.from[y.at])
  BY <1>2, <1>3, <1>5, Qualified
<1>8. \A i, j \in DOMAIN q.from : NameOf(q.from[i]) = NameOf(q.from[j]) => i = j
  BY DEF Accepted
<1> QED
  BY <1>4, <1>6, <1>7, <1>8, Zenon

-----------------------------------------------------------------------------
(* The adapters whose drivers name a column's table *)

BaseOf(c, t) == IF t \in DOMAIN c.views THEN c.views[t] ELSE t
TableAt(e, c, q, i) == IF e = "postgres" /\ q.from[i].kind = "view" THEN q.from[i].rel ELSE BaseAt(c, q, i)
Tracing == {"postgres", "mysql", "sqlite", "mssql"}

LEMMA BaseIs ==
  ASSUME NEW d, NEW q, Accepted(d, q), NEW c, c = d.catalog, NEW i \in DOMAIN q.from
  PROVE  /\ BaseAt(c, q, i) \in DOMAIN d.rows /\ BaseAt(c, q, i) \notin DOMAIN c.views
         /\ q.from[i].kind = "view" => q.from[i].rel \in DOMAIN c.views /\ BaseAt(c, q, i) = c.views[q.from[i].rel]
         /\ q.from[i].kind \in {"table", "derived"} => BaseAt(c, q, i) = q.from[i].rel
         /\ q.from[i].kind \in {"table", "view", "cte", "derived"}
<1>1. FactorThere(d, q, i)
  BY DEF Accepted
<1>2. q.from[i].kind = "view" => BaseAt(c, q, i) = c.views[q.from[i].rel]
  BY DEF BaseAt, Base
<1>3. q.from[i].kind \in {"table", "derived"} => BaseAt(c, q, i) = q.from[i].rel
  BY DEF BaseAt, Base
<1> QED
  BY <1>1, <1>2, <1>3 DEF FactorThere

TraceOf(e, c, q, o, x) == x.at # 0 /\ x.at \in DOMAIN q.from /\ o.name = x.col /\ o.table = TableAt(e, c, q, x.at)

LEMMA TracedIs ==
  ASSUME NEW d, NEW q, Accepted(d, q), NEW c, c = d.catalog, NEW e,
         NEW p \in DOMAIN Traced(e, c, q), Traced(e, c, q)[p] # None
  PROVE  TraceOf(e, c, q, Traced(e, c, q)[p], ResultColumns(c, q)[p]) /\ (q.clause = "union" => e = "sqlite")
<1>0. PICK o, x : o = Traced(e, c, q)[p] /\ x = ResultColumns(c, q)[p]
  OBVIOUS
<1>1. PICK f : f = ResultColumns(c, q)
  OBVIOUS
<1>2. DOMAIN f = 1..Len(f)
  BY <1>1, ColumnsAre, ListedIs
<1>3. p \in DOMAIN f
  BY <1>1 DEF Traced
<1>4. o = IF x.at = 0 \/ (q.clause = "union" /\ e # "sqlite") THEN None
          ELSE Origin(TableAt(e, c, q, x.at), x.col)
  BY <1>0, <1>1, <1>3 DEF Traced, TableAt
<1>5. x.at # 0 /\ ~(q.clause = "union" /\ e # "sqlite") /\ o = [table |-> TableAt(e, c, q, x.at), name |-> x.col]
  BY <1>0, <1>4 DEF Origin
<1>6. PICK k \in DOMAIN q.items : Shows(c, q, q.items[k], x)
  BY <1>0, <1>1, <1>2, <1>3, ColumnsAre
<1>7. TraceOf(e, c, q, o, x)
  BY <1>5, <1>6 DEF Shows, TraceOf
<1> QED
  BY <1>0, <1>5, <1>7

\* SQLite's reads, those inside a view after the text's own.
LEMMA ExpandedReads ==
  ASSUME NEW d, NEW q, Accepted(d, q), NEW c, c = d.catalog, CtesOnce(q), NEW sides, sides = SidesFor("sqlite", c, q)
  PROVE  /\ Listed(sides.reads) /\ sides.qualifiers \in {None, Qualifiers(q)}
         /\ \A i, j \in DOMAIN q.from : i # j =>
              \E n, m \in 1..Len(sides.reads) : /\ n # m /\ sides.reads[n].table = BaseAt(c, q, i)
                                               /\ sides.reads[m].table = BaseAt(c, q, j)
<1>1. PICK read, quals : read = ReadSides(q).reads /\ quals = ReadSides(q).qualifiers
  OBVIOUS
<1>2. TwoRead(c, q, read) /\ quals \in {None, Qualifiers(q)} /\ ReadSides(q) = [reads |-> read, qualifiers |-> quals]
  BY <1>1, TextReads
<1>3. Listed(read) /\ DOMAIN read = 1..Len(read) /\ Len(read) \in Nat
  BY <1>2, ListedIs DEF TwoRead
<1>4. PICK s : s = [i \in 1..Len(read) |-> Inside(read[i], c.views)]
  OBVIOUS
<1>5. PICK f : f = FlattenSeq(s)
  OBVIOUS
<1>6. sides = [reads |-> read \o f, qualifiers |-> quals]
  <2>1. PICK text : text = ReadSides(q)
    OBVIOUS
  <2>2. text = [reads |-> read, qualifiers |-> quals]
    BY <1>2, <2>1
  <2>3. sides = ExpandViews(text, c.views)
    BY <2>1 DEF SidesFor
  <2>4. s = [i \in DOMAIN read |-> Inside(read[i], c.views)]
    BY <1>3, <1>4
  <2>5. sides = [text EXCEPT !.reads = read \o f]
    BY <1>5, <2>2, <2>3, <2>4 DEF ExpandViews
  <2> QED
    BY <2>2, <2>5
<1>7. Listed(s) /\ Len(s) = Len(read)
  <2>1. s = [i \in 1..Len(read) |-> s[i]]
    BY <1>4
  <2> QED
    BY <1>3, <2>1, Mapped
<1>8. ASSUME NEW i \in 1..Len(s)
      PROVE  /\ Listed(s[i])
             /\ read[i].table \in DOMAIN c.views => Len(s[i]) = 1 /\ s[i][1].table = c.views[read[i].table]
  <2>1. s[i] = Inside(read[i], c.views)
    BY <1>4, <1>7
  <2>2. CASE read[i].table \in DOMAIN c.views
    <3>1. PICK x : x = [table |-> c.views[read[i].table], alias |-> None]
      OBVIOUS
    <3>2. s[i] = <<x>>
      BY <2>1, <2>2, <3>1 DEF Inside
    <3> QED
      BY <3>1, <3>2, OneListed
  <2>3. CASE read[i].table \notin DOMAIN c.views
    BY <2>1, <2>3, NoneListed DEF Inside
  <2> QED
    BY <2>2, <2>3
<1>9. PICK at : Placed(s, f, at)
  <2>1. \A i \in 1..Len(s) : Listed(s[i])
    BY <1>8
  <2> QED
    BY <1>5, <1>7, <2>1, FlatPlaces
<1>10. PICK g : g = read \o f
  OBVIOUS
<1>11. Listed(f) /\ Len(f) \in Nat
  <2>1. \A i \in 1..Len(s) : Listed(s[i])
    BY <1>8
  <2> QED
    BY <1>5, <1>7, <2>1, FlatElements, ListedIs
<1>12. Join(read, f, g)
  BY <1>3, <1>10, <1>11, Joined
<1> DEFINE At(n, k) == \/ k = n /\ k <= Len(read)
                       \/ n \in 1..Len(s) /\ 1 \in 1..Len(s[n]) /\ k = Len(read) + at[<<n, 1>>] /\ k > Len(read)
<1>13. ASSUME NEW i \in DOMAIN q.from, NEW n \in 1..Len(read), read[n].table = Direct(c, q, i)
       PROVE \E k \in 1..Len(g) : At(n, k) /\ g[k].table = BaseAt(c, q, i)
  <2>1. CASE q.from[i].kind = "view"
    <3>1. read[n].table \in DOMAIN c.views /\ BaseAt(c, q, i) = c.views[read[n].table]
      BY <1>13, <2>1, BaseIs DEF Direct
    <3>2. n \in 1..Len(s) /\ 1 \in 1..Len(s[n]) /\ s[n][1].table = BaseAt(c, q, i)
      BY <1>7, <1>8, <3>1
    <3>3. at[<<n, 1>>] \in 1..Len(f) /\ f[at[<<n, 1>>]] = s[n][1]
      BY <1>9, <3>2 DEF Placed
    <3>4. PICK k : k = Len(read) + at[<<n, 1>>]
      OBVIOUS
    <3>5. g[k] = s[n][1] /\ Len(g) = Len(read) + Len(f)
      BY <1>12, <3>3, <3>4 DEF Join
    <3>6. k \in 1..Len(g) /\ k > Len(read)
      BY <1>3, <1>11, <3>3, <3>4, <3>5
    <3> QED
      BY <3>2, <3>4, <3>5, <3>6
  <2>2. CASE q.from[i].kind # "view"
    <3>1. Direct(c, q, i) = BaseAt(c, q, i)
      BY <2>2, BaseIs DEF Direct
    <3>2. g[n] = read[n] /\ Len(g) = Len(read) + Len(f)
      BY <1>12 DEF Join
    <3>3. n \in 1..Len(g) /\ n <= Len(read)
      BY <1>3, <1>11, <3>2
    <3> QED
      BY <1>13, <3>1, <3>2, <3>3
  <2> QED
    BY <2>1, <2>2
<1>14. ASSUME NEW i \in DOMAIN q.from, NEW j \in DOMAIN q.from, i # j
       PROVE \E k, l \in 1..Len(g) : k # l /\ g[k].table = BaseAt(c, q, i) /\ g[l].table = BaseAt(c, q, j)
  <2>1. PICK n \in 1..Len(read), m \in 1..Len(read) :
          n # m /\ read[n].table = Direct(c, q, i) /\ read[m].table = Direct(c, q, j)
    BY <1>2, <1>14 DEF TwoRead
  <2>2. PICK k \in 1..Len(g) : At(n, k) /\ g[k].table = BaseAt(c, q, i)
    BY <1>13, <2>1
  <2>3. PICK l \in 1..Len(g) : At(m, l) /\ g[l].table = BaseAt(c, q, j)
    BY <1>13, <2>1
  <2>4. k # l
    <3>1. CASE /\ n \in 1..Len(s) /\ 1 \in 1..Len(s[n]) /\ k = Len(read) + at[<<n, 1>>]
               /\ m \in 1..Len(s) /\ 1 \in 1..Len(s[m]) /\ l = Len(read) + at[<<m, 1>>]
      <4>1. at[<<n, 1>>] # at[<<m, 1>>] /\ at[<<n, 1>>] \in 1..Len(f) /\ at[<<m, 1>>] \in 1..Len(f)
        BY <1>9, <2>1, <3>1 DEF Placed
      <4> QED
        BY <1>3, <1>11, <3>1, <4>1
    <3>2. CASE k = n /\ k <= Len(read)
      BY <1>3, <2>1, <2>2, <2>3, <3>2
    <3>3. CASE l = m /\ l <= Len(read)
      BY <1>3, <2>1, <2>2, <2>3, <3>3
    <3> QED
      BY <2>2, <2>3, <3>1, <3>2, <3>3
  <2> QED
    BY <2>2, <2>3, <2>4
<1>15. sides.reads = g /\ sides.qualifiers = quals /\ Listed(g)
  BY <1>6, <1>10, <1>12 DEF Join
<1> QED
  BY <1>2, <1>14, <1>15

\* An adapter's origins are true of the columns they are of, and those of one
\* table and one side are of one factor.
Tells(e, c, q) ==
  \A p \in DOMAIN Origins(e, c, q) : \A o, x :
    o = Origins(e, c, q)[p] /\ o # None /\ x = ResultColumns(c, q)[p] =>
      x.at # 0 /\ x.at \in DOMAIN q.from /\ o.name = x.col /\ BaseOf(c, o.table) = BaseAt(c, q, x.at)
OneFactor(e, c, q) ==
  \A p, r \in DOMAIN Origins(e, c, q) : \A o, u :
    /\ o = Origins(e, c, q)[p] /\ o # None /\ u = Origins(e, c, q)[r] /\ u # None
    /\ o.table = u.table
    /\ Side(SidesFor(e, c, q), o.table, p, o.name) = Side(SidesFor(e, c, q), u.table, r, u.name)
    /\ Side(SidesFor(e, c, q), o.table, p, o.name) # Unknown
    => ResultColumns(c, q)[p].at = ResultColumns(c, q)[r].at

LEMMA TracedTells ==
  ASSUME NEW d, NEW q, Accepted(d, q), NEW c, c = d.catalog, NEW e \in Tracing
  PROVE  Tells(e, c, q)
<1>1. Origins(e, c, q) = Traced(e, c, q)
  BY DEF Origins, Tracing
<1>2. ASSUME NEW p \in DOMAIN Traced(e, c, q), NEW o, o = Traced(e, c, q)[p], o # None, NEW x, x = ResultColumns(c, q)[p]
      PROVE  x.at # 0 /\ x.at \in DOMAIN q.from /\ o.name = x.col /\ BaseOf(c, o.table) = BaseAt(c, q, x.at)
  <2>1. x.at # 0 /\ x.at \in DOMAIN q.from /\ o.name = x.col /\ o.table = TableAt(e, c, q, x.at)
    <3>1. TraceOf(e, c, q, Traced(e, c, q)[p], ResultColumns(c, q)[p])
      BY <1>2, TracedIs
    <3> QED
      BY <1>2, <3>1 DEF TraceOf
  <2>2. BaseOf(c, TableAt(e, c, q, x.at)) = BaseAt(c, q, x.at)
    BY <2>1, BaseIs DEF TableAt, BaseOf
  <2> QED
    BY <2>1, <2>2
<1> QED
  BY <1>1, <1>2 DEF Tells

LEMMA NotMisjudged ==
  ASSUME NEW d, NEW q, Accepted(d, q), NEW c, NEW e, ~Misjudged(e, c, q)
  PROVE  /\ CtesOnce(q)
         /\ \A i, j \in DOMAIN q.from :
              i # j /\ e \in {"mysql", "mssql"} /\ BaseAt(c, q, i) = BaseAt(c, q, j) => q.from[i].kind # "view"
         /\ e \in {"oracle", "scylla"} => \A i \in DOMAIN q.items : q.items[i].as = q.items[i].col
<1>1. CtesOnce(q)
  BY DEF Misjudged, CtesOnce
<1>2. ASSUME NEW i \in DOMAIN q.from, NEW j \in DOMAIN q.from, i # j, e \in {"mysql", "mssql"},
             BaseAt(c, q, i) = BaseAt(c, q, j), q.from[i].kind = "view"
      PROVE  FALSE
  <2>1. PICK S : S = {k \in DOMAIN q.from : BaseAt(c, q, k) = BaseAt(c, q, i)}
    OBVIOUS
  <2>2. i \in S /\ j \in S
    BY <1>2, <2>1
  <2>3. IsFiniteSet(S)
    <3>1. DOMAIN q.from = 1..Len(q.from) /\ Len(q.from) \in Nat
      BY ListedIs DEF Accepted
    <3>2. IsFiniteSet(1..Len(q.from))
      BY <3>1, FS_Interval
    <3>3. S \subseteq 1..Len(q.from)
      BY <2>1, <3>1
    <3> QED
      BY <3>2, <3>3, FS_Subset
  <2>4. Cardinality(S) > 1
    BY <1>2, <2>2, <2>3, TwoAreMore
  <2>5. TimesRead(c, q, BaseAt(c, q, i)) > 1
    BY <2>1, <2>4 DEF TimesRead
  <2> QED
    BY <1>2, <2>5 DEF Misjudged
<1>3. ASSUME e \in {"oracle", "scylla"} PROVE \A i \in DOMAIN q.items : q.items[i].as = q.items[i].col
  BY <1>3 DEF Misjudged
<1> QED
  BY <1>1, <1>2, <1>3

LEMMA TracedOneFactor ==
  ASSUME NEW d, NEW q, Accepted(d, q), NEW c, c = d.catalog, NEW e \in Tracing, ~Misjudged(e, c, q)
  PROVE  OneFactor(e, c, q)
<1>1. Origins(e, c, q) = Traced(e, c, q)
  BY DEF Origins, Tracing
<1>2. PICK sides : sides = SidesFor(e, c, q)
  OBVIOUS
<1>3. CtesOnce(q)
  BY NotMisjudged
<1>4. ASSUME NEW i \in DOMAIN q.from, NEW j \in DOMAIN q.from, i # j, TableAt(e, c, q, i) = TableAt(e, c, q, j)
      PROVE  /\ Listed(sides.reads) /\ sides.qualifiers \in {None, Qualifiers(q)}
             /\ \E n, m \in 1..Len(sides.reads) : /\ n # m /\ sides.reads[n].table = TableAt(e, c, q, i)
                                                  /\ sides.reads[m].table = TableAt(e, c, q, i)
  <2>1. CASE e = "sqlite"
    <3>1. TableAt(e, c, q, i) = BaseAt(c, q, i) /\ TableAt(e, c, q, j) = BaseAt(c, q, j)
      BY <2>1 DEF TableAt
    <3>2. sides = SidesFor("sqlite", c, q)
      BY <1>2, <2>1
    <3>3. /\ Listed(sides.reads) /\ sides.qualifiers \in {None, Qualifiers(q)}
          /\ \E n, m \in 1..Len(sides.reads) : /\ n # m /\ sides.reads[n].table = BaseAt(c, q, i)
                                               /\ sides.reads[m].table = BaseAt(c, q, j)
      BY <1>3, <1>4, <3>2, ExpandedReads
    <3> QED
      BY <1>4, <3>1, <3>3
  <2>2. CASE e # "sqlite"
    <3>1. sides = ReadSides(q)
      BY <1>2, <2>2 DEF SidesFor, Tracing
    <3>2. TwoRead(c, q, sides.reads) /\ sides.qualifiers \in {None, Qualifiers(q)}
      BY <1>3, <3>1, TextReads
    <3>3. TableAt(e, c, q, i) = Direct(c, q, i) /\ TableAt(e, c, q, j) = Direct(c, q, j)
      <4>1. CASE e = "postgres"
        BY <4>1, BaseIs DEF TableAt, Direct
      <4>2. CASE e # "postgres"
        <5>1. TableAt(e, c, q, i) = BaseAt(c, q, i) /\ TableAt(e, c, q, j) = BaseAt(c, q, j)
          BY <4>2 DEF TableAt
        <5>2. e \in {"mysql", "mssql"}
          BY <2>2, <4>2 DEF Tracing
        <5>3. q.from[i].kind # "view" /\ q.from[j].kind # "view"
          BY <1>4, <5>1, <5>2, NotMisjudged
        <5> QED
          BY <5>1, <5>3, BaseIs DEF Direct
      <4> QED
        BY <4>1, <4>2
    <3>4. PICK n \in 1..Len(sides.reads), m \in 1..Len(sides.reads) :
            n # m /\ sides.reads[n].table = Direct(c, q, i) /\ sides.reads[m].table = Direct(c, q, j)
      BY <1>4, <3>2 DEF TwoRead
    <3>5. Listed(sides.reads)
      BY <3>2 DEF TwoRead
    <3> QED
      BY <1>4, <3>2, <3>3, <3>4, <3>5
  <2> QED
    BY <2>1, <2>2
<1>5. ASSUME NEW p \in DOMAIN Traced(e, c, q), NEW r \in DOMAIN Traced(e, c, q),
             NEW o, o = Traced(e, c, q)[p], o # None, NEW u, u = Traced(e, c, q)[r], u # None,
             o.table = u.table, Side(sides, o.table, p, o.name) = Side(sides, u.table, r, u.name),
             Side(sides, o.table, p, o.name) # Unknown
      PROVE  ResultColumns(c, q)[p].at = ResultColumns(c, q)[r].at
  <2>1. PICK x, y : x = ResultColumns(c, q)[p] /\ y = ResultColumns(c, q)[r]
    OBVIOUS
  <2>2. x.at # 0 /\ x.at \in DOMAIN q.from /\ o.table = TableAt(e, c, q, x.at)
    <3>1. TraceOf(e, c, q, Traced(e, c, q)[p], ResultColumns(c, q)[p])
      BY <1>5, TracedIs
    <3> QED
      BY <1>5, <2>1, <3>1 DEF TraceOf
  <2>3. y.at # 0 /\ y.at \in DOMAIN q.from /\ u.table = TableAt(e, c, q, y.at)
    <3>1. TraceOf(e, c, q, Traced(e, c, q)[r], ResultColumns(c, q)[r])
      BY <1>5, TracedIs
    <3> QED
      BY <1>5, <2>1, <3>1 DEF TraceOf
  <2>4. CASE x.at # y.at
    <3>1. TableAt(e, c, q, x.at) = TableAt(e, c, q, y.at)
      BY <1>5, <2>2, <2>3
    <3>2. Listed(sides.reads) /\ sides.qualifiers \in {None, Qualifiers(q)}
      BY <1>4, <2>2, <2>3, <2>4, <3>1
    <3>3. PICK n \in 1..Len(sides.reads), m \in 1..Len(sides.reads) :
            n # m /\ sides.reads[n].table = o.table /\ sides.reads[m].table = o.table
      BY <1>4, <2>2, <2>3, <2>4, <3>1
    <3>4. PICK t, a, b : t = o.table /\ a = o.name /\ b = u.name
      OBVIOUS
    <3>5. Side(sides, t, p, a) = Side(sides, t, r, b) /\ Side(sides, t, p, a) # Unknown
      BY <1>5, <3>4
    <3> QED
      BY <2>1, <2>2, <2>3, <3>2, <3>3, <3>4, <3>5, SideIsFactor
  <2> QED
    BY <2>1, <2>4
<1> QED
  BY <1>1, <1>2, <1>5 DEF OneFactor

-----------------------------------------------------------------------------
(* The adapters that know columns by the names shown *)

LEMMA NamedTells ==
  ASSUME NEW d, NEW q, Accepted(d, q), NEW c, c = d.catalog, NEW e \in {"oracle", "scylla"},
         Traceable(e, q), ~Misjudged(e, c, q)
  PROVE  Tells(e, c, q) /\ OneFactor(e, c, q)
<1>1. Origins(e, c, q) = ByName(c, q)
  BY DEF Origins
<1>2. SingleTable(q)
  BY DEF Traceable
<1>3. Len(q.from) = 1 /\ q.from[1].kind \in {"table", "view"} /\ DOMAIN q.from = 1..1 /\ 1 \in DOMAIN q.from
  BY <1>2, ListedIs DEF SingleTable, Accepted
<1>4. PICK f : f = ResultColumns(c, q)
  OBVIOUS
<1>5. DOMAIN f = 1..Len(f)
  BY <1>4, ColumnsAre, ListedIs
<1>6. BaseOf(c, q.from[1].rel) = BaseAt(c, q, 1)
  BY <1>3, BaseIs DEF BaseOf
<1>7. ASSUME NEW p \in DOMAIN ByName(c, q), NEW o, o = ByName(c, q)[p], o # None, NEW x, x = f[p]
      PROVE  x.at = 1 /\ o.name = x.col /\ o.table = q.from[1].rel
  <2>1. p \in DOMAIN f
    BY <1>4 DEF ByName
  <2>2. o = IF Contains(c.cols[BaseAt(c, q, 1)], x.as) THEN Origin(q.from[1].rel, x.as) ELSE None
    BY <1>4, <1>7, <2>1 DEF ByName
  <2>3. Contains(c.cols[BaseAt(c, q, 1)], x.as) /\ o = [table |-> q.from[1].rel, name |-> x.as]
    BY <1>7, <2>2 DEF Origin
  <2>4. PICK k \in DOMAIN q.items : Shows(c, q, q.items[k], x)
    BY <1>4, <1>5, <1>7, <2>1, ColumnsAre
  <2>5. q.items[k].as = q.items[k].col
    BY NotMisjudged
  <2>6. x.as = x.col
    BY <2>4, <2>5 DEF Shows
  <2>7. x.at # 0
    <3>1. ~Contains(c.cols[BaseAt(c, q, 1)], "+")
      BY <1>3 DEF Accepted, FactorThere
    <3>2. x.at = 0 => x.as = "+"
      BY <2>4, <2>5 DEF Shows
    <3> QED
      BY <2>3, <3>1, <3>2
  <2> QED
    BY <1>3, <2>3, <2>4, <2>6, <2>7 DEF Shows
<1> QED
  BY <1>1, <1>3, <1>4, <1>6, <1>7 DEF Tells, OneFactor

-----------------------------------------------------------------------------
(* DuckDB's own reading of the query *)

OriginAt(c, q, i, name) ==
  IF Cardinality({j \in DOMAIN q.from : q.from[j].rel = q.from[i].rel}) > 1 \/ ~Contains(c.cols[q.from[i].rel], name)
  THEN None ELSE Origin(q.from[i].rel, name)

\* An origin, if there is one, is the column's, and no other factor has its table.
Match(q, o, x) ==
  o # None => /\ x.at # 0 /\ x.at \in DOMAIN q.from /\ o = Origin(q.from[x.at].rel, x.col)
              /\ \A j \in DOMAIN q.from : q.from[j].rel = q.from[x.at].rel => j = x.at

LEMMA OriginAtIs ==
  ASSUME NEW d, NEW q, Accepted(d, q), NEW c, c = d.catalog, NEW i \in DOMAIN q.from, NEW name,
         NEW x, x.at = i, x.col = name
  PROVE  /\ Match(q, OriginAt(c, q, i, name), x)
         /\ OriginAt(c, q, i, name) # None => Contains(c.cols[q.from[i].rel], name)
<1>1. DOMAIN q.from = 1..Len(q.from) /\ Len(q.from) \in Nat
  BY ListedIs DEF Accepted
<1>2. PICK S : S = {j \in DOMAIN q.from : q.from[j].rel = q.from[i].rel}
  OBVIOUS
<1>3. IsFiniteSet(S)
  <2>1. IsFiniteSet(1..Len(q.from))
    BY <1>1, FS_Interval
  <2>2. S \subseteq 1..Len(q.from)
    BY <1>1, <1>2
  <2> QED
    BY <2>1, <2>2, FS_Subset
<1>4. PICK o : o = OriginAt(c, q, i, name)
  OBVIOUS
<1>5. ASSUME o # None
      PROVE  /\ o = Origin(q.from[i].rel, name) /\ Contains(c.cols[q.from[i].rel], name)
             /\ \A j \in DOMAIN q.from : q.from[j].rel = q.from[i].rel => j = i
  <2>1. /\ ~(Cardinality(S) > 1) /\ Contains(c.cols[q.from[i].rel], name)
        /\ o = Origin(q.from[i].rel, name)
    BY <1>2, <1>4, <1>5 DEF OriginAt
  <2>2. ASSUME NEW j \in DOMAIN q.from, q.from[j].rel = q.from[i].rel, j # i PROVE FALSE
    <3>1. i \in S /\ j \in S
      BY <1>2, <2>2
    <3> QED
      BY <1>3, <2>1, <2>2, <3>1, TwoAreMore
  <2> QED
    BY <2>1, <2>2
<1>6. i # 0
  BY <1>1
<1>7. Match(q, o, x)
  BY <1>5, <1>6 DEF Match
<1> QED
  BY <1>4, <1>5, <1>7

Matching(q, os, xs) == Listed(os) /\ Listed(xs) /\ Len(os) = Len(xs) /\ \A j \in 1..Len(os) : Match(q, os[j], xs[j])

\* What a wildcard is taken for of one factor.
All(c, q, i) == [j \in DOMAIN c.cols[q.from[i].rel] |-> OriginAt(c, q, i, c.cols[q.from[i].rel][j])]

LEMMA AllIs ==
  ASSUME NEW d, NEW q, Accepted(d, q), NEW c, c = d.catalog, NEW i \in DOMAIN q.from, q.from[i].kind = "table",
         q.join # "using" \/ i = 1
  PROVE  Matching(q, All(c, q, i), Whole(c, q, i))
<1>1. PICK names : names = c.cols[q.from[i].rel]
  OBVIOUS
<1>2. BaseAt(c, q, i) = q.from[i].rel
  BY BaseIs
<1>3. Merged(c, q, i) = names
  BY <1>1, <1>2 DEF Merged
<1>4. /\ Listed(names) /\ Len(Whole(c, q, i)) = Len(names)
      /\ \A j \in 1..Len(Whole(c, q, i)) : Whole(c, q, i)[j] = [at |-> i, col |-> names[j], as |-> names[j]]
  <2>1. /\ Listed(c.cols[BaseAt(c, q, i)]) /\ Len(Whole(c, q, i)) = Len(Merged(c, q, i))
        /\ \A j \in 1..Len(Whole(c, q, i)) :
             Whole(c, q, i)[j] = [at |-> i, col |-> Merged(c, q, i)[j], as |-> Merged(c, q, i)[j]]
    BY WholeIs
  <2> QED
    BY <1>1, <1>2, <1>3, <2>1
<1>5. DOMAIN names = 1..Len(names) /\ Len(names) \in Nat
  BY <1>4, ListedIs
<1>6. PICK a : a = All(c, q, i)
  OBVIOUS
<1>7. a = [j \in 1..Len(names) |-> OriginAt(c, q, i, names[j])]
  BY <1>1, <1>5, <1>6 DEF All
<1>8. Listed(a) /\ Len(a) = Len(names)
  <2>1. a = [j \in 1..Len(names) |-> a[j]]
    BY <1>7
  <2> QED
    BY <1>5, <2>1, Mapped
<1>9. ASSUME NEW j \in 1..Len(a) PROVE Match(q, a[j], Whole(c, q, i)[j])
  <2>1. a[j] = OriginAt(c, q, i, names[j])
    BY <1>7, <1>8
  <2>2. PICK x : x = Whole(c, q, i)[j]
    OBVIOUS
  <2>3. x.at = i /\ x.col = names[j]
    <3>1. j \in 1..Len(Whole(c, q, i))
      BY <1>4, <1>8
    <3>2. x = [at |-> i, col |-> names[j], as |-> names[j]]
      BY <1>4, <2>2, <3>1
    <3> QED
      BY <3>2
  <2>4. Match(q, OriginAt(c, q, i, names[j]), x)
    BY <2>3, OriginAtIs
  <2> QED
    BY <2>1, <2>2, <2>4
<1>10. Listed(Whole(c, q, i))
  BY WholeIs
<1> QED
  BY <1>4, <1>6, <1>8, <1>9, <1>10 DEF Matching

LEMMA MatchingFlat ==
  ASSUME NEW q, NEW s, NEW t, Listed(s), Listed(t), Len(s) = Len(t), \A i \in 1..Len(s) : Matching(q, s[i], t[i])
  PROVE  Matching(q, FlattenSeq(s), FlattenSeq(t))
<1>1. \A i \in 1..Len(s) : Listed(s[i]) /\ Listed(t[i]) /\ Len(s[i]) = Len(t[i])
  BY DEF Matching
<1>2. PICK f, g : f = FlattenSeq(s) /\ g = FlattenSeq(t)
  OBVIOUS
<1>3. Paired(s, t, f, g)
  BY <1>1, <1>2, FlatPair
<1>4. ASSUME NEW p \in 1..Len(f) PROVE Match(q, f[p], g[p])
  <2>1. PICK i \in 1..Len(s) : \E j \in 1..Len(s[i]) : f[p] = s[i][j] /\ g[p] = t[i][j]
    BY <1>3 DEF Paired
  <2>2. PICK j \in 1..Len(s[i]) : f[p] = s[i][j] /\ g[p] = t[i][j]
    BY <2>1
  <2>3. Match(q, s[i][j], t[i][j])
    BY DEF Matching
  <2> QED
    BY <2>2, <2>3
<1> QED
  BY <1>2, <1>3, <1>4 DEF Matching, Paired

LEMMA MatchingOne == ASSUME NEW q, NEW o, NEW x, Match(q, o, x) PROVE Matching(q, <<o>>, <<x>>)
<1>1. PICK os, xs : os = <<o>> /\ xs = <<x>>
  OBVIOUS
<1>2. Listed(os) /\ Len(os) = 1 /\ \A j \in 1..Len(os) : os[j] = o
  BY <1>1, OneListed
<1>3. Listed(xs) /\ Len(xs) = 1 /\ \A j \in 1..Len(xs) : xs[j] = x
  BY <1>1, OneListed
<1> QED
  BY <1>1, <1>2, <1>3 DEF Matching

LEMMA ParsedIs ==
  ASSUME NEW d, NEW q, Accepted(d, q), NEW c, c = d.catalog, Described(q),
         NEW k \in DOMAIN q.items, NEW item, item = q.items[k],
         item.col # "*" \/ q.join # "using" \/ Len(q.from) = 1
  PROVE  Matching(q, Parsed(c, q, item), Expanded(c, q, item))
<1>0. DOMAIN q.from = 1..Len(q.from) /\ Len(q.from) \in Nat /\ Listed(q.from)
  BY ListedIs DEF Accepted
<1>1. \A i \in DOMAIN q.from : q.from[i].kind = "table" /\ BaseAt(c, q, i) = q.from[i].rel
  BY BaseIs DEF Described
<1>2. CASE item.col = "*"
  <2>0. q.join # "using" \/ Len(q.from) = 1
    BY <1>2
  <2>1. ASSUME NEW i \in DOMAIN q.from PROVE q.join # "using" \/ i = 1
    <3>1. CASE q.join # "using"
      BY <3>1
    <3>2. CASE Len(q.from) = 1
      BY <1>0, <3>2
    <3> QED
      BY <2>0, <3>1, <3>2
  <2>2. PICK w, a : w = [i \in DOMAIN q.from |-> Whole(c, q, i)] /\ a = [i \in DOMAIN q.from |-> All(c, q, i)]
    OBVIOUS
  <2>3. Expanded(c, q, item) = FlattenSeq(w)
    BY <1>2, <2>2 DEF Expanded, Whole, Merged
  <2>4. Parsed(c, q, item) = FlattenSeq(a)
    BY <1>2, <2>2 DEF Parsed, All, OriginAt
  <2>5. Listed(w) /\ Len(w) = Len(q.from)
    <3>1. w = [i \in 1..Len(q.from) |-> w[i]]
      BY <1>0, <2>2
    <3> QED
      BY <1>0, <3>1, Mapped
  <2>6. Listed(a) /\ Len(a) = Len(q.from)
    <3>1. a = [i \in 1..Len(q.from) |-> a[i]]
      BY <1>0, <2>2
    <3> QED
      BY <1>0, <3>1, Mapped
  <2>7. ASSUME NEW i \in 1..Len(a) PROVE Matching(q, a[i], w[i])
    <3>1. i \in DOMAIN q.from /\ a[i] = All(c, q, i) /\ w[i] = Whole(c, q, i)
      BY <1>0, <2>2, <2>6
    <3>2. Matching(q, All(c, q, i), Whole(c, q, i))
      BY <1>1, <2>1, <3>1, AllIs
    <3> QED
      BY <3>1, <3>2
  <2> QED
    BY <2>3, <2>4, <2>5, <2>6, <2>7, MatchingFlat
<1>3. CASE item.col = "+"
  <2>1. Expanded(c, q, item) = <<[at |-> 0, col |-> "+", as |-> item.as]>>
    BY <1>3 DEF Expanded
  <2>2. Parsed(c, q, item) = <<None>>
    BY <1>3 DEF Parsed
  <2>3. Match(q, None, [at |-> 0, col |-> "+", as |-> item.as])
    BY DEF Match
  <2> QED
    BY <2>1, <2>2, <2>3, MatchingOne
<1>4. CASE item.col \notin {"*", "+"}
  <2>1. PICK h \in DOMAIN q.from : Having(c, q, item) = {h}
    BY <1>4 DEF Accepted
  <2>2. PICK x : x = [at |-> h, col |-> item.col, as |-> item.as]
    OBVIOUS
  <2>3. Expanded(c, q, item) = <<x>>
    <3>1. (CHOOSE i \in Having(c, q, item) : TRUE) = h
      BY <2>1
    <3> QED
      BY <1>4, <2>2, <3>1 DEF Expanded
  <2> DEFINE H == {i \in IF item.qual = None THEN DOMAIN q.from ELSE Scopes(q, item.qual) :
                     item.qual # None \/ OriginAt(c, q, i, item.col) # None}
  <2>5. CASE Cardinality(H) # 1
    <3>1. Parsed(c, q, item) = <<None>>
      BY <1>4, <2>5 DEF Parsed, OriginAt
    <3>2. Match(q, None, x)
      BY DEF Match
    <3> QED
      BY <2>3, <3>1, <3>2, MatchingOne
  <2>6. CASE Cardinality(H) = 1
    <3>1. H \subseteq DOMAIN q.from
      BY DEF Scopes
    <3>2. IsFiniteSet(H)
      <4>1. IsFiniteSet(1..Len(q.from))
        BY <1>0, FS_Interval
      <4> QED
        BY <1>0, <3>1, <4>1, FS_Subset
    <3>3. PICK i : H = {i}
      BY <2>6, <3>2, FS_Singleton
    <3>4. i \in DOMAIN q.from
      BY <3>1, <3>3
    <3>5. Parsed(c, q, item) = <<OriginAt(c, q, i, item.col)>>
      <4>1. (CHOOSE j \in H : TRUE) = i
        BY <3>3
      <4>2. Parsed(c, q, item) = <<OriginAt(c, q, CHOOSE j \in H : TRUE, item.col)>>
        BY <1>4, <2>6 DEF Parsed, OriginAt
      <4> HIDE DEF H
      <4> QED
        BY <4>1, <4>2
    <3>6. Match(q, OriginAt(c, q, i, item.col), x)
      <4>1. CASE OriginAt(c, q, i, item.col) = None
        BY <4>1 DEF Match
      <4>2. CASE OriginAt(c, q, i, item.col) # None
        <5>1. PICK y : y = [at |-> i, col |-> item.col]
          OBVIOUS
        <5>2. Contains(c.cols[BaseAt(c, q, i)], item.col)
          BY <1>1, <3>4, <4>2, <5>1, OriginAtIs
        <5>3. h \in Having(c, q, item)
          BY <2>1
        <5>4. i = h
          <6>1. CASE item.qual = None
            <7>1. i \in Having(c, q, item)
              BY <3>4, <5>2, <6>1 DEF Having
            <7> QED
              BY <2>1, <7>1
          <6>2. CASE item.qual # None
            <7>1. item.qual = NameOf(q.from[h])
              BY <5>3, <6>2 DEF Having
            <7>2. h \in Scopes(q, item.qual)
              BY <7>1 DEF Scopes
            <7>3. h \in H
              BY <6>2, <7>2
            <7> QED
              BY <3>3, <7>3
          <6> QED
            BY <6>1, <6>2
        <5> QED
          BY <2>2, <3>4, <5>4, OriginAtIs
      <4> QED
        BY <4>1, <4>2
    <3> QED
      BY <2>3, <3>5, <3>6, MatchingOne
  <2> QED
    BY <2>5, <2>6
<1> QED
  BY <1>2, <1>3, <1>4

\* A wildcard over two tables is taken for more columns than the join leaves.
LEMMA ParsedLonger ==
  ASSUME NEW d, NEW q, Accepted(d, q), NEW c, c = d.catalog, Described(q), q.join = "using", Len(q.from) = 2,
         NEW item, item.col = "*"
  PROVE  /\ Listed(Parsed(c, q, item)) /\ Listed(Expanded(c, q, item))
         /\ Len(Parsed(c, q, item)) > Len(Expanded(c, q, item))
<1>0. DOMAIN q.from = 1..2 /\ Listed(q.from)
  BY ListedIs DEF Accepted
<1>1. \A i \in DOMAIN q.from : q.from[i].kind = "table" /\ BaseAt(c, q, i) = q.from[i].rel
  BY BaseIs DEF Described
<1>2. PICK w, a : w = [i \in DOMAIN q.from |-> Whole(c, q, i)] /\ a = [i \in DOMAIN q.from |-> All(c, q, i)]
  OBVIOUS
<1>3. Expanded(c, q, item) = FlattenSeq(w)
  BY <1>2 DEF Expanded, Whole, Merged
<1>4. Parsed(c, q, item) = FlattenSeq(a)
  BY <1>2 DEF Parsed, All, OriginAt
<1>5. Listed(w) /\ Len(w) = 2 /\ Listed(a) /\ Len(a) = 2
  <2>1. w = [i \in 1..2 |-> w[i]] /\ a = [i \in 1..2 |-> a[i]]
    BY <1>0, <1>2
  <2> QED
    BY <2>1, Mapped
<1>6. ASSUME NEW i \in 1..2
      PROVE  /\ Listed(a[i]) /\ Listed(w[i]) /\ Len(a[i]) >= Len(w[i])
             /\ i = 2 => Len(a[i]) > Len(w[i])
  <2>1. PICK names, merged : names = c.cols[q.from[i].rel] /\ merged = Merged(c, q, i)
    OBVIOUS
  <2>2. /\ Listed(names) /\ Listed(Whole(c, q, i)) /\ Listed(merged)
        /\ Len(Whole(c, q, i)) = Len(merged)
    BY <1>0, <1>1, <2>1, WholeIs
  <2>3. Contains(names, "id")
    BY <1>0, <1>1, <2>1 DEF Accepted, FactorThere
  <2>4. DOMAIN names = 1..Len(names) /\ Len(names) \in Nat
    BY <2>2, ListedIs
  <2>5. a[i] = [j \in 1..Len(names) |-> OriginAt(c, q, i, names[j])]
    BY <1>0, <1>2, <2>1, <2>4 DEF All
  <2>6. Listed(a[i]) /\ Len(a[i]) = Len(names)
    <3>1. a[i] = [j \in 1..Len(names) |-> a[i][j]]
      BY <2>5
    <3> QED
      BY <2>4, <3>1, Mapped
  <2>7. CASE i = 1
    <3>1. merged = names
      BY <1>0, <1>1, <2>1, <2>7 DEF Merged
    <3>2. w[i] = Whole(c, q, i)
      BY <1>0, <1>2
    <3> QED
      BY <2>2, <2>4, <2>6, <2>7, <3>1, <3>2
  <2>8. CASE i = 2
    <3>0. names = c.cols[BaseAt(c, q, i)]
      BY <1>0, <1>1, <2>1
    <3>1. PICK j : j = CHOOSE k \in DOMAIN c.cols[BaseAt(c, q, i)] : c.cols[BaseAt(c, q, i)][k] = "id"
      OBVIOUS
    <3>2. j \in 1..Len(names)
      <4>1. \E k \in DOMAIN c.cols[BaseAt(c, q, i)] : c.cols[BaseAt(c, q, i)][k] = "id"
        BY <2>3, <2>4, <3>0 DEF Contains
      <4>2. j \in DOMAIN c.cols[BaseAt(c, q, i)]
        BY <3>1, <4>1
      <4> QED
        BY <2>4, <3>0, <4>2
    <3>3. merged = RemoveAt(names, j)
      <4>1. ~(q.join # "using" \/ i = 1)
        BY <2>8
      <4>2. merged = RemoveAt(c.cols[BaseAt(c, q, i)], j)
        BY <2>1, <3>1, <4>1, Zenon DEF Merged
      <4> QED
        BY <3>0, <4>2
    <3>4. Len(merged) = Len(names) - 1
      BY <2>2, <3>2, <3>3, WithoutOne
    <3>5. w[i] = Whole(c, q, i)
      BY <1>0, <1>2
    <3> QED
      BY <2>2, <2>4, <2>6, <3>4, <3>5
  <2> QED
    BY <2>7, <2>8
<1>7. Len(FlattenSeq(a)) > Len(FlattenSeq(w))
  <2>1. \A i \in 1..Len(a) : Listed(a[i]) /\ Listed(w[i]) /\ Len(a[i]) >= Len(w[i])
    BY <1>5, <1>6
  <2>2. 2 \in 1..Len(a) /\ Len(a[2]) > Len(w[2])
    BY <1>5, <1>6
  <2> QED
    BY <1>5, <2>1, <2>2, FlatLonger
<1>8. Listed(FlattenSeq(a)) /\ Listed(FlattenSeq(w))
  BY <1>5, <1>6, FlatElements
<1> QED
  BY <1>3, <1>4, <1>7, <1>8

\* Either DuckDB's own reading is the result's columns, one for one, or it is
\* given up.
LEMMA OwnOriginsAre ==
  ASSUME NEW d, NEW q, Accepted(d, q), NEW c, c = d.catalog, Described(q)
  PROVE  OwnOrigins(c, q) = <<>> \/ Matching(q, OwnOrigins(c, q), ResultColumns(c, q))
<1>1. DOMAIN q.items = 1..Len(q.items) /\ Len(q.items) \in Nat /\ Len(q.from) \in 1..2
  BY ListedIs DEF Accepted
<1>2. PICK s, t : /\ s = [k \in DOMAIN q.items |-> Parsed(c, q, q.items[k])]
                  /\ t = [k \in DOMAIN q.items |-> Expanded(c, q, q.items[k])]
  OBVIOUS
<1>3. Listed(s) /\ Len(s) = Len(q.items)
  <2>1. s = [k \in 1..Len(q.items) |-> s[k]]
    BY <1>1, <1>2
  <2> QED
    BY <1>1, <2>1, Mapped
<1>4. Listed(t) /\ Len(t) = Len(q.items)
  <2>1. t = [k \in 1..Len(q.items) |-> t[k]]
    BY <1>1, <1>2
  <2> QED
    BY <1>1, <2>1, Mapped
<1>5. \A k \in 1..Len(s) : /\ k \in DOMAIN q.items /\ s[k] = Parsed(c, q, q.items[k])
                           /\ t[k] = Expanded(c, q, q.items[k])
  BY <1>1, <1>2, <1>3
<1>6. ASSUME NEW k \in 1..Len(s), q.items[k].col # "*" \/ q.join # "using" \/ Len(q.from) = 1
      PROVE  Matching(q, s[k], t[k])
  <2>1. Matching(q, Parsed(c, q, q.items[k]), Expanded(c, q, q.items[k]))
    BY <1>5, <1>6, ParsedIs
  <2> QED
    BY <1>5, <2>1
<1>7. PICK f, x, o : f = FlattenSeq(s) /\ x = ResultColumns(c, q) /\ o = OwnOrigins(c, q)
  OBVIOUS
<1>8. x = FlattenSeq(t)
  BY <1>2, <1>7 DEF ResultColumns
<1>9. o = IF Len(f) = Len(x) THEN f ELSE <<>>
  BY <1>2, <1>7 DEF OwnOrigins
<1>10. CASE \E n \in 1..Len(s) : ~(q.items[n].col # "*" \/ q.join # "using" \/ Len(q.from) = 1)
  <2>1. PICK n \in 1..Len(s) : ~(q.items[n].col # "*" \/ q.join # "using" \/ Len(q.from) = 1)
    BY <1>10
  <2>2. q.join = "using" /\ Len(q.from) = 2
    BY <1>1, <2>1
  <2>3. ASSUME NEW k \in 1..Len(s), q.items[k].col = "*"
        PROVE  Listed(s[k]) /\ Listed(t[k]) /\ Len(s[k]) > Len(t[k])
    <3>1. PICK item : item = q.items[k]
      OBVIOUS
    <3>2. /\ Listed(Parsed(c, q, item)) /\ Listed(Expanded(c, q, item))
          /\ Len(Parsed(c, q, item)) > Len(Expanded(c, q, item))
      BY <2>2, <2>3, <3>1, ParsedLonger
    <3> QED
      BY <1>5, <3>1, <3>2
  <2>4. ASSUME NEW k \in 1..Len(s) PROVE Listed(s[k]) /\ Listed(t[k]) /\ Len(s[k]) >= Len(t[k])
    <3>1. CASE q.items[k].col = "*"
      <4>1. Listed(s[k]) /\ Listed(t[k]) /\ Len(s[k]) > Len(t[k])
        BY <2>3, <3>1
      <4> QED
        BY <4>1, ListedIs
    <3>2. CASE q.items[k].col # "*"
      <4>1. Listed(s[k]) /\ Listed(t[k]) /\ Len(s[k]) = Len(t[k])
        BY <1>6, <3>2 DEF Matching
      <4> QED
        BY <4>1, ListedIs
    <3> QED
      BY <3>1, <3>2
  <2>5. Len(s[n]) > Len(t[n])
    BY <2>1, <2>3
  <2>6. Len(f) > Len(x)
    BY <1>3, <1>4, <1>7, <1>8, <2>4, <2>5, FlatLonger
  <2>7. Len(f) # Len(x)
    <3>1. Listed(f) /\ Listed(x)
      BY <1>3, <1>4, <1>7, <1>8, <2>4, FlatElements
    <3> QED
      BY <2>6, <3>1, ListedIs
  <2> QED
    BY <1>7, <1>9, <2>7
<1>11. CASE \A n \in 1..Len(s) : q.items[n].col # "*" \/ q.join # "using" \/ Len(q.from) = 1
  <2>1. \A k \in 1..Len(s) : Matching(q, s[k], t[k])
    BY <1>6, <1>11
  <2>2. Matching(q, f, x)
    BY <1>3, <1>4, <1>7, <1>8, <2>1, MatchingFlat
  <2>3. o = f
    BY <1>9, <2>2 DEF Matching
  <2> QED
    BY <1>7, <2>2, <2>3
<1> QED
  BY <1>10, <1>11

LEMMA DuckDbTells ==
  ASSUME NEW d, NEW q, Accepted(d, q), NEW c, c = d.catalog, Traceable("duckdb", q)
  PROVE  Tells("duckdb", c, q) /\ OneFactor("duckdb", c, q)
<1>1. Described(q)
  BY DEF Traceable
<1>2. Origins("duckdb", c, q) = OwnOrigins(c, q)
  BY DEF Origins
<1>3. PICK o, x : o = OwnOrigins(c, q) /\ x = ResultColumns(c, q)
  OBVIOUS
<1>4. o = <<>> \/ Matching(q, o, x)
  BY <1>1, <1>3, OwnOriginsAre
<1>5. ASSUME NEW p \in DOMAIN o PROVE Match(q, o[p], x[p])
  <2>1. o # <<>>
    BY <1>5
  <2>2. Matching(q, o, x)
    BY <1>4, <2>1
  <2>3. p \in 1..Len(o)
    BY <1>5, <2>2, ListedIs DEF Matching
  <2> QED
    BY <2>2, <2>3 DEF Matching
<1>6. ASSUME NEW p \in DOMAIN o, o[p] # None
       PROVE  /\ x[p].at # 0 /\ x[p].at \in DOMAIN q.from /\ o[p] = [table |-> q.from[x[p].at].rel, name |-> x[p].col]
              /\ \A j \in DOMAIN q.from : q.from[j].rel = q.from[x[p].at].rel => j = x[p].at
  BY <1>5, <1>6 DEF Match, Origin
<1>7. ASSUME NEW i \in DOMAIN q.from PROVE BaseOf(c, q.from[i].rel) = BaseAt(c, q, i)
  BY <1>1, BaseIs DEF Described, BaseOf
<1>8. Tells("duckdb", c, q)
  <2>1. ASSUME NEW p \in DOMAIN o, o[p] # None
        PROVE  /\ x[p].at # 0 /\ x[p].at \in DOMAIN q.from /\ o[p].name = x[p].col
               /\ BaseOf(c, o[p].table) = BaseAt(c, q, x[p].at)
    BY <1>6, <1>7, <2>1
  <2> QED
    BY <1>2, <1>3, <2>1 DEF Tells
<1>9. OneFactor("duckdb", c, q)
  <2>1. ASSUME NEW p \in DOMAIN o, NEW r \in DOMAIN o, o[p] # None, o[r] # None, o[p].table = o[r].table
        PROVE x[p].at = x[r].at
    <3>1. x[p].at \in DOMAIN q.from /\ o[p].table = q.from[x[p].at].rel
      BY <1>6, <2>1
    <3>2. o[r].table = q.from[x[r].at].rel
      BY <1>6, <2>1
    <3>3. \A j \in DOMAIN q.from : q.from[j].rel = q.from[x[r].at].rel => j = x[r].at
      BY <1>6, <2>1
    <3> QED
      BY <2>1, <3>1, <3>2, <3>3
  <2> QED
    BY <1>2, <1>3, <2>1 DEF OneFactor
<1> QED
  BY <1>8, <1>9

-----------------------------------------------------------------------------
(* What TableBinder lets be edited *)

BuiltOf(origins, sides, t) ==
  /\ t.key # {} /\ t.key \subseteq {b.column : b \in t.columns} /\ t.columns # {}
  /\ \A b \in t.columns :
       /\ b.column \in DOMAIN origins /\ origins[b.column] # None
       /\ b.table = origins[b.column].table /\ b.name = origins[b.column].name /\ b.table = t.name
       /\ Side(sides, b.table, b.column, b.name) # Unknown
  /\ \A b, x \in t.columns : Side(sides, b.table, b.column, b.name) = Side(sides, x.table, x.column, x.name)

LEMMA KeyIsShown ==
  ASSUME NEW columns, NEW keys, NEW every PROVE KeyShown(columns, keys, every) \subseteq {b.column : b \in columns}
<1>1. ASSUME NEW name PROVE ShownAt(columns, name) \subseteq {b.column : b \in columns}
  BY DEF ShownAt
<1> DEFINE whole == {i \in DOMAIN keys : /\ keys[i] # <<>>
                                           /\ \A j \in DOMAIN keys[i] : ShownAt(columns, keys[i][j]) # {}}
           first == CHOOSE i \in whole : \A j \in whole : i <= j
<1>2. KeyShown(columns, keys, every) =
        IF whole # {} THEN UNION {ShownAt(columns, keys[first][j]) : j \in DOMAIN keys[first]}
        ELSE IF every THEN {b.column : b \in columns} ELSE {}
  BY Zenon DEF KeyShown
<1> HIDE DEF whole, first
<1>4. \/ KeyShown(columns, keys, every) = UNION {ShownAt(columns, keys[first][j]) : j \in DOMAIN keys[first]}
      \/ KeyShown(columns, keys, every) = {b.column : b \in columns}
      \/ KeyShown(columns, keys, every) = {}
  BY <1>2, Zenon
<1> QED
  BY <1>1, <1>4

LEMMA BuiltIs ==
  ASSUME NEW origins, NEW sides, NEW keys, NEW every, NEW t \in Build(origins, sides, keys, every)
  PROVE  BuiltOf(origins, sides, t)
<1>1. PICK g \in Groups(Bind(origins), sides) :
        /\ t = [name |-> (CHOOSE b \in g : TRUE).table,
                key |-> KeyShown(g, keys[(CHOOSE b \in g : TRUE).table], every), columns |-> g]
        /\ t.key # {}
  BY DEF Build
<1>2. PICK one : one = CHOOSE b \in g : TRUE
  OBVIOUS
<1>3. t.columns = g /\ t.name = one.table /\ t.key = KeyShown(g, keys[one.table], every) /\ t.key # {}
  BY <1>1, <1>2
<1>4. t.key \subseteq {b.column : b \in t.columns}
  BY <1>3, KeyIsShown
<1>5. PICK bound : bound = Bind(origins)
  OBVIOUS
<1> DEFINE side(b) == Side(sides, b.table, b.column, b.name)
<1>6. PICK sure : sure = {b \in bound : \A c \in bound : c.table = b.table => side(c) # Unknown}
  OBVIOUS
<1>7. PICK a \in sure : g = {c \in sure : c.table = a.table /\ side(c) = side(a)}
  BY <1>5, <1>6 DEF Groups
<1>8. a \in g /\ one \in g
  BY <1>2, <1>7
<1>9. ASSUME NEW b \in g
      PROVE  /\ b.column \in DOMAIN origins /\ origins[b.column] # None
             /\ b.table = origins[b.column].table /\ b.name = origins[b.column].name
             /\ b.table = t.name /\ side(b) # Unknown /\ side(b) = side(a)
  <2>1. b \in bound /\ side(b) # Unknown /\ side(b) = side(a) /\ b.table = a.table
    BY <1>6, <1>7
  <2>2. one.table = a.table
    BY <1>7, <1>8
  <2>3. PICK i \in DOMAIN origins : /\ origins[i] # None
                                   /\ b = [column |-> i, table |-> origins[i].table, name |-> origins[i].name]
    BY <1>5, <2>1 DEF Bind
  <2> QED
    BY <1>3, <2>1, <2>2, <2>3
<1>10. ASSUME NEW b \in g, NEW x \in g PROVE side(b) = side(x)
  BY <1>9
<1> QED
  BY <1>3, <1>4, <1>8, <1>9, <1>10 DEF BuiltOf

\* The columns a table is edited through are one factor's, each the column it is
\* taken for.
Editable(c, q, t) ==
  \E a \in DOMAIN q.from :
    /\ BaseOf(c, t.name) = BaseAt(c, q, a)
    /\ t.key # {} /\ t.key \subseteq {b.column : b \in t.columns}
    /\ \A b \in t.columns : ResultColumns(c, q)[b.column].at = a /\ ResultColumns(c, q)[b.column].col = b.name

LEMMA AdapterTells ==
  ASSUME NEW d, NEW q, Accepted(d, q), NEW c, c = d.catalog, NEW e \in Adapters, Traceable(e, q), ~Misjudged(e, c, q)
  PROVE  Tells(e, c, q) /\ OneFactor(e, c, q)
<1>1. CASE e \in Tracing
  BY <1>1, TracedTells, TracedOneFactor
<1>2. CASE e \in {"oracle", "scylla"}
  BY <1>2, NamedTells
<1>3. CASE e = "duckdb"
  BY <1>3, DuckDbTells
<1> QED
  BY <1>1, <1>2, <1>3, AdaptersKnown DEF Tracing

LEMMA SourceIs ==
  ASSUME NEW d, NEW q, Accepted(d, q), NEW c, c = d.catalog, NEW e \in Adapters, NEW have,
         NEW t \in SourceOf(e, c, q, have)
  PROVE  q.clause # "union" /\ (~Misjudged(e, c, q) => Editable(c, q, t))
<1>1. PICK origins, sides : origins = Origins(e, c, q) /\ sides = SidesFor(e, c, q)
  OBVIOUS
<1>2. PICK bound : bound = [i \in DOMAIN origins |->
                             IF origins[i] # None /\ origins[i].table \in DOMAIN have THEN origins[i] ELSE None]
  OBVIOUS
<1>3. Traceable(e, q) /\ t \in Build(bound, sides, have, EveryColumn(e, q))
  BY <1>1, <1>2 DEF SourceOf
<1>4. BuiltOf(bound, sides, t)
  BY <1>3, BuiltIs
<1>5. ASSUME NEW b \in t.columns
      PROVE  /\ b.column \in DOMAIN origins /\ origins[b.column] # None
             /\ b.name = origins[b.column].name /\ b.table = origins[b.column].table /\ b.table = t.name
             /\ Side(sides, b.table, b.column, b.name) # Unknown
  <2>1. /\ b.column \in DOMAIN bound /\ bound[b.column] # None
        /\ b.table = bound[b.column].table /\ b.name = bound[b.column].name /\ b.table = t.name
        /\ Side(sides, b.table, b.column, b.name) # Unknown
    BY <1>4 DEF BuiltOf
  <2>2. b.column \in DOMAIN origins
    BY <1>2, <2>1
  <2>3. bound[b.column] = origins[b.column]
    BY <1>2, <2>1, <2>2
  <2> QED
    BY <2>1, <2>2, <2>3
<1>6. PICK one \in t.columns : TRUE
  BY <1>4 DEF BuiltOf
<1>7. q.clause # "union"
  <2>1. CASE e \in Tracing
    <3>1. origins = Traced(e, c, q)
      BY <1>1, <2>1 DEF Origins, Tracing
    <3>2. PICK p : p = one.column
      OBVIOUS
    <3>3. q.clause = "union" => e = "sqlite"
      <4>1. p \in DOMAIN Traced(e, c, q) /\ Traced(e, c, q)[p] # None
        BY <1>5, <1>6, <3>1, <3>2
      <4> QED
        BY <4>1, TracedIs
    <3> QED
      BY <1>3, <3>3 DEF Traceable
  <2>2. CASE e \in {"oracle", "scylla"}
    BY <1>3, <2>2 DEF Traceable, SingleTable, Plain
  <2>3. CASE e = "duckdb"
    BY <1>3, <2>3 DEF Traceable, Described, Plain
  <2> QED
    BY <2>1, <2>2, <2>3, AdaptersKnown DEF Tracing
<1>8. ASSUME ~Misjudged(e, c, q) PROVE Editable(c, q, t)
  <2>1. Tells(e, c, q) /\ OneFactor(e, c, q)
    BY <1>3, <1>8, AdapterTells
  <2>2. ASSUME NEW b \in t.columns
        PROVE  /\ ResultColumns(c, q)[b.column].at \in DOMAIN q.from /\ b.name = ResultColumns(c, q)[b.column].col
               /\ BaseOf(c, t.name) = BaseAt(c, q, ResultColumns(c, q)[b.column].at)
    BY <1>1, <1>5, <2>1 DEF Tells
  <2>3. PICK a : a = ResultColumns(c, q)[one.column].at
    OBVIOUS
  <2>4. ASSUME NEW b \in t.columns PROVE ResultColumns(c, q)[b.column].at = a
    <3>1. Side(sides, b.table, b.column, b.name) = Side(sides, one.table, one.column, one.name)
      BY <1>4, <1>6 DEF BuiltOf
    <3>2. PICK p, r, o, u : p = b.column /\ r = one.column /\ o = origins[p] /\ u = origins[r]
      OBVIOUS
    <3>3. /\ p \in DOMAIN origins /\ r \in DOMAIN origins /\ o # None /\ u # None
          /\ o.table = t.name /\ u.table = t.name
          /\ Side(sides, o.table, p, o.name) = Side(sides, u.table, r, u.name)
          /\ Side(sides, o.table, p, o.name) # Unknown
      BY <1>5, <1>6, <3>1, <3>2
    <3>4. ResultColumns(c, q)[p].at = ResultColumns(c, q)[r].at
      BY <1>1, <2>1, <3>2, <3>3 DEF OneFactor
    <3> QED
      BY <2>3, <3>2, <3>4
  <2> QED
    BY <1>4, <1>6, <2>2, <2>3, <2>4 DEF Editable, BuiltOf
<1> QED
  BY <1>7, <1>8

-----------------------------------------------------------------------------
(* The invariant *)

\* A database of the tables of one of those that there are.
SameTables(d) ==
  /\ \E d0 \in Databases : d.catalog = d0.catalog /\ DOMAIN d.rows = DOMAIN d0.rows
  /\ d = [catalog |-> d.catalog, keys |-> d.keys, rows |-> d.rows]
  /\ d.rows = [t \in DOMAIN d.rows |-> d.rows[t]]

\* The tables offered for editing are each one factor's of the query.
Ready(e, c, q, tables) ==
  \A t \in tables : /\ q \in Queries /\ q.clause # "union"
                    /\ ~Misjudged(e, c, q) => Editable(c, q, t)

\* `ed` is what an edit changed and what it was made on.
EditOK(e, d, q, tables, ed) ==
  /\ e \in Adapters
  /\ SameTables(d)
  /\ ed = {} => Ready(e, d.catalog, q, tables)
  /\ \A x \in ed : ~Misjudged(e, d.catalog, q) /\ x.stays => x.hit = x.of
EditInv == EditOK(adapter, db, query, source, edited)

LEMMA StillAccepted == ASSUME NEW d, SameTables(d), NEW q \in Queries PROVE Accepted(d, q)
<1>1. PICK d0 \in Databases : d.catalog = d0.catalog /\ DOMAIN d.rows = DOMAIN d0.rows
  BY DEF SameTables
<1>2. Accepted(d0, q)
  BY QueriesAccepted
<1>3. ASSUME NEW i \in DOMAIN q.from PROVE FactorThere(d, q, i)
  <2>1. FactorThere(d0, q, i)
    BY <1>2 DEF Accepted
  <2> QED
    BY <1>1, <2>1 DEF FactorThere
<1> QED
  BY <1>1, <1>2, <1>3 DEF Accepted

-----------------------------------------------------------------------------
(* An edit *)

LEMMA ValueIs ==
  ASSUME NEW d, NEW q, Accepted(d, q), NEW c, c = d.catalog, q.clause # "union", NEW a \in DOMAIN q.from, NEW row,
         NEW i, ResultColumns(c, q)[i].at = a, NEW name, ResultColumns(c, q)[i].col = name
  PROVE  /\ CellOf(c, q, row, i) = [at |-> a, col |-> name]
         /\ ValueAt(c, q, row, i) = IF row[a] = None THEN None ELSE row[a].v[name]
<1>1. a # 0
  <2>1. DOMAIN q.from = 1..Len(q.from)
    BY ListedIs DEF Accepted
  <2> QED
    BY <2>1
<1>2. CellOf(c, q, row, i) = [at |-> a, col |-> name]
  BY DEF CellOf
<1>3. PICK cell : cell = CellOf(c, q, row, i)
  OBVIOUS
<1>4. cell.at = a /\ cell.col = name
  BY <1>2, <1>3
<1>5. ValueAt(c, q, row, i) = IF row[a] = None THEN None ELSE row[a].v[name]
  BY <1>1, <1>3, <1>4 DEF ValueAt
<1> QED
  BY <1>2, <1>5

\* The row an edit is located by is the one the cell came from, if that is still
\* found by what was shown of it.
LEMMA EditHits ==
  ASSUME SameTables(db), Ready(adapter, db.catalog, query, source), ~Misjudged(adapter, db.catalog, query),
         NEW row \in shown, NEW table \in source, NEW b \in table.columns, NEW hit, Locate(table, row) = {hit},
         Stays(table, row, b)
  PROVE  [table |-> hit.table, id |-> hit.row.id, col |-> b.name] = CameFrom(db.catalog, query, row, b.column)
<1>1. PICK c, q : c = db.catalog /\ q = query
  OBVIOUS
<1>2. q \in Queries /\ q.clause # "union" /\ Editable(c, q, table)
  BY <1>1 DEF Ready
<1>3. Accepted(db, q)
  BY <1>2, StillAccepted
<1>4. PICK a \in DOMAIN q.from :
        /\ BaseOf(c, table.name) = BaseAt(c, q, a)
        /\ table.key # {} /\ table.key \subseteq {x.column : x \in table.columns}
        /\ \A x \in table.columns : ResultColumns(c, q)[x.column].at = a /\ ResultColumns(c, q)[x.column].col = x.name
  BY <1>2 DEF Editable
<1>5. PICK base : base = BaseAt(c, q, a)
  OBVIOUS
<1> DEFINE name(i) == (CHOOSE x \in table.columns : x.column = i).name
           value(i) == ValueAt(c, q, row, i)
<1>6. ASSUME NEW i \in table.key PROVE value(i) = IF row[a] = None THEN None ELSE row[a].v[name(i)]
  <2>1. PICK x : x = CHOOSE y \in table.columns : y.column = i
    OBVIOUS
  <2>2. \E y \in table.columns : y.column = i
    BY <1>4
  <2>3. x \in table.columns /\ x.column = i
    BY <2>1, <2>2
  <2>4. ResultColumns(c, q)[i].at = a /\ ResultColumns(c, q)[i].col = x.name
    BY <1>4, <2>3
  <2>5. ValueAt(c, q, row, i) = IF row[a] = None THEN None ELSE row[a].v[x.name]
    BY <1>1, <1>2, <1>3, <2>4, ValueIs, SMTT(20)
  <2> QED
    BY <2>1, <2>5
<1>7. Locate(table, row) = IF \A i \in table.key : value(i) = None THEN {}
                           ELSE {[table |-> base, row |-> r] :
                                   r \in {x \in db.rows[base] : \A i \in table.key : x.v[name(i)] = value(i)}}
  <2>1. base = IF table.name \in DOMAIN c.views THEN c.views[table.name] ELSE table.name
    BY <1>4, <1>5 DEF BaseOf
  <2> QED
    BY <1>1, <2>1 DEF Locate
<1> HIDE DEF name, value
<1>8. ~ \A i \in table.key : value(i) = None
  BY <1>7
<1>9. row[a] # None
  BY <1>6, <1>8
<1>10. CellOf(c, q, row, b.column) = [at |-> a, col |-> b.name] /\ a # 0
  <2>1. ResultColumns(c, q)[b.column].at = a /\ ResultColumns(c, q)[b.column].col = b.name
    BY <1>4
  <2>2. DOMAIN q.from = 1..Len(q.from)
    BY <1>3, ListedIs DEF Accepted
  <2> QED
    BY <1>2, <2>1, <2>2 DEF CellOf
<1>11. PICK cell : cell = CellOf(c, q, row, b.column) /\ cell.at = a /\ cell.col = b.name
  BY <1>10
<1> DEFINE names == {x.name : x \in {y \in table.columns : y.column \in table.key}}
<1>12. PICK r \in db.rows[base] : r.id = row[a].id /\ \A n \in names : r.v[n] = row[a].v[n]
  BY <1>1, <1>5, <1>9, <1>10, <1>11 DEF Stays
<1>13. ASSUME NEW i \in table.key PROVE r.v[name(i)] = value(i)
  <2>1. PICK x : x = CHOOSE y \in table.columns : y.column = i
    OBVIOUS
  <2>2. \E y \in table.columns : y.column = i
    BY <1>4
  <2>3. x \in table.columns /\ x.column = i /\ x.name = name(i)
    BY <2>1, <2>2 DEF name
  <2>4. name(i) \in names
    BY <2>3
  <2> HIDE DEF names
  <2> QED
    BY <1>6, <1>9, <1>12, <2>4
<1>14. [table |-> base, row |-> r] \in Locate(table, row)
  BY <1>7, <1>8, <1>12, <1>13
<1>15. hit.table = base /\ hit.row.id = row[a].id
  <2>1. hit = [table |-> base, row |-> r]
    BY <1>14
  <2> QED
    BY <1>12, <2>1
<1>16. CameFrom(c, q, row, b.column) = [table |-> base, id |-> row[a].id, col |-> b.name]
  BY <1>5, <1>9, <1>10, <1>11 DEF CameFrom
<1> QED
  BY <1>1, <1>15, <1>16

-----------------------------------------------------------------------------
(* The steps *)

LEMMA EditInvInit == Init => EditInv
<1>1. ASSUME Init PROVE EditOK(adapter, db, query, source, edited)
  <2>1. db \in Databases /\ adapter \in Adapters /\ source = {} /\ edited = {}
    BY <1>1 DEF Init
  <2>2. SameTables(db)
    BY <2>1, DatabasesWhole DEF SameTables
  <2> QED
    BY <2>1, <2>2 DEF EditOK, Ready
<1> QED
  BY <1>1 DEF EditInv

LEMMA EditInvNext == EditOK(adapter', db', query', source', edited') => EditInv'
BY DEF EditInv

LEMMA RunReady == ASSUME EditInv, Run PROVE EditInv'
<1>1. adapter \in Adapters /\ SameTables(db)
  BY DEF EditInv, EditOK
<1>2. PICK q, have :
        /\ q \in Queries /\ edited = {} /\ query' = q /\ source' = SourceOf(adapter, db.catalog, q, have)
        /\ adapter' = adapter /\ db' = db /\ edited' = edited
  BY DEF Run
<1>3. Accepted(db, q)
  BY <1>1, <1>2, StillAccepted
<1>5. ASSUME NEW t \in SourceOf(adapter, db.catalog, q, have)
      PROVE q.clause # "union" /\ (~Misjudged(adapter, db.catalog, q) => Editable(db.catalog, q, t))
  BY <1>1, <1>3, <1>5, SourceIs
<1>6. Ready(adapter, db.catalog, q, SourceOf(adapter, db.catalog, q, have))
  BY <1>2, <1>5 DEF Ready
<1>7. EditOK(adapter', db', query', source', edited')
  BY <1>1, <1>2, <1>6 DEF EditOK
<1> QED
  BY <1>7, EditInvNext

LEMMA KeysChange ==
  ASSUME NEW d, SameTables(d), NEW t, NEW keys, NEW n, n = [d EXCEPT !.keys[t] = keys]
  PROVE  SameTables(n) /\ n.catalog = d.catalog /\ n.rows = d.rows
<1>1. d = [catalog |-> d.catalog, keys |-> d.keys, rows |-> d.rows]
  BY DEF SameTables
<1>2. n = [catalog |-> d.catalog, keys |-> [d.keys EXCEPT ![t] = keys], rows |-> d.rows]
  BY <1>1
<1>3. n.catalog = d.catalog /\ n.rows = d.rows /\ n.keys = [d.keys EXCEPT ![t] = keys]
  BY <1>2
<1> QED
  BY <1>2, <1>3 DEF SameTables

LEMMA RowsChange ==
  ASSUME NEW d, SameTables(d), NEW t, NEW rows, NEW n, n = [d EXCEPT !.rows[t] = rows]
  PROVE  /\ SameTables(n) /\ n.catalog = d.catalog /\ n.keys = d.keys /\ DOMAIN n.rows = DOMAIN d.rows
         /\ \A u \in DOMAIN d.rows : n.rows[u] = IF u = t THEN rows ELSE d.rows[u]
<1>1. d = [catalog |-> d.catalog, keys |-> d.keys, rows |-> d.rows]
  BY DEF SameTables
<1>2. PICK new : new = [d.rows EXCEPT ![t] = rows]
  OBVIOUS
<1>3. n = [catalog |-> d.catalog, keys |-> d.keys, rows |-> new]
  BY <1>1, <1>2
<1>4. n.catalog = d.catalog /\ n.rows = new /\ n.keys = d.keys
  BY <1>3
<1>5. /\ DOMAIN new = DOMAIN d.rows /\ new = [u \in DOMAIN new |-> new[u]]
      /\ \A u \in DOMAIN d.rows : new[u] = IF u = t THEN rows ELSE d.rows[u]
  BY <1>2
<1> QED
  BY <1>3, <1>4, <1>5 DEF SameTables

LEMMA AlterReady == ASSUME EditInv, Alter PROVE EditInv'
<1>1. adapter \in Adapters /\ SameTables(db)
  BY DEF EditInv, EditOK
<1>2. PICK t, keys : /\ edited = {} /\ db' = [db EXCEPT !.keys[t] = keys] /\ source' = {}
                     /\ adapter' = adapter /\ edited' = edited
  BY DEF Alter, Altered
<1>3. SameTables(db')
  BY <1>1, <1>2, KeysChange
<1>4. EditOK(adapter', db', query', source', edited')
  BY <1>1, <1>2, <1>3 DEF EditOK, Ready
<1> QED
  BY <1>4, EditInvNext

LEMMA OtherAltersReady == ASSUME EditInv, OtherAlters PROVE EditInv'
<1>1. adapter \in Adapters /\ SameTables(db) /\ (edited = {} => Ready(adapter, db.catalog, query, source))
  BY DEF EditInv, EditOK
<1>2. PICK t, keys : edited = {} /\ db' = [db EXCEPT !.keys[t] = keys]
  BY DEF OtherAlters, Altered
<1>3. UNCHANGED <<adapter, query, source, edited>>
  BY DEF OtherAlters
<1>4. SameTables(db') /\ db'.catalog = db.catalog
  BY <1>1, <1>2, KeysChange
<1>5. EditOK(adapter', db', query', source', edited')
  BY <1>1, <1>2, <1>3, <1>4 DEF EditOK
<1> QED
  BY <1>5, EditInvNext

LEMMA RewrittenReady == ASSUME EditInv, NEW t, NEW rows, Rewritten(t, rows) PROVE EditInv'
<1>1. adapter \in Adapters /\ SameTables(db) /\ (edited = {} => Ready(adapter, db.catalog, query, source))
  BY DEF EditInv, EditOK
<1>2. /\ edited = {} /\ db' = [db EXCEPT !.rows[t] = rows]
      /\ UNCHANGED <<adapter, query, source, edited>>
  BY DEF Rewritten
<1>3. SameTables(db') /\ db'.catalog = db.catalog
  BY <1>1, <1>2, RowsChange
<1>4. EditOK(adapter', db', query', source', edited')
  BY <1>1, <1>2, <1>3 DEF EditOK
<1> QED
  BY <1>4, EditInvNext

\* Every step of another session's on rows is one table's rows rewritten.
LEMMA OthersRewrite ==
  ASSUME OtherInserts \/ OtherUpdates \/ OtherDeletes PROVE \E t, rows : Rewritten(t, rows)
BY DEF OtherInserts, OtherUpdates, OtherDeletes

LEMMA EditReady == ASSUME EditInv, Edit PROVE EditInv'
<1>1. adapter \in Adapters /\ SameTables(db) /\ (edited = {} => Ready(adapter, db.catalog, query, source))
  BY DEF EditInv, EditOK
<1>2. PICK row \in shown, table \in source :
        \E b \in table.columns, hit \in Locate(table, row) :
          edited = {} /\ Locate(table, row) = {hit} /\ Change(table, row, b, hit)
  BY DEF Edit
<1>3. PICK b \in table.columns, hit \in Locate(table, row) :
        edited = {} /\ Locate(table, row) = {hit} /\ Change(table, row, b, hit)
  BY <1>2
<1>4. PICK put : put = Put(hit, b.name)
  OBVIOUS
<1>5. PICK x : x = [hit |-> [table |-> hit.table, id |-> hit.row.id, col |-> b.name],
                   of |-> CameFrom(db.catalog, query, row, b.column), stays |-> Stays(table, row, b)]
  OBVIOUS
<1>6. /\ edited' = {x} /\ db' = [db EXCEPT !.rows[hit.table] = put]
      /\ adapter' = adapter /\ query' = query /\ source' = source
  BY <1>3, <1>4, <1>5 DEF Change
<1>7. SameTables(db') /\ db'.catalog = db.catalog
  BY <1>1, <1>6, RowsChange
<1>8. ~Misjudged(adapter, db.catalog, query) /\ x.stays => x.hit = x.of
  BY <1>1, <1>3, <1>5, EditHits
<1>9. EditOK(adapter', db', query', source', edited')
  BY <1>1, <1>6, <1>7, <1>8 DEF EditOK
<1> QED
  BY <1>9, EditInvNext

LEMMA EditInvStep == EditInv /\ [Next]_vars => EditInv'
<1> SUFFICES ASSUME EditInv, [Next]_vars PROVE EditInv'
  OBVIOUS
<1>1. CASE Run
  BY <1>1, RunReady
<1>2. CASE Alter
  BY <1>2, AlterReady
<1>3. CASE OtherAlters
  BY <1>3, OtherAltersReady
<1>4. CASE OtherInserts \/ OtherUpdates \/ OtherDeletes
  BY <1>4, OthersRewrite, RewrittenReady
<1>5. CASE Edit
  BY <1>5, EditReady
<1>6. CASE UNCHANGED vars
  <2>1. /\ adapter' = adapter /\ db' = db /\ query' = query
        /\ source' = source /\ edited' = edited
    BY <1>6 DEF vars
  <2>2. EditOK(adapter', db', query', source', edited')
    BY <2>1 DEF EditInv
  <2> QED
    BY <2>2, EditInvNext
<1> QED
  BY <1>1, <1>2, <1>3, <1>4, <1>5, <1>6 DEF Next

\* An edit that goes through changes the very cell it was made on, for any
\* databases, any queries a database accepts and every adapter, whatever other
\* sessions do to the keys and the rows between the query and the edit, as long
\* as the cell's own row still has what it is found by: but for the queries that
\* are misjudged, that is shown by the columns of one read of its table (sides.rs
\* side, binder.rs build, sql.rs locate).
THEOREM EditsHitTheirCells == Spec => []EditHitsShown
<1>1. EditInv => EditHitsShown
  BY DEF EditInv, EditOK, EditHitsShown
<1> QED
  BY <1>1, EditInvInit, EditInvStep, PTL DEF Spec

-----------------------------------------------------------------------------
(* The keys that are remembered *)

Cached(e, d, have) == \A t \in DOMAIN have : have[t] = ReadKeys(e, d, t, {})
\* What an adapter remembers of a table's keys, once every reading of them was
\* answered and no other session changed any.
KeysCurrent == Remembers(adapter) /\ current => Cached(adapter, db, known)

LEMMA SameKeys ==
  ASSUME NEW e \in Adapters, NEW d, NEW n, n.keys = d.keys, NEW have, Cached(e, d, have)
  PROVE  Cached(e, n, have)
<1>1. ASSUME NEW t PROVE ReadKeys(e, n, t, {}) = ReadKeys(e, d, t, {})
  BY AdaptersKnown DEF ReadKeys
<1> QED
  BY <1>1 DEF Cached

LEMMA KeysCurrentNext == (Remembers(adapter') /\ current' => Cached(adapter', db', known')) => KeysCurrent'
BY DEF KeysCurrent, Remembers

LEMMA ReadingIsCurrent ==
  ASSUME NEW e, NEW d, NEW have, Cached(e, d, have), NEW lost, \A t \in DOMAIN lost : lost[t] = {},
         NEW read, read = Reading(e, d, have, lost)
  PROVE  Cached(e, d, read)
<1>1. PICK new : new = {t \in DOMAIN lost : lost[t] # Kinds \/ e \in {"mysql", "sqlite"}}
  OBVIOUS
<1>2. read = [t \in DOMAIN have \cup new |-> IF t \in DOMAIN have THEN have[t] ELSE ReadKeys(e, d, t, lost[t])]
  BY <1>1 DEF Reading
<1>3. \A t \in new : lost[t] = {}
  BY <1>1
<1> QED
  BY <1>2, <1>3 DEF Cached

LEMMA KeysCurrentStep == ASSUME EditInv, KeysCurrent, [Next]_vars PROVE KeysCurrent'
<1>1. adapter \in Adapters /\ SameTables(db)
  BY DEF EditInv, EditOK
<1> SUFFICES ASSUME Remembers(adapter'), current' PROVE Cached(adapter', db', known')
  BY KeysCurrentNext
<1>2. CASE Run
  <2>1. PICK lost, read :
          /\ read = Reading(adapter, db, IF Remembers(adapter) THEN known ELSE Nobody, lost)
          /\ known' = IF Remembers(adapter) THEN read ELSE known
          /\ current' = ((\A t \in DOMAIN lost : lost[t] = {}) /\ (Remembers(adapter) => current))
          /\ adapter' = adapter /\ db' = db
    BY <1>2 DEF Run
  <2>2. Remembers(adapter)
    BY <2>1 DEF Remembers
  <2>3. (\A t \in DOMAIN lost : lost[t] = {}) /\ current
    BY <2>1, <2>2, Zenon
  <2>4. Cached(adapter, db, known) /\ known' = read
    BY <2>1, <2>2, <2>3 DEF KeysCurrent
  <2>5. read = Reading(adapter, db, known, lost)
    BY <2>1, <2>2
  <2>6. Cached(adapter, db, read)
    BY <2>3, <2>4, <2>5, ReadingIsCurrent
  <2> QED
    BY <2>1, <2>4, <2>6
<1>3. CASE Alter
  <2>1. known' = <<>>
    BY <1>3 DEF Alter, Forget, Nobody
  <2>2. DOMAIN known' = {}
    BY <2>1
  <2> QED
    BY <2>2 DEF Cached
<1>4. CASE OtherAlters
  BY <1>4 DEF OtherAlters
<1>5. CASE OtherInserts \/ OtherUpdates \/ OtherDeletes
  <2>1. PICK t, rows : Rewritten(t, rows)
    BY <1>5, OthersRewrite
  <2>2. /\ db' = [db EXCEPT !.rows[t] = rows]
        /\ adapter' = adapter /\ known' = known /\ current' = current
    BY <2>1 DEF Rewritten
  <2>4. db'.keys = db.keys
    BY <1>1, <2>2, RowsChange
  <2>6. Remembers(adapter) /\ current
    BY <2>2 DEF Remembers
  <2>7. Cached(adapter, db, known)
    BY <2>6 DEF KeysCurrent
  <2> QED
    BY <1>1, <2>2, <2>4, <2>7, SameKeys
<1>6. CASE Edit
  <2>1. PICK table, row, b, hit : Change(table, row, b, hit)
    BY <1>6 DEF Edit
  <2>2. PICK put : put = Put(hit, b.name)
    OBVIOUS
  <2>3. db' = [db EXCEPT !.rows[hit.table] = put] /\ adapter' = adapter /\ known' = known /\ current' = current
    BY <2>1, <2>2 DEF Change
  <2>4. db'.keys = db.keys
    BY <1>1, <2>3, RowsChange
  <2>6. Remembers(adapter) /\ current
    BY <2>3 DEF Remembers
  <2>7. Cached(adapter, db, known)
    BY <2>6 DEF KeysCurrent
  <2> QED
    BY <1>1, <2>3, <2>4, <2>7, SameKeys
<1>7. CASE UNCHANGED vars
  <2>1. adapter' = adapter /\ known' = known /\ current' = current /\ db' = db
    BY <1>7 DEF vars
  <2>2. Remembers(adapter) /\ current
    BY <2>1 DEF Remembers
  <2> QED
    BY <2>1, <2>2 DEF KeysCurrent
<1> QED
  BY <1>2, <1>3, <1>4, <1>5, <1>6, <1>7 DEF Next

\* A key that an adapter remembers is the table's key now, until a reading fails
\* or another session changes one: what its own statements change is forgotten,
\* and no other table's is read in its place (stream.rs TableKeys::forget).
THEOREM RememberedKeysAreCurrent == Spec => []KeysCurrent
<1>1. Init => EditInv /\ KeysCurrent
  <2>1. Init => known = <<>>
    BY DEF Init, Nobody
  <2>2. Cached(adapter, db, <<>>)
    BY DEF Cached
  <2>3. Init => KeysCurrent
    BY <2>1, <2>2 DEF KeysCurrent
  <2> QED
    BY <2>3, EditInvInit
<1>2. EditInv /\ KeysCurrent /\ [Next]_vars => EditInv' /\ KeysCurrent'
  BY EditInvStep, KeysCurrentStep
<1> QED
  BY <1>1, <1>2, PTL DEF Spec
==============================================================================
